# lvgl-html5-canvas in TLA+

lvgl-html5-canvas is an LVGL application whose display is a browser. A draw
unit turns LVGL's draw tasks into a binary frame, a WebSocket server with a
thread of its own broadcasts the frame, and a page decodes it and replays it on
a canvas. These modules model the parts of it that keep state, and the way of a
draw task from LVGL to the canvas. Paths below are relative to the repository's
`src/` and `web/`.

## The system

| Component | State | Operations | Talks to |
|---|---|---|---|
| Main loop, `src/main.c` | exit flag, two u32 times | refresh every 33 ms, SIGINT, shutdown | LVGL, which calls the draw unit; starts and stops the server |
| Draw unit, `src/draw/html5_draw_unit.c` | frame id, frame open, operations in the frame, blob cache of 16 slots | begin_frame, evaluate, dispatch (fill, border, shadow, line, arc, image, layer), flush_frame | the encoder (calls), the server (broadcast) |
| Encoder, `src/proto/encoder.c` | position, command count, overflow, frame open | begin, one writer per command, blob_upload, blob_evict, end, finalize | the draw unit's buffer |
| WebSocket server, `src/transport/ws_server.c` | session table of 8, a 16-slot ring per session, viewer count, running | start, broadcast, stop; lws callbacks ESTABLISHED, CLOSED, SERVER_WRITEABLE | main thread and service thread share the table and rings under `g_lock`; `lws_cancel_service` wakes the service thread |
| Decoder, `web/decoder.js` | offset | decodeFrame, one reader per payload | the frame's bytes |
| Viewer, `web/viewer.js`, `web/ws.js` | blob cache, current socket, reconnect timer | renderFrame, storeBlob, drawBlob, doConnect, onClose | the server (a socket), browser events, `createImageBitmap` |

`src/lv_conf.h`, the demo image, the page, `src/proto/protocol.h` with its
generator, the build and the tests have no state of their own and are not
modelled; `PROJECT.json` lists them.

What is hard here:

* Two threads. `broadcast` runs between any two steps of the service thread;
  `still_more` is computed under the lock and used after it; the interest set
  changes while `poll()` sleeps; stop races with `poll()`.
* Rings at their limit: drop-oldest while the other thread pops, a `malloc`
  that fails after room was made, wrap-around.
* Order of connections: the table removes by swapping, sessions beyond the
  limit, a short write that closes with frames still queued, destruction with
  connections open.
* Buffers and counters at their limit: frame overflow, u16 lengths, counts and
  frame ids, a millisecond clock that wraps, coordinates narrowed to 16 bits and
  styles to 8, read again by another language.
* Two caches that never talk back: the server decides what a viewer has from
  what it sent, though frames are dropped, viewers reload and the server itself
  may be started again.
* Late events: the close event of a replaced socket, a bitmap that resolves
  after its blob is gone, SIGINT in the middle of anything.

`PROJECT.json` lists each hazard at its line with the properties that watch it.

## Modules

| Module | Models | Notes |
|---|---|---|
| `FrameFeed` | what the broadcast promises | abstract: members, a bounded queue per member, what each took |
| `WsServer` | `ws_server.c`, both threads | one action per region under `g_lock` and per call between regions; implements `FrameFeed` |
| `MainLoop` | `main.c` | extends `FrameFeed`: the program as its viewers see it |
| `Encoder` | `encoder.c` as operators on the `lhc_enc_t` | no variables: used by the next modules |
| `Payload` | the fields of a command: draw unit, encoder, decoder, viewer | no variables; has a reference definition of what LVGL asked for |
| `WireFrame` | caller, encoder, `decodeFrame`, painting | extends `Encoder` and `Payload`: a frame from the first call to the picture |
| `DrawUnit` | `html5_draw_unit.c` with a viewer's blob cache | extends `Encoder`; the viewer is a ghost |
| `ViewerConn` | `doConnect` and what calls it | page and browser events |
| `ViewerPage` | the page's blob cache and its promises | extends `ViewerConn`: messages come from the open socket |
| `MCWsServer`, `MCWireFrame`, `MCDrawUnit` | instances for TLC | symmetry only among viewers that malloc treats alike |
| `WsServerProofs`, `WsServerRefinement`, `MainLoopProofs`, `EncoderProofs`, `WireFrameProofs`, `DrawUnitProofs`, `ViewerProofs` | proofs | of the modules they extend |
| `Induction` | proofs | induction over the naturals, as a fact about sets |

How they compose. `WsServer` implements `FrameFeed`, so what is composed with
`FrameFeed` is composed with the server: `MainLoop` does so literally, and
`DrawUnit` uses the one fact it needs, `InOrder`: a viewer gets frames in order,
each at most once, and may miss any. `DrawUnit` and `WireFrame` share `Encoder`
as it is, each with what it cares about in the bodies of commands: blob ids
and pixels in the first, bytes in the second.

Conventions. An operator named `Faulty...` is a plausible mistake in the
definition after it; no specification uses it. Ghost variables are marked in
their declarations and guard nothing but the bounds. `external` entries of the
map are libwebsockets and the browser, as the code uses them.

### WsServer

`main` and `svc` are where the two threads are. The main thread goes `start`,
`loop`, `cancel` (after the unlock of `broadcast`, before
`lws_cancel_service`), and at the end `stop_cancel`, `join`, `destroy`,
`stopped`, one state per call of `lhc_ws_server_stop`. The service thread goes
`loop` (testing `running`), `poll`, `serve` (inside `lws_service`), and inside
SERVER_WRITEABLE `writeable` (before the lock), `write` (after the unlock,
before `lws_write` returns) and `close` (the callback returned -1).

libwebsockets is reduced to what the code relies on. `want` is the set of
viewers a writable callback was asked for, `polled` the part of it `poll()`
sleeps with, `wake` the pipe written by `lws_cancel_service`. Callbacks come
one at a time, on the service thread or, for CLOSED inside
`lws_context_destroy`, on the main thread. A call of
`lws_callback_on_writable` by the main thread is taken to be atomic, which
libwebsockets does not promise off the service thread: the hazard is listed and
no property covers it.

A viewer is one TCP connection; a browser that reconnects is another one. A
frame is the number of its broadcast. `ring[v]` is `per_session_data` field by
field. `heap[v]` is the set of copies that are allocated, so a leak, a double
free or a read of freed memory is a set that does not add up.

### FrameFeed

The specification a user of the server has in mind: frames are numbered, every
member has a queue of at most `Capacity` frames, a full queue gives up its
oldest. `WsServer!Feed` maps a ring to the sequence of its contents from the
tail on, and the session table to the set of members. A viewer whose allocation
may fail (`Oom` there, `Unlucky` here) may miss frames.

### MainLoop

`pc` is where `main` is: creating the display, starting the server, testing the
flag, in `lv_timer_handler`, in the forced refresh, sleeping, and then one state
per call of the shutdown. `now` and `last_refr` are the two u32 of the loop,
counted modulo `ClockMod`, and the clock starts at any value, because it is the
machine's uptime. Time passes, by at most `MaxRound`, from one reading of the
clock to the next. LVGL refreshes the display in `lv_refr_now` and, when its own
timer is due, in `lv_timer_handler`; each refresh opens a frame (`on_refr_start`)
and broadcasts it or not (`on_refr_ready`). SIGINT comes at any step. The
server's thread and its peers are the feed's `Take`, `Join` and `Leave`.

The module assumes that LVGL does not refresh a display in `lv_deinit`, which
deletes it. The draw unit's `g_ws` dangles from the return of
`lhc_ws_server_stop` on, and no property says anything of it.

What viewers see of the program is the feed by the way the module is composed,
which conjoins the feed's steps with those of `main.c`; this is a lemma of the
proofs (`MainFeed`) and not a property of a run. That the real server is such a
feed is `WsServer!ImplementsFeed`.

### Encoder and WireFrame

`Encoder` keeps every check and every advance of `pos`: `wr_*` checks,
`memcpy` does not. A command is an opcode, an offset, a length and a body.
`WireFrame` calls it as `encoder.h` asks, with draw tasks that were evaluated
and dispatched, sends what `lhc_enc_finalize` accepts and decodes it command by
command. Where no header was written, the decoder reads garbage.

### Payload

Four translations of a drawing operation, one after the other: a task to fields
with their casts and clamps (`Dispatch`), fields to bytes (`Encode`), bytes to
fields (`Decode`, with the sign rules of `DataView`), fields to what is painted
(`Paint`, `Store`). `FieldsArrive` compares the second with the third: every
field, whatever is painted of it. `PaintsAsked` compares the two ends, with
`Asked` as the reference: what LVGL asks for, in integers without a width, as
LVGL's renderer and docs/protocol.md understand a descriptor. `DrawTasks` and
`ImageData` are the tasks and images it all starts from, with any integer where
LVGL has 32 bits; `WireAssumption` says that the constants are of these types.

Nothing in `Asked` is taken from the viewer. Where the viewer is known to paint
something else, `Departures(t)` names the field of `Asked(t)` of which nothing
is promised; every other field of the same task must be as asked.

| Task | Not painted as asked | Where |
|---|---|---|
| any | a width, blur, dash or gap above 255, or a blur below 0, is cut off | html5_draw_unit.c:382-452 |
| fill, border, shadow | a radius above 255 where the short side is above 511 is cut off at 255 | html5_draw_unit.c:374-394 |
| arc | the outer radius: the viewer strokes half the width beyond `r`, which docs/protocol.md:151 calls the outer radius; a width above the radius; round ends, which are not sent | viewer.js:219-223 |
| line | one round end: both are round or none | viewer.js:202-204 |
| border with fewer than four sides | corners: its edges are straight | viewer.js:142-144 |
| border of odd width on all sides, radius at least half the short side | its bend, by half a pixel | viewer.js:121-125 |
| shadow with a spread | its corner: the spread is added to the radius | viewer.js:236 |
| image | its opacity, which is not sent | html5_draw_unit.c:162-186 |

Each entry is needed: without it the run `wire` fails. `LV_RADIUS_CIRCLE` is no
departure. It becomes 255, which is a circle all the same as long as the short
side is at most 511, which holds for everything on the 800 x 480 display.

No encoder could send a rectangle 40000 pixels to the right. `Paintable` says for
which tasks the commands can hold the place: coordinates and offsets of 16 bits,
a spread of 8, and for a border on all sides a width below the short side, since
the viewer paints no wider one (viewer.js:121). For any other task no picture is
promised (`Unsaid`), but its frame must still decode, its fields arrive and its
neighbours be painted.

### DrawUnit

One action per callback: `BeginFrame`, `DispatchOp` (fill, border, shadow, arc),
`DispatchLine` (all segments, stopping at the first that does not fit),
`DispatchImage` (find or evict, upload if due, draw) and the outcomes of flush.
`Shows[src]` is what a source may look like: one picture for an image,
several for the draw buffer of a layer, which LVGL renders into before it
dispatches the LAYER task. A blob id is the pixels it was hashed from: hash
collisions are left out.

The ghost viewer is one browser. A broadcast frame reaches it (`Flush`) or not
(`FlushMissed`: its ring dropped the frame, or it was connecting again), it may
reload its page (`Reload`, an empty cache), and the server may be started again
while the page stays and keeps its blobs (`Restart`). `viewer.age` counts the
frames since the last of these, `viewer.gap` says whether the page missed
anything since it was loaded.

### ViewerConn and ViewerPage

`ready[s]` is the readyState of every socket that still has an event to come.
`DoConnect` is part of the three actions that call it (load, click, timer);
`OnClose` is part of the two ways a close event comes about.

`ViewerPage` adds the page's `blobCache`. `Message` is one handler: all commands
of a frame. `createImageBitmap` is a member of `promises` until it resolves or
rejects, in any order, before and after evictions, uploads and reconnects. An
`ImageData` is named by an object, since its identity is what `storeBlob`
compares; objects that nobody refers to are used again.

## Runs

| Run | Shows | Bounds |
|---|---|---|
| `feed` | the feed's `InOrder` and `HoldsNewest` in the program around it; the refresh is paced and on time; the server outlives its use; SIGINT ends the program | 2 viewers, one unlucky, queues of 2, 4 frames: a queue overflows twice. A clock of 5, started anywhere, with a period of 2 and rounds up to 2: it wraps every third round, and RefreshPeriod + MaxRound is one short of it |
| `ws_safety` | rings, memory, wake-ups, table, accounting; a stop leaves no connection, viewer or memory behind | 3 connections on a table of 2 (one always too many, swaps happen); rings of 2 and 3 frames (full, dropped, wrapped); one viewer whose mallocs fail |
| `ws_feed` | refinement of `FrameFeed`, `FramesLeave`, `StopReturns` | 2 viewers, one with a fast socket, one with failing mallocs; 3 frames |
| `ws_limit` | finding: viewers beyond the table get nothing | 2 viewers, a table of 1 |
| `wire` | the encoder stays in its buffer, counts exactly, drops frames rather than commands; the decoder returns what was encoded, field by field; the viewer paints what was asked but for the departures listed above | a 48-byte buffer, filled exactly by some mixes and overflowed by others; blobs below, at and above the payload limit; a count modulus of 12, with `Cap = 4 * CountMod` as in the code (256 KiB and 2^16); 496 tasks, 316 of which are claimed and 306 of those `Paintable`: opacities, negative and extreme coordinates, radii from -1 to `LV_RADIUS_CIRCLE`, widths of 0 and above 255, every kind of side, dash, end, angle, spread and offset; images with and without alpha and with padded rows |
| `draw` | a viewer that has seen `Period` frames misses no blob, one without a gap keeps none too many; LRU; only whole frames are sent | 3 sources for 2 slots, period 2, 4 frames, 2 operations per frame, an 80-byte buffer that two uploads overflow, any number of reloads and restarts. With `Pixels = {1, 2, 3, 4}` source 1 is a layer with two looks; the properties hold there too (5.5 million states), and the run keeps to one look for its length |
| `conn` | one live connection, one timer, never stranded, connected again and again; bitmaps are current and never toggle | 5 sockets (3 are in use at most at a time), 2 clicks, 2 outages; 2 blob ids, 2 `ImageData` alive at a time, frames of up to 2 blob commands: evict and upload again in one frame |
| `draw_overflow`, `draw_layer`, `draw_limit`, `draw_lru`, `conn_flaps` | findings, below | small instances of the same modules |

The bounds are small because the code's structure repeats: a ring of 2 has
every relation between head and tail a ring of 16 has, a table of 2 has a swap
with itself and one with another entry, and two frames and a reload are what it
takes to pass the period. The theorems below hold for every value of the
constants. `CHECK_DEADLOCK FALSE` is set where the program ends or the bounds on
frames or clicks end the behaviour (`feed`, `draw`, `conn`); `WsServer` has an
explicit `Terminated` step, so a deadlock of the two threads would be found.

Each passing property has a mutant in `PROJECT.json`: a mistake in one
definition that makes the same run fail.

### Fairness

`WsServer!Fairness`: both threads continue while they have code to run, as the
operating system schedules them. `poll()` returns when the pipe is readable or
a polled socket of a `Fast` viewer is writable; its 50 ms time-out is *not*
assumed, so the wake-up protocol is what makes `StopReturns` true. A fast
viewer's callback is under strong fairness: `poll()` reports a writable socket
in every round, and one round may end before it is served. `FramesLeave` is
stated for fast viewers only: nothing makes a stalled TCP peer read. Nobody is
assumed to broadcast, to stop, to connect or to leave.

`MainLoop!MainFairness`: the main thread continues, and while it is in
`lws_context_destroy` the connections that are open are closed one by one.
`ExitsWhenAsked` needs both. Nobody is assumed to press Ctrl-C.

`ViewerConn!ConnFairness`: the event loop dispatches events and timers, and
while the server is up a handshake does not for ever take longer than the two
seconds after which a stray timer may replace the socket. `Reconnects` needs
the latter, `conn_flaps` is a behaviour that satisfies it. `ViewerPage` adds
none: a bitmap may never resolve.

The other specifications state safety only.

## Findings

* `ws_limit`. `session_add` ignores a ninth viewer, which stays connected, is
  counted, and receives nothing, even when places become free (README.md:36,
  ws_server.h:27 say all connected viewers).
* `draw_overflow`. A blob is recorded as uploaded when it is in the buffer. If
  the frame then overflows it is dropped, and later frames draw a blob the
  viewer never received (html5_draw_unit.c:286).
* `draw_layer`. A cache slot is found by address and keeps the id it was given
  at insertion. A layer rendered again into the same buffer shows the old
  pixels (viewer.js:55).
* `draw_limit`. A 128 x 128 image is claimed, and is ten bytes too long for a
  payload length: nobody draws it (html5_draw_unit.c:162).
* `draw_lru`. LRU ages are u16 frame ids compared without regard to wrapping
  (html5_draw_unit.c:71).
* `conn_flaps`. A click on Connect closes the old socket, whose close event
  starts a timer that closes the new one, for ever (PLAN.md:89). The page stays
  usable between two reconnects, which is what `Reconnects` says.

Met while modelling, and not a run of their own:

* docs/protocol.md:164 says a viewer that connects late is up to date one cycle
  later. With images it is after up to `LHC_BLOB_REFRESH_PERIOD` frames
  (html5_draw_unit.c:50 says "eventually"), which is why `NoBlank` starts at age
  `Period`.
* html5_draw_unit.c:117 says borders whose side is NONE or INTERNAL are skipped.
  INTERNAL (0x10) is claimed, and the viewer paints no edge of it; `Asked`
  counts the four edges only.
* A border on all sides that is as wide as its rectangle's short side is not
  painted at all (viewer.js:121). One of odd width whose radius is at least half
  the short side is painted with a bend half a pixel off, because the viewer
  rounds half of the inner side down (viewer.js:121-125).
* docs/protocol.md:151 calls an arc's `r` its outer radius; the viewer strokes
  half its width to either side of it, so the arc reaches too far out.
* Not every descriptor reaches the canvas: an arc's round ends and an image's own
  opacity are not sent (an image is claimed at any opacity but 0 and drawn
  opaque), one round end of a line rounds both, the edges of a border with fewer
  than four sides have no corners, and a shadow's corner grows with its spread.
* Two sources with the same pixels share a blob id. Evicting the one (html5_draw_unit.c:241)
  makes viewers drop the blob of the other, which still counts as uploaded and
  stays blank for up to `LHC_BLOB_REFRESH_PERIOD` frames, against the comment at
  html5_draw_unit.c:286-287. `NoBlank` is stated for sources with distinct pixels.
* docs/protocol.md:63 gives BEGIN_FRAME's size as u16; encoder and decoder take
  it as i16.
* docs/protocol.md:171 says frames without a FILL_RECT are dropped; the code
  drops those without any operation. Line 175 says 64 KiB where the buffer has
  256.
* docs/protocol.md:174-175 promises a log line for every frame that does not fit;
  one that overflows only in END_FRAME is dropped without.
* html5_draw_unit.h:32 calls begin_frame idempotent across nested calls; on an
  open frame it discards what was recorded. LVGL does not nest refreshes.
* A radius above 255 on a rectangle whose short side is above 511 is painted
  smaller than asked.

## Proofs

All theorems hold for every value of the constants that satisfies the
assumptions in the modules that declare them; the bounds of the runs (`MaxOps`,
`MaxFrames`, `MaxCmds`) occur in guards only, and no proof uses them.

* `MainLoopProofs`, the feed: `FeedTypeCorrect`, `FeedInOrder` and
  `FeedHoldsNewest`, from `FeedInv`: the type, both properties viewer by viewer,
  and that only members hold frames. Without the last part a viewer could join
  with a queue that is not the newest frames.
* `MainLoopProofs`, the program: `MainTypeCorrect`, `MainServerOutlivesUse`,
  `MainRefreshOnTime`, `MainRefreshPaced`. `MainInv` adds to the type where a
  frame may be open and the server must be up, and `ClockInv`: `since`, the real
  time, is `now - last_refr` or that and one turn of the clock. It cannot be two
  turns because no round leaves an overdue refresh behind (`since` is below
  `RefreshPeriod` outside the round) and a round adds at most `MaxRound`, which
  is what `RefreshPeriod + MaxRound <= ClockMod` is for. Pace and punctuality
  need each other. The feed's theorems carry over to the program, shutdown
  included: `MainInOrder`, `MainHoldsNewest`, `MainFeedTypeCorrect`.
* `WsServerProofs` begins with lemmas about modular arithmetic and rings (a
  position is reached by exactly one k, what pop, store, drop and drain do to
  the contents). `WsTypeOK` and `WsRingsOK`: `TypeInv` is `TypeOK` with the
  rings, with `BusyViewer` (inside SERVER_WRITEABLE there is a viewer and its
  connection is open) and with `TableOK` (the table holds open connections,
  each once, and no more than it can). They need each other: a pop is typed only
  if the slot at the tail is not NULL, and a push stays in the ring of an open
  connection only if the table is right. `WsNoMissedWake`, `WsSessionsOK` and
  `WsNoLostWakeup` follow, each from `TypeInv` and its own strengthening.
* `WsServerRefinement`: `WsImplementsFeed`, that is `Spec => Feed!FeedSpec`. Each
  action maps to one step of the feed or to none; Broadcast to `Publish`,
  `TakeOldest` to `Take`, `Established` to `Join`, `Closed` to `Leave`.
  `MembersOK` says that who is not registered has an empty ring, that who is not
  yet connected has taken nothing, and that the length of the table is the
  number of members, which is what `Join` compares.
* `WsServerRefinement`, memory: `WsHeapOwned` (no copy leaks, is freed twice or
  read after its free) and `WsAccounting` (sent, queued and dropped add up to
  what was broadcast since a viewer connected). `HeapInv` says that a viewer's
  allocated copies are those of its ring and the one being written, that these
  are two different sets, that the slots of a ring hold different frames, and
  that no copy is of a frame not yet broadcast. The last two are what makes a
  push add exactly one element and a pop take exactly one away.
* `WsServerRefinement`, the stop: `WsStopLeavesNothing`. No callback runs while
  the main thread destroys the context (`DestroyAlone`, from the join), so no
  connection is accepted after the last was closed (`NoneOpen`); that the table,
  the count and the memory are then empty is `WsSessionsOK` and `WsHeapOwned`.
* `EncoderProofs` has what the writers do to an `lhc_enc_t` (nothing, one more
  command, or the overflow flag), for the next two.
* `WireFrameProofs`, the frame: `WireBuffer`, `WireCount`, `WireNothingMissing`
  and `WireDecodes`. `WireInv` says of the encoder that its commands are packed and
  each ends before the next begins (`Apart`), that there are as many as
  `cmd_count` says, and that `4 + 4 * Len(cmds) <= pos` (`Begun`); with
  `CapAssumption` the count cannot reach its modulus. Of the decoder it says that
  it stands where its next command begins; `Apart` makes that command the only
  one found there.
* `WireFrameProofs`, the picture: `WireTypeCorrect`, `WireFieldsArrive` and
  `WirePaints`, that is `FieldsArrive` and `PaintsAsked` for every task and image. The first part of the module is one
  round trip per command (`FillTrip`, `BorderTrip` and so on): `Block(s, n)` says
  that s is n bytes, `Holds(p, n, s)` that p has them after its first n, and
  blocks are put together one by one, each reader seeing its own. The second
  part says of each kind of task that its fields are of the type the trip starts
  from, whatever the task, and that painting them agrees with `Asked` outside
  `Departures` if the task is `Paintable` (`FillPainted` and so on); the clamp of a
  radius and the bend of a border are the two that are not plain arithmetic. `BlobTrip` and `BlobKept`
  do it for images: the byte of a pixel is found in the packed rows by quotient
  and remainder. `WireInv` adds to each command in the buffer that its body
  belongs to its operation (`Carries`) and that it brings the fields and paints
  what was asked in its place (`Meets`), which is carried from the encoder to the frame and to what is
  decoded.
* `DrawUnitProofs`: `DrawTypeCorrect`, `DrawFramesWhole`, `DrawNoBlank`,
  `DrawNoLeak` and `DrawEvictsOldest`, from `DrawInv`. Its parts: `SlotsOK` (one
  slot per source, whose blob is what the source showed), `Started` (an open
  frame begins with BEGIN_FRAME and has a drawing if any was counted), `Sent` (a
  blob uploaded n frames ago is in a viewer that has had n frames without a gap,
  both after the last frame and, if nothing overflows, after the open one),
  `Drawn` (a blob uploaded in this frame was drawn in it, so the frame is not
  forgotten as empty), `Known` (every blob of the viewer is the server's),
  `Silent` (nothing was said in a frame without operations) and `Dated` (while
  ids are not reused, `last_used` tells how long ago a slot was used). A task
  that evicts, uploads and draws is followed call by call, because each may be
  the one that does not fit; a line is an induction over its segments.
  The conditions under which blanks and leaks are excluded are part of the
  properties, as their runs check them: sources with distinct pixels
  (`OwnPixels`) and ids not reused (`NoWrap`) for `NoBlank`, images that fit a
  payload (`ImagesFit`) for `NoLeak`, no frame lost to an overflow (`~spoiled`)
  for both. `DrawEvictsOldest` is about the first `IdMod` frames: after them
  `EvictsOldest` is false, which is the finding of `draw_lru`.
* `ViewerProofs`, the connection: `ConnTypeCorrect`, `ConnOneLive`,
  `ConnOneTimer` and `ConnNeverStranded`. Their conjunction with the type is
  inductive; none is on its own.
* `ViewerProofs`, the page: `PageTypeCorrect`, `PageBitmapCurrent` and
  `PageNoToggle`. A message is an induction over its commands: after k of them
  the page is as it should be, no bitmap was exchanged without an eviction among
  the k, and there are objects left for the uploads that follow. `PageConnects`
  says that the page implements the connection (a message is a stutter), so
  that the theorems about `ConnSpec` are about the page too.
* `Induction` proves induction over the naturals from `WFMin`, for a set of
  naturals instead of a predicate, since no prover here instantiates an operator
  parameter. With it `Replay` and the segments of a line, recursive functions
  both, are reasoned about for every length. No module declares a RECURSIVE
  operator.

Every invariant and every action property of the passing runs is proved. Only
model-checked: liveness (`FramesLeave`, `StopReturns`, `ExitsWhenAsked`,
`Reconnects`), since the proof system handles neither ENABLED nor fairness.

## Not modelled

* What `image_is_simple` and `layer_is_simple` refuse besides opacity and size:
  rotation, scale, skew, tiling, masks, recoloring, formats. A refused task is
  LVGL's software renderer's, whose pixels are not sent.
* Statistics, logging and the status line; the flags byte of a command, which
  nobody reads, and a shadow's `bg_cover`, which the viewer does not use;
  `LWS_CALLBACK_RECEIVE` and `lhc_ws_server_service`, which change nothing.
* Clip areas: the draw unit does not send a task's `clip_area`, and the viewer
  paints the whole shape.
* How a canvas makes pixels of a path, a shadow's blur or an arc, and drawing a
  bitmap into a rectangle of another size.
* The demo scene and the benchmark in `main.c`, configuration, generated data,
  the protocol constants' generator, the tests.
* Collisions of FNV-1a, frame ids past their wrap together with late viewers
  (`NoBlank` excludes them; the hazard is listed), and two sources with the same
  pixels, whose shared blob id an eviction of one takes from the other (listed
  too; `draw` has no two such sources).
* libwebsockets' own state, touched off its thread by `broadcast`.

## Left for later

Runs of `DrawUnit` of their own for shared pixels and past the wrap of frame ids,
where `NoBlank` does not hold.
