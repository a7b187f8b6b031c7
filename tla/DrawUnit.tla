------------------------------ MODULE DrawUnit ------------------------------
(***************************************************************************)
(* src/src/draw/html5_draw_unit.c: a refresh cycle of LVGL becomes a frame *)
(* of the encoder, and the blob cache decides which images travel with it. *)
(* All of it runs on LVGL's thread.                                        *)
(*                                                                         *)
(* LVGL is external: it brackets a cycle by REFR_START and REFR_READY      *)
(* (main.c:51,57) and dispatches the tasks the unit claimed in between. A  *)
(* task dispatched while no frame is open changes nothing modelled here.   *)
(*                                                                         *)
(* The viewer is a ghost: one browser that gets broadcast frames in order, *)
(* each at most once (FrameFeed!InOrder). It may miss any of them, because *)
(* its ring dropped them or it was connecting again, and it may reload its *)
(* page. What its cache makes of the frame in progress is kept up to date  *)
(* command by command (ahead).                                             *)
(*                                                                         *)
(* Pixels stands for the bytes of an image together with its format and    *)
(* dimensions; fnv1a32 is taken to tell any two of them apart, so a blob   *)
(* id is the pixels it was computed from.                                  *)
(*                                                                         *)
(* An operator named Faulty... is a plausible mistake in the definition    *)
(* that follows it.                                                        *)
(***************************************************************************)
EXTENDS Encoder

CONSTANTS
    Sources,        \* image sources: the addresses of descriptors
    Pixels,
    Shows,          \* Shows[src]: the pixels it may have; LVGL renders other
                    \* pixels into the draw buffer of a layer
    Size,           \* Size[src]: bytes of its pixels
    Slots,          \* 1 .. LHC_BLOB_CACHE_SLOTS
    Period,         \* LHC_BLOB_REFRESH_PERIOD
    MaxImageBytes,  \* 4 * LHC_IMG_MAX_DIM ^ 2
    IdMod,          \* 2^16: g_frame_id is a u16
    Ops,            \* operations of the other tasks, one command each
    LineOps,        \* operations of line tasks, one command per segment
    MaxSegments,    \* bound: segments of a line
    MaxOps,         \* bound: operations in a frame
    MaxFrames,      \* bound: frames broadcast
    None            \* no source, no pixels

ASSUME DrawAssumption ==
    /\ Shows \in [Sources -> SUBSET Pixels]
    /\ Size \in [Sources -> Nat]
    /\ Slots \subseteq Nat /\ Slots # {}
    /\ Period \in Nat \ {0}
    /\ IdMod \in Nat /\ IdMod > Period
    /\ None \notin Pixels /\ None \notin Sources
    /\ Ops \cup LineOps \subseteq DOMAIN PayloadLen
    /\ MaxSegments \in Nat

VARIABLES
    frame_id,    \* g_frame_id
    frame_open,  \* g_frame_open
    enc,         \* g_enc
    ops,         \* g_ops_this_frame
    blobs,       \* g_blobs
    viewer,      \* ghost: frames it got without a gap, up to Period; its blobs;
                 \* whether there was a gap since its page was loaded
    ahead,       \* ghost: the viewer after the commands of the open frame
    shown,       \* ghost: what was wrong with the frame broadcast last
    refused,     \* ghost: a claimed image was not drawn, though there was room
    frames,      \* ghost: frames broadcast
    spoiled,     \* ghost: a frame was dropped because it overflowed
    evictedAt    \* ghost: when the slot this frame evicted last was used

frameVars == <<frame_id, frame_open, enc, ops>>
ghostVars == <<viewer, ahead, shown, refused, frames, spoiled, evictedAt>>
drawVars  == <<frameVars, blobs, ghostVars>>

EmptySlot == [in_use |-> FALSE, src |-> None, id |-> None, last_used |-> 0,
              last_uploaded |-> 0, uploaded |-> FALSE, used_at |-> 0]

NothingWrong == [age |-> 0, blank |-> FALSE, stale |-> FALSE, whole |-> TRUE]

Fresh == [cache |-> [p \in Pixels |-> None], blank |-> FALSE, stale |-> FALSE]

DrawInit ==
    /\ frame_id = 0
    /\ frame_open = FALSE
    /\ enc = EncInit
    /\ ops = 0
    /\ blobs = [i \in Slots |-> EmptySlot]
    /\ viewer = [age |-> Period, cache |-> Fresh.cache, gap |-> FALSE]
    /\ ahead = Fresh
    /\ shown = NothingWrong
    /\ refused = FALSE
    /\ frames = 0
    /\ spoiled = FALSE
    /\ evictedAt = 0

----------------------------------------------------------------------------
(* The viewer: renderFrame, storeBlob and drawBlob of web/viewer.js *)

\* One command, on the blobs the viewer has. An image is blank when its blob is
\* not there, stale when the blob is not what the image shows.
Replay(v, c) ==
    CASE c.op = "BLOB_UPLOAD" /\ v.cache[c.body.id] = None
           -> [v EXCEPT !.cache[c.body.id] = c.body.pixels]
      [] c.op = "BLOB_EVICT"
           -> [v EXCEPT !.cache[c.body.id] = None]
      [] c.op = "IMAGE"
           -> LET p == v.cache[c.body.id]
              IN  [v EXCEPT !.blank = @ \/ p = None,
                            !.stale = @ \/ p \notin {None, c.body.pixels}]
      [] OTHER -> v

\* The viewer after the command that turned the buffer e into f, if any did.
Follow(v, e, f) ==
    IF Len(f.cmds) > Len(e.cmds) THEN Replay(v, f.cmds[Len(f.cmds)]) ELSE v

----------------------------------------------------------------------------
(* The blob cache *)

Holders(src) == {i \in Slots : blobs[i].in_use /\ blobs[i].src = src}
FreeSlots == {i \in Slots : ~blobs[i].in_use}

FaultyVictimNewest ==
    CHOOSE i \in Slots :
        IF FreeSlots # {} THEN i \in FreeSlots
        ELSE \A j \in Slots : blobs[i].last_used >= blobs[j].last_used

\* The first free slot, or the first of those used longest ago.
Victim ==
    CHOOSE i \in Slots :
        IF FreeSlots # {} THEN i \in FreeSlots /\ \A j \in FreeSlots : i <= j
        ELSE \A j \in Slots :
               \/ blobs[i].last_used < blobs[j].last_used
               \/ blobs[i].last_used = blobs[j].last_used /\ i <= j

FaultyEvictSilently(s) == enc

\* The viewer is told to drop the blob of the slot that is reused.
Evict(s) == IF s.in_use /\ s.uploaded
            THEN EncBlobEvict(enc, [id |-> s.id, pixels |-> None])
            ELSE enc

Inserted(src, p) ==
    [in_use |-> TRUE, src |-> src, id |-> p, last_used |-> frame_id,
     last_uploaded |-> 0, uploaded |-> FALSE, used_at |-> frames]

FaultyYoungNoPeriod(s) == s.uploaded

\* The viewer was sent this blob within the last Period frames.
Young(s) ==
    s.uploaded /\ (frame_id - s.last_uploaded) % IdMod < Period

\* The slot after its pixels were converted and encoded.
Uploaded(s) == [s EXCEPT !.uploaded = TRUE, !.last_uploaded = frame_id]

----------------------------------------------------------------------------
(* A refresh cycle *)

\* lhc_evaluate_cb claims an image or a layer that is not too large. Sources
\* whose descriptor it refuses for another reason are not in Sources.
Claimed(src) == Size[src] <= MaxImageBytes

\* lhc_html5_draw_unit_begin_frame
BeginFrame ==
    /\ ~frame_open
    /\ frames < MaxFrames
    /\ enc' = EncBeginFrame(EncInit)
    /\ frame_open' = TRUE
    /\ ops' = 0
    /\ ahead' = [Fresh EXCEPT !.cache = viewer.cache]
    /\ shown' = NothingWrong
    /\ refused' = FALSE
    /\ evictedAt' = 0
    /\ UNCHANGED <<frame_id, blobs, viewer, frames, spoiled>>

\* lhc_dispatch_cb on a fill, a border, a shadow or an arc. The operation
\* counts whether or not there was room for it.
DispatchOp(op) ==
    /\ frame_open
    /\ ops < MaxOps
    /\ enc' = EncOp(enc, op, NoBody)
    /\ ops' = ops + 1
    /\ UNCHANGED <<frame_id, frame_open, blobs, ghostVars>>

\* The buffer and the operations after the k-th segment of a line. The loop ends
\* after the first segment that does not fit.
Segment(p, k, op) ==
    IF k > 1 /\ p.enc.overflow THEN p
    ELSE [enc |-> EncOp(p.enc, op, NoBody), ops |-> p.ops + 1]

\* lhc_dispatch_cb on a line of n drawable segments.
DispatchLine(op, n) ==
    LET segment[k \in 0..n] ==
          IF k = 0 THEN [enc |-> enc, ops |-> ops]
          ELSE Segment(segment[k-1], k, op)
    IN
    /\ frame_open
    /\ ops + n <= MaxOps
    /\ enc' = segment[n].enc
    /\ ops' = segment[n].ops
    /\ UNCHANGED <<frame_id, frame_open, blobs, ghostVars>>

\* lhc_dispatch_cb on an image or a layer that has the pixels p now, with
\* blob_cache_get_or_insert and blob_ensure_uploaded: evict, upload and draw,
\* as far as each is needed and the one before it worked.
DispatchImage(src, p) ==
    LET hit   == Holders(src) # {}
        i     == IF hit THEN CHOOSE h \in Holders(src) :
                               \A j \in Holders(src) : h <= j
                 ELSE Victim
        s     == IF hit THEN [blobs[i] EXCEPT !.last_used = frame_id,
                                              !.used_at = frames]
                 ELSE Inserted(src, p)
        e1    == IF hit THEN enc ELSE Evict(blobs[i])
        up    == ~Young(s)
        ok    == up => UploadFits(e1, Size[src])
        body  == [id |-> s.id, pixels |-> p]
        e2    == IF up THEN EncBlobUpload(e1, Size[src], body) ELSE e1
        e3    == IF ok THEN EncOp(e2, "IMAGE", body) ELSE e2
    IN
    /\ frame_open
    /\ ops < MaxOps
    /\ Claimed(src)
    /\ blobs' = [blobs EXCEPT ![i] = IF up /\ ok THEN Uploaded(s) ELSE s]
    /\ enc' = e3
    /\ ops' = IF ok THEN ops + 1 ELSE ops
    /\ ahead' = Follow(Follow(Follow(ahead, enc, e1), e1, e2), e2, e3)
    /\ refused' = (~ok /\ ~e2.overflow)
    /\ evictedAt' = IF ~hit /\ blobs[i].in_use THEN blobs[i].used_at
                                               ELSE evictedAt
    /\ UNCHANGED <<frame_id, frame_open, viewer, shown, frames, spoiled>>

FaultyHasOps == TRUE

\* Is there anything to draw in the open frame?
HasOps == ops > 0

\* lhc_html5_draw_unit_flush_frame, when no operation was dispatched: whatever
\* else is in the buffer is forgotten.
FlushEmpty ==
    /\ frame_open
    /\ ~HasOps
    /\ frame_open' = FALSE
    /\ ahead' = Fresh
    /\ UNCHANGED <<frame_id, enc, ops, blobs, viewer, shown, refused, frames,
                   spoiled, evictedAt>>

\* The same, when something did not fit: nothing is broadcast, and frame_id is
\* used again.
FlushOverflow ==
    LET e == EncEndFrame(enc) IN
    /\ frame_open
    /\ HasOps
    /\ EncFinalize(e) = 0
    /\ frame_open' = FALSE
    /\ enc' = e
    /\ spoiled' = TRUE
    /\ ahead' = Fresh
    /\ UNCHANGED <<frame_id, ops, blobs, viewer, shown, refused, frames,
                   evictedAt>>

\* A frame fit for the viewer: BEGIN_FRAME, something to draw, END_FRAME.
Whole(cmds) ==
    /\ cmds # <<>>
    /\ cmds[1].op = "BEGIN_FRAME"
    /\ cmds[Len(cmds)].op = "END_FRAME"
    /\ \E k \in 1..Len(cmds) : cmds[k].op \in Ops \cup LineOps \cup {"IMAGE"}

\* The same, when the frame is broadcast.
Broadcast ==
    /\ frame_open
    /\ HasOps
    /\ enc' = EncEndFrame(enc)
    /\ EncFinalize(enc') # 0
    /\ frame_open' = FALSE
    /\ frame_id' = (frame_id + 1) % IdMod
    /\ frames' = frames + 1
    /\ ahead' = Fresh
    /\ UNCHANGED <<ops, blobs, refused, spoiled, evictedAt>>

\* The viewer replays the frame.
Flush ==
    /\ Broadcast
    /\ viewer' = [viewer EXCEPT !.age = IF @ < Period THEN @ + 1 ELSE Period,
                                !.cache = ahead.cache]
    /\ shown' = [age |-> viewer.age, blank |-> ahead.blank,
                 stale |-> ahead.stale, whole |-> Whole(enc'.cmds)]

\* The frame never reaches the viewer: ring_push drops it when newer frames
\* come, or the viewer has no connection.
FlushMissed ==
    /\ Broadcast
    /\ viewer' = [viewer EXCEPT !.age = 0, !.gap = TRUE]
    /\ UNCHANGED shown

----------------------------------------------------------------------------
\* The page is reloaded: a new connection and an empty cache. It matters only
\* between two broadcasts.
Reload ==
    /\ ~frame_open
    /\ viewer' = [age |-> 0, cache |-> Fresh.cache, gap |-> FALSE]
    /\ UNCHANGED <<frameVars, blobs, ahead, shown, refused, frames,
                   spoiled, evictedAt>>

\* The program is started again: it has forgotten what it sent, and the page,
\* which connects again, has kept its blobs.
Restart ==
    /\ ~frame_open
    /\ frame_id' = 0
    /\ enc' = EncInit
    /\ ops' = 0
    /\ blobs' = [i \in Slots |-> EmptySlot]
    /\ viewer' = [viewer EXCEPT !.age = 0, !.gap = TRUE]
    /\ UNCHANGED <<frame_open, ahead, shown, refused, frames, spoiled, evictedAt>>

DrawNext ==
    \/ BeginFrame \/ FlushEmpty \/ FlushOverflow \/ Flush \/ FlushMissed
    \/ Reload \/ Restart
    \/ \E op \in Ops : DispatchOp(op)
    \/ \E op \in LineOps, n \in 0..MaxSegments : DispatchLine(op, n)
    \/ \E src \in Sources : \E p \in Shows[src] : DispatchImage(src, p)

DrawSpec == DrawInit /\ [][DrawNext]_drawVars

----------------------------------------------------------------------------
(* Properties *)

BlobBody == [id : Pixels, pixels : Pixels \cup {None}]

SlotType == [in_use : BOOLEAN, src : Sources \cup {None},
             id : Pixels \cup {None}, last_used : 0..IdMod-1,
             last_uploaded : 0..IdMod-1, uploaded : BOOLEAN, used_at : Nat]

DrawTypeOK ==
    /\ frame_id \in 0..IdMod-1
    /\ frame_open \in BOOLEAN
    /\ enc.pos \in 0..Cap
    /\ enc.overflow \in BOOLEAN
    /\ ops \in Nat
    /\ blobs \in [Slots -> SlotType]
    /\ viewer \in [age : 0..Period, cache : [Pixels -> Pixels \cup {None}],
                   gap : BOOLEAN]
    /\ ahead \in [cache : [Pixels -> Pixels \cup {None}], blank : BOOLEAN,
                  stale : BOOLEAN]

\* No frame id has been used twice, the open frame's included.
NoWrap == frames + (IF frame_open THEN 1 ELSE 0) <= IdMod

\* No two sources have the same pixels.
OwnPixels == \A a, b \in Sources : a # b => Shows[a] \cap Shows[b] = {}

\* An image that is claimed can be uploaded in a frame of its own, after an
\* eviction.
ImagesFit ==
    /\ FRAME_HDR_SIZE + CMD_HDR_SIZE + PayloadLen["BEGIN_FRAME"] <= Cap
    /\ \A src \in Sources : Claimed(src) =>
         /\ Size[src] + BLOB_HDR_SIZE <= MaxPayload
         /\ FRAME_HDR_SIZE + CMD_HDR_SIZE + PayloadLen["BEGIN_FRAME"]
              + CMD_HDR_SIZE + PayloadLen["BLOB_EVICT"]
              + CMD_HDR_SIZE + BLOB_HDR_SIZE + Size[src] <= Cap

\* A viewer that was sent Period frames without a gap has every blob the frames
\* draw, although blobs are sent once and then only every Period frames, are
\* evicted to make room, the viewer may have joined at any time and missed any
\* frame before, and the server may have been restarted: as long as no frame
\* overflowed, frame ids have not wrapped and no two sources have the same pixels
\* (html5_draw_unit.c:49-50).
NoBlank ==
    OwnPixels /\ ~spoiled /\ NoWrap => (shown.age >= Period => ~shown.blank)

\* A viewer without a gap keeps no blob the server has forgotten: its cache never
\* outgrows the server's (html5_draw_unit.c:238-241), as long as no frame
\* overflowed and no image is too large for an upload (ImagesFit): an eviction
\* in a frame that stays empty is forgotten with it.
NoLeak ==
    LET cache == IF frame_open THEN ahead.cache ELSE viewer.cache
    IN  ImagesFit /\ ~spoiled /\ ~viewer.gap /\ ~(frame_open /\ enc.overflow) =>
          \A p \in Pixels : cache[p] # None =>
            \E i \in Slots : blobs[i].in_use /\ blobs[i].uploaded
                                             /\ blobs[i].id = p

\* html5_draw_unit.c:71: "simple LRU by last_used". No slot was used longer ago
\* than the one evicted last.
EvictsOldest ==
    \A i \in Slots : blobs[i].in_use => evictedAt <= blobs[i].used_at

\* Every broadcast frame starts with BEGIN_FRAME, draws something and ends with
\* END_FRAME (docs/protocol.md:74): operations are counted even when they do
\* not fit, but then the frame is not broadcast.
FramesWhole == shown.whole

\* html5_draw_unit.c:286: blob_ensure_uploaded "returns true if the blob is
\* available on the viewer side by end of this frame". False: the upload's frame
\* may overflow and be dropped, and the slot stays marked as uploaded.
DrawnBlobsAvailable == shown.age >= Period => ~shown.blank

\* viewer.js:56: "blob_id is content-hash based, so same id => same pixels".
\* False for layers: the id is computed when a slot is taken, and the slot is
\* found by the address of a buffer LVGL renders into again.
SameIdSamePixels == ~shown.stale

\* html5_draw_unit.c:162: images are claimed up to LHC_IMG_MAX_DIM "so one
\* BLOB_UPLOAD fits in u16 len". False at the limit: 4 * 128 * 128 bytes and the
\* blob header exceed 0xFFFF, and the claimed image is never drawn.
ClaimedFits == ~refused
=============================================================================
