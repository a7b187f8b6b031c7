----------------------------- MODULE WireFrame -----------------------------
(***************************************************************************)
(* A frame from LVGL's draw tasks to what the viewer paints: the calls of  *)
(* src/src/proto/encoder.c in the order encoder.h gives them, the loop of  *)
(* decodeFrame in src/web/decoder.js over the bytes they leave, and the    *)
(* payloads of module Payload in the commands. The transport between them  *)
(* is left out: a websocket message arrives whole.                         *)
(***************************************************************************)
EXTENDS Encoder, Payload

CONSTANTS
    Tasks,      \* the draw tasks of LVGL
    RawLens,    \* payload lengths given to lhc_enc_cmd itself
    Images,     \* the images uploaded
    MaxCmds     \* bound: operations asked for in a frame

ASSUME WireAssumption ==
    /\ RawLens \subseteq Nat
    /\ Tasks \subseteq DrawTasks
    /\ Images \subseteq ImageData
    /\ MaxCmds \in Nat

\* LHC_FRAME_BUF_SIZE is 256 KiB, which is CMD_HDR_SIZE * 2^16 exactly: the
\* largest buffer that cannot hold 2^16 commands after its frame header.
ASSUME CapAssumption == Cap <= CMD_HDR_SIZE * CountMod

VARIABLES
    enc,    \* the lhc_enc_t
    asked,  \* ghost: what this frame must say and paint, or Spoiled
    frame,  \* the message a viewer received: size, cmd_count and commands
    dec     \* decodeFrame's state

wireVars == <<enc, asked, frame, dec>>

\* The operation, the fields it is given and what it must paint.
Ask(op, fields, what) == [op |-> op, fields |-> fields, paint |-> what]

\* One whose payload the viewer does not look at.
AskPlain(op) == Ask(op, NoBody, NoBody)

\* A frame that overflowed must not be sent at all.
Spoiled == <<"spoiled">>

NoFrame == [size |-> 0, count |-> 0, cmds |-> <<>>, asked |-> <<>>]

Idle == [at |-> "idle", off |-> 0, i |-> 0, cmds |-> <<>>]

WireInit ==
    /\ enc = EncInit
    /\ asked = <<>>
    /\ frame = NoFrame
    /\ dec = Idle

----------------------------------------------------------------------------
(* The encoder's caller *)

\* lhc_enc_init and lhc_enc_begin_frame always come together.
Begin ==
    /\ ~enc.frame_open
    /\ dec.at = "idle"
    /\ enc' = EncBeginFrame(EncInit)
    /\ asked' = <<AskPlain("BEGIN_FRAME")>>
    /\ UNCHANGED <<frame, dec>>

\* The frame open now must also paint what, if what was asked still fits.
Asking(e, ask) == IF e.overflow THEN Spoiled ELSE Append(asked, ask)

\* A task the draw unit claims is dispatched and encoded.
Draw(t) ==
    LET c == Dispatch(t) IN
    /\ enc.frame_open
    /\ Len(asked) < MaxCmds
    /\ Evaluate(t)
    /\ enc' = EncOp(enc, c.op, Encode(c.op, c.f))
    /\ asked' = Asking(enc', Ask(c.op, c.f, Expected(t)))
    /\ UNCHANGED <<frame, dec>>

\* lhc_enc_cmd called directly, as the tests do.
RawCmd(len) ==
    /\ enc.frame_open
    /\ Len(asked) < MaxCmds
    /\ enc' = EncCmd(enc, "RAW", len, NoBody)
    /\ asked' = Asking(enc', AskPlain("RAW"))
    /\ UNCHANGED <<frame, dec>>

BlobFields(img) ==
    [id |-> img.blob_id, w |-> img.w, h |-> img.h, fmt |-> 1, bytes |-> Blit(img)]

\* blob_ensure_uploaded; it is told whether the upload worked.
Upload(img) ==
    LET data == 4 * img.w * img.h IN
    /\ enc.frame_open
    /\ Len(asked) < MaxCmds
    /\ enc' = EncBlobUpload(enc, data, BlobBody(img))
    /\ asked' = IF UploadFits(enc, data) \/ enc'.overflow
                THEN Asking(enc', Ask("BLOB_UPLOAD", BlobFields(img), Kept(img)))
                ELSE asked
    /\ UNCHANGED <<frame, dec>>

\* lhc_enc_end_frame and lhc_enc_finalize; nothing is sent when it returns 0.
Send ==
    LET e == EncEndFrame(enc)
        n == EncFinalize(e)
    IN
    /\ enc.frame_open
    /\ enc' = e
    /\ asked' = <<>>
    /\ IF n = 0 THEN UNCHANGED <<frame, dec>>
       ELSE /\ frame' = [size |-> n, count |-> e.cmd_count, cmds |-> e.cmds,
                         asked |-> Append(asked, AskPlain("END_FRAME"))]
            /\ dec' = [Idle EXCEPT !.at = "start"]

----------------------------------------------------------------------------
(* decodeFrame *)

\* The command header the decoder finds at byte off. Where no header was
\* written it reads whatever is there.
HeaderAt(off) ==
    IF \E k \in 1..Len(frame.cmds) : frame.cmds[k].off = off
    THEN frame.cmds[CHOOSE k \in 1..Len(frame.cmds) : frame.cmds[k].off = off]
    ELSE [op |-> "GARBAGE", off |-> off, len |-> 0, body |-> NoBody]

\* The frame header.
DecodeHeader ==
    /\ dec.at = "start"
    /\ dec' = IF frame.size < FRAME_HDR_SIZE THEN [dec EXCEPT !.at = "threw"]
              ELSE [dec EXCEPT !.at = "cmd", !.off = FRAME_HDR_SIZE]
    /\ UNCHANGED <<enc, asked, frame>>

FaultyDecodeCmdHeaderless ==
    /\ dec.at = "cmd"
    /\ dec.i < frame.count
    /\ LET h == HeaderAt(dec.off)
       IN  dec' = IF dec.off + CMD_HDR_SIZE + h.len > frame.size
                  THEN [dec EXCEPT !.at = "threw"]
                  ELSE [dec EXCEPT !.i = @ + 1, !.off = @ + h.len,
                                   !.cmds = Append(@, h)]
    /\ UNCHANGED <<enc, asked, frame>>

\* One round of the loop over cmd_count commands.
DecodeCmd ==
    LET h == HeaderAt(dec.off)
        next == dec.off + CMD_HDR_SIZE + h.len
    IN
    /\ dec.at = "cmd"
    /\ dec.i < frame.count
    /\ dec' = IF \/ dec.off + CMD_HDR_SIZE > frame.size
                 \/ next > frame.size
              THEN [dec EXCEPT !.at = "threw"]
              ELSE [dec EXCEPT !.i = @ + 1, !.off = next,
                               !.cmds = Append(@, h)]
    /\ UNCHANGED <<enc, asked, frame>>

DecodeDone ==
    /\ dec.at = "cmd"
    /\ dec.i = frame.count
    /\ dec' = [dec EXCEPT !.at = "done"]
    /\ UNCHANGED <<enc, asked, frame>>

\* renderFrame takes the commands, or handleMessage logs the error.
Consumed ==
    /\ dec.at \in {"done", "threw"}
    /\ dec' = Idle
    /\ frame' = NoFrame
    /\ UNCHANGED <<enc, asked>>

WireNext ==
    \/ Begin \/ Send
    \/ \E t \in Tasks : Draw(t)
    \/ \E len \in RawLens : RawCmd(len)
    \/ \E img \in Images : Upload(img)
    \/ DecodeHeader \/ DecodeCmd \/ DecodeDone \/ Consumed

WireSpec == WireInit /\ [][WireNext]_wireVars

----------------------------------------------------------------------------
(* Properties *)

DrawOps == {"FILL_RECT", "BORDER", "LINE", "LINE_EX", "ARC", "BOX_SHADOW", "IMAGE"}

CmdType == [op : DrawOps \cup {"BEGIN_FRAME", "END_FRAME", "RAW", "BLOB_UPLOAD"},
            off : Nat, len : Nat, body : Bytes]

WireTypeOK ==
    /\ enc \in [pos : Nat, cmd_count : 0..CountMod-1, overflow : BOOLEAN,
                frame_open : BOOLEAN, cmds : Seq(CmdType)]
    /\ \A k \in 1..Len(enc.cmds) :
         enc.cmds[k].op \in DrawOps => Len(enc.cmds[k].body) = enc.cmds[k].len
    /\ frame.size \in Nat
    /\ frame.count \in 0..CountMod-1
    /\ frame.cmds \in Seq(CmdType)
    /\ dec.at \in {"idle", "start", "cmd", "done", "threw"}
    /\ dec.off \in Nat
    /\ dec.i \in Nat

\* The commands stand one after the other from the frame header to pos, and
\* pos is inside the buffer: the one check each writer makes first covers all
\* its writes, the unchecked memcpy too (encoder.c:40,230).
Packed(cmds, pos) ==
    IF cmds = <<>> THEN TRUE
    ELSE /\ cmds[1].off = FRAME_HDR_SIZE
         /\ \A k \in 1..Len(cmds)-1 :
              cmds[k+1].off = cmds[k].off + CMD_HDR_SIZE + cmds[k].len
         /\ pos = cmds[Len(cmds)].off + CMD_HDR_SIZE + cmds[Len(cmds)].len

BufferOK == enc.pos <= Cap /\ Packed(enc.cmds, enc.pos)

\* cmd_count never wraps: the buffer is too small to hold 2^16 commands.
CountExact ==
    /\ enc.cmd_count = Len(enc.cmds)
    /\ frame.count = Len(frame.cmds)

\* A frame that is sent has every operation the caller asked for and was not
\* refused: overflow is sticky, so no operation is missing from the middle.
NothingMissing ==
    /\ Len(frame.cmds) = Len(frame.asked)
    /\ \A k \in 1..Len(frame.cmds) : frame.cmds[k].op = frame.asked[k].op

\* decodeFrame accepts every frame the encoder finished and returns exactly its
\* commands, up to its last byte.
DecodesAll ==
    /\ dec.at # "threw"
    /\ dec.at = "done" =>
         /\ dec.cmds = frame.cmds
         /\ dec.off = frame.size

\* The fields the viewer is given of a command.
Fields(op, body) ==
    IF op \in DrawOps \cup {"BLOB_UPLOAD"} THEN Decode(op, body) ELSE NoBody

\* Every field comes out of the viewer's readers as it went into the encoder's
\* writers, byte order, signs and offsets included, in a frame with any others
\* (encoder.c:89-249, decoder.js:36-102): also the fields that are painted
\* otherwise than LVGL means them, such as the radius of an arc.
FieldsArrive ==
    dec.at = "done" =>
      \A k \in 1..Len(dec.cmds) :
        Fields(dec.cmds[k].op, dec.cmds[k].body) = frame.asked[k].fields

\* What the viewer does with a command it was given.
Painted(op, body) ==
    IF op \in DrawOps THEN Paint(op, Decode(op, body))
    ELSE IF op = "BLOB_UPLOAD" THEN Store(Decode(op, body))
    ELSE NoBody

\* A command paints what was asked for, as far as that is said.
Depicts(op, body, what) ==
    LET painted == Painted(op, body)
    IN  \A x \in DOMAIN what : x \in DOMAIN painted /\ painted[x] = what[x]

\* The picture the viewer paints is the one LVGL asked for, task by task, in a
\* frame with any others, but for the Departures of module Payload: rectangles,
\* points, angles, edges and the color with its opacity survive the casts and
\* clamps of the draw unit, the bytes of the encoder and the readers of the
\* decoder (html5_draw_unit.c:363-486), and so do corners, widths, dashes and
\* ends where Departures does not name them. A radius of LV_RADIUS_CIRCLE still
\* makes a circle though its field holds 255. Images keep their pixels.
PaintsAsked ==
    dec.at = "done" =>
      \A k \in 1..Len(dec.cmds) :
        Depicts(dec.cmds[k].op, dec.cmds[k].body, frame.asked[k].paint)
=============================================================================
