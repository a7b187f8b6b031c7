------------------------------ MODULE Encoder ------------------------------
(***************************************************************************)
(* src/src/proto/encoder.c: the writer of one frame, as operators on the   *)
(* lhc_enc_t it is given. A command is its opcode, the length of its       *)
(* payload and its body, the payload as far as its users care;             *)
(* where it stands in the buffer is its offset. cmds is the buffer's       *)
(* contents in that form.                                                  *)
(*                                                                         *)
(* An operator named Faulty... is a plausible mistake in the definition    *)
(* that follows it.                                                        *)
(***************************************************************************)
EXTENDS Integers, Sequences

CONSTANTS
    Cap,         \* the size of the frame buffer, LHC_FRAME_BUF_SIZE
    CountMod,    \* 2^16: cmd_count is a u16
    MaxPayload   \* 0xFFFF: payload_len is a u16

ASSUME EncoderAssumption ==
    /\ Cap \in Nat
    /\ CountMod \in Nat \ {0}
    /\ MaxPayload \in Nat

FRAME_HDR_SIZE == 4
CMD_HDR_SIZE   == 4
BLOB_HDR_SIZE  == 9

\* The lengths of the payloads that have one length.
PayloadLen == [BEGIN_FRAME |-> 4,  END_FRAME |-> 0,   FILL_RECT |-> 13,
               BORDER     |-> 15,  LINE      |-> 13,  BOX_SHADOW |-> 20,
               LINE_EX    |-> 16,  ARC       |-> 15,  IMAGE      |-> 12,
               BLOB_EVICT |-> 4]

NoBody == <<>>

----------------------------------------------------------------------------
(* Writing bytes *)

\* wr_u8, wr_u16 and wr_u32 check for themselves.
Wr(e, n) == IF e.pos + n > Cap THEN [e EXCEPT !.overflow = TRUE]
                               ELSE [e EXCEPT !.pos = @ + n]

\* memcpy does not.
Memcpy(e, n) == [e EXCEPT !.pos = @ + n]

CmdHeader(e) == Wr(Wr(Wr(e, 1), 1), 2)

\* A command whose header starts at byte off is complete.
Count(e, op, off, len, body) ==
    [e EXCEPT !.cmd_count = (@ + 1) % CountMod,
              !.cmds = Append(@, [op |-> op, off |-> off, len |-> len,
                                  body |-> body])]

----------------------------------------------------------------------------
(* The API *)

\* lhc_enc_init
EncInit == [pos |-> 0, cmd_count |-> 0, overflow |-> FALSE,
            frame_open |-> FALSE, cmds |-> <<>>]

FaultyFits(e, len) == e.pos + len <= Cap

\* The check both writers of commands make first.
Fits(e, len) == e.pos + CMD_HDR_SIZE + len <= Cap

FaultyEncCmdDrops(e, op, len, body) ==
    IF e.overflow \/ ~Fits(e, len) THEN e
    ELSE Count(Memcpy(CmdHeader(e), len), op, e.pos, len, body)

\* lhc_enc_cmd
EncCmd(e, op, len, body) ==
    IF e.overflow THEN e
    ELSE IF ~Fits(e, len) THEN [e EXCEPT !.overflow = TRUE]
    ELSE Count(Memcpy(CmdHeader(e), len), op, e.pos, len, body)

\* The drawing operations and lhc_enc_end_frame's command: one fixed-size
\* payload each.
EncOp(e, op, body) == EncCmd(e, op, PayloadLen[op], body)

\* lhc_enc_blob_evict
EncBlobEvict(e, body) == EncOp(e, "BLOB_EVICT", body)

\* lhc_enc_begin_frame; a buffer too small for the frame header stays closed.
EncBeginFrame(e) ==
    IF Cap < FRAME_HDR_SIZE THEN [e EXCEPT !.overflow = TRUE]
    ELSE EncOp([e EXCEPT !.pos = FRAME_HDR_SIZE,
                         !.cmd_count = 0,
                         !.cmds = <<>>,
                         !.frame_open = TRUE], "BEGIN_FRAME", NoBody)

EncEndFrame(e) == [EncOp(e, "END_FRAME", NoBody) EXCEPT !.frame_open = FALSE]

\* lhc_enc_blob_upload accepts data bytes of pixels, or says it does not.
UploadFits(e, data) ==
    /\ ~e.overflow
    /\ data + BLOB_HDR_SIZE <= MaxPayload
    /\ Fits(e, BLOB_HDR_SIZE + data)

FaultyEncBlobUploadUncounted(e, data, body) ==
    IF e.overflow \/ data + BLOB_HDR_SIZE > MaxPayload THEN e
    ELSE IF ~Fits(e, BLOB_HDR_SIZE + data) THEN [e EXCEPT !.overflow = TRUE]
    ELSE [Count(Memcpy(CmdHeader(e), BLOB_HDR_SIZE + data), "BLOB_UPLOAD",
                e.pos, BLOB_HDR_SIZE + data, body)
            EXCEPT !.cmd_count = e.cmd_count]

\* Data too long for payload_len is refused without a trace; data too long for
\* the buffer also spoils the frame.
EncBlobUpload(e, data, body) ==
    IF e.overflow \/ data + BLOB_HDR_SIZE > MaxPayload THEN e
    ELSE IF ~Fits(e, BLOB_HDR_SIZE + data) THEN [e EXCEPT !.overflow = TRUE]
    ELSE LET h == Wr(Wr(Wr(Wr(CmdHeader(e), 4), 2), 2), 1)
         IN  Count(Memcpy(h, data), "BLOB_UPLOAD", e.pos,
                   BLOB_HDR_SIZE + data, body)

FaultyEncFinalizeMinusOne(e) == IF e.overflow THEN -1 ELSE e.pos

\* lhc_enc_finalize: the number of bytes, 0 when anything was refused for space.
EncFinalize(e) == IF e.overflow THEN 0 ELSE e.pos
=============================================================================
