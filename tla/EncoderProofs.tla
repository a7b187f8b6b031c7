--------------------------- MODULE EncoderProofs ---------------------------
(***************************************************************************)
(* What the writers of module Encoder do to the lhc_enc_t they are given,  *)
(* for any buffer and whatever commands it holds: nothing, one more        *)
(* command, or the overflow flag.                                          *)
(***************************************************************************)
EXTENDS Encoder, TLAPS

\* An lhc_enc_t whose commands are in C.
EncsOf(C) == [pos : Nat, cmd_count : 0..CountMod-1, overflow : BOOLEAN,
              frame_open : BOOLEAN, cmds : Seq(C)]

\* r is e with n bytes more.
Longer(C, r, e, n) ==
    /\ r \in EncsOf(C)
    /\ r.pos = e.pos + n
    /\ r.cmd_count = e.cmd_count
    /\ r.overflow = e.overflow
    /\ r.frame_open = e.frame_open
    /\ r.cmds = e.cmds

\* r is e with one command more.
Added(C, r, e, op, len, body) ==
    /\ r \in EncsOf(C)
    /\ r.pos = e.pos + CMD_HDR_SIZE + len
    /\ r.cmd_count = (e.cmd_count + 1) % CountMod
    /\ r.overflow = e.overflow
    /\ r.frame_open = e.frame_open
    /\ r.cmds = Append(e.cmds, [op |-> op, off |-> e.pos, len |-> len, body |-> body])

\* r is e after something did not fit.
Full(C, r, e) ==
    /\ r \in EncsOf(C)
    /\ r.pos = e.pos
    /\ r.cmd_count = e.cmd_count
    /\ r.overflow = TRUE
    /\ r.frame_open = e.frame_open
    /\ r.cmds = e.cmds

LEMMA Moved ==
    ASSUME NEW C, NEW e \in EncsOf(C), NEW n \in Nat
    PROVE  Longer(C, [e EXCEPT !.pos = @ + n], e, n)
BY DEF Longer, EncsOf

LEMMA WrMoves ==
    ASSUME NEW C, NEW e \in EncsOf(C), NEW n \in Nat, e.pos + n <= Cap
    PROVE  Longer(C, Wr(e, n), e, n)
<1>1. e.pos \in Nat /\ Cap \in Nat
  BY EncoderAssumption DEF EncsOf
<1>2. Wr(e, n) = [e EXCEPT !.pos = @ + n]
  BY <1>1 DEF Wr
<1> QED BY <1>2, Moved

LEMMA MemcpyMoves ==
    ASSUME NEW C, NEW e \in EncsOf(C), NEW n \in Nat
    PROVE  Longer(C, Memcpy(e, n), e, n)
BY Moved DEF Memcpy

LEMMA Twice ==
    ASSUME NEW a, NEW b, NEW C, NEW e \in EncsOf(C), NEW m \in Nat, NEW n \in Nat,
           Longer(C, a, e, m), Longer(C, b, a, n)
    PROVE  Longer(C, b, e, m + n)
BY DEF Longer, EncsOf

LEMMA Overflows ==
    ASSUME NEW C, NEW e \in EncsOf(C)
    PROVE  Full(C, [e EXCEPT !.overflow = TRUE], e)
BY DEF Full, EncsOf

LEMMA CmdHeaderMoves ==
    ASSUME NEW C, NEW e \in EncsOf(C), e.pos + CMD_HDR_SIZE <= Cap
    PROVE  Longer(C, CmdHeader(e), e, CMD_HDR_SIZE)
<1>0. e.pos \in Nat /\ Cap \in Nat /\ e.pos + 4 <= Cap
  BY EncoderAssumption DEF EncsOf, CMD_HDR_SIZE
<1> DEFINE a == Wr(e, 1)
           b == Wr(a, 1)
           c == Wr(b, 2)
<1>1. Longer(C, a, e, 1)
  BY <1>0, WrMoves
<1>2. a \in EncsOf(C) /\ a.pos = e.pos + 1
  BY <1>1 DEF Longer
<1> HIDE DEF a
<1>3. Longer(C, b, a, 1)
  BY <1>0, <1>2, WrMoves
<1>4. b \in EncsOf(C) /\ b.pos = e.pos + 2
  BY <1>0, <1>2, <1>3 DEF Longer
<1> HIDE DEF b
<1>5. Longer(C, c, b, 2)
  BY <1>0, <1>4, WrMoves
<1> HIDE DEF c
<1>6. Longer(C, b, e, 1 + 1)
  BY <1>1, <1>3, Twice
<1>7. Longer(C, c, e, 2 + 2)
  BY <1>5, <1>6, Twice
<1>8. c = CmdHeader(e)
  BY DEF a, b, c, CmdHeader
<1> QED BY <1>7, <1>8 DEF CMD_HDR_SIZE

\* A header and a body that were written make a command.
LEMMA CountAdds ==
    ASSUME NEW C, NEW e \in EncsOf(C), NEW a, NEW op, NEW len \in Nat, NEW body,
           [op |-> op, off |-> e.pos, len |-> len, body |-> body] \in C,
           Longer(C, a, e, CMD_HDR_SIZE + len)
    PROVE  Added(C, Count(a, op, e.pos, len, body), e, op, len, body)
<1> DEFINE c == [op |-> op, off |-> e.pos, len |-> len, body |-> body]
           n == (a.cmd_count + 1) % CountMod
<1>1. c \in C
  OBVIOUS
<1>2. a \in EncsOf(C) /\ a.cmds \in Seq(C) /\ a.cmd_count \in Nat /\ CountMod \in Nat \ {0}
  BY EncoderAssumption DEF Longer, EncsOf
<1>3. Append(a.cmds, c) \in Seq(C)
  BY <1>1, <1>2
<1>4. n \in 0..CountMod-1
  BY <1>2
<1>5. Count(a, op, e.pos, len, body) = [a EXCEPT !.cmd_count = n, !.cmds = Append(a.cmds, c)]
  BY DEF Count
<1> HIDE DEF c, n
<1>6. /\ [a EXCEPT !.cmd_count = n, !.cmds = Append(a.cmds, c)] \in EncsOf(C)
      /\ [a EXCEPT !.cmd_count = n, !.cmds = Append(a.cmds, c)].pos = a.pos
      /\ [a EXCEPT !.cmd_count = n, !.cmds = Append(a.cmds, c)].cmd_count = n
      /\ [a EXCEPT !.cmd_count = n, !.cmds = Append(a.cmds, c)].overflow = a.overflow
      /\ [a EXCEPT !.cmd_count = n, !.cmds = Append(a.cmds, c)].frame_open = a.frame_open
      /\ [a EXCEPT !.cmd_count = n, !.cmds = Append(a.cmds, c)].cmds = Append(a.cmds, c)
  BY <1>2, <1>3, <1>4 DEF EncsOf
<1>7. /\ a.pos = e.pos + CMD_HDR_SIZE + len
      /\ a.cmd_count = e.cmd_count /\ a.overflow = e.overflow
      /\ a.frame_open = e.frame_open /\ a.cmds = e.cmds
  BY DEF Longer, EncsOf, CMD_HDR_SIZE
<1>8. n = (e.cmd_count + 1) % CountMod
  BY <1>7 DEF n
<1>9. Append(a.cmds, c) = Append(e.cmds, [op |-> op, off |-> e.pos, len |-> len, body |-> body])
  BY <1>7 DEF c
<1> QED BY <1>5, <1>6, <1>7, <1>8, <1>9 DEF Added

\* What lhc_enc_cmd does.
LEMMA EncCmdCases ==
    ASSUME NEW C, NEW e \in EncsOf(C), NEW op, NEW len \in Nat, NEW body,
           [op |-> op, off |-> e.pos, len |-> len, body |-> body] \in C
    PROVE  IF e.overflow THEN EncCmd(e, op, len, body) = e
           ELSE IF ~Fits(e, len) THEN Full(C, EncCmd(e, op, len, body), e)
           ELSE Added(C, EncCmd(e, op, len, body), e, op, len, body)
<1>1. CASE e.overflow
  BY <1>1 DEF EncCmd
<1>2. CASE ~e.overflow /\ ~Fits(e, len)
  BY <1>2, Overflows DEF EncCmd
<1>3. CASE ~e.overflow /\ Fits(e, len)
  <2>1. e.pos \in Nat /\ Cap \in Nat /\ CMD_HDR_SIZE \in Nat
    BY EncoderAssumption DEF EncsOf, CMD_HDR_SIZE
  <2>2. e.pos + CMD_HDR_SIZE <= Cap
    BY <1>3, <2>1 DEF Fits
  <2>3. Longer(C, CmdHeader(e), e, CMD_HDR_SIZE)
    BY <2>2, CmdHeaderMoves
  <2>4. CmdHeader(e) \in EncsOf(C)
    BY <2>3 DEF Longer
  <2>5. Longer(C, Memcpy(CmdHeader(e), len), CmdHeader(e), len)
    BY <2>4, MemcpyMoves
  <2>6. Longer(C, Memcpy(CmdHeader(e), len), e, CMD_HDR_SIZE + len)
    BY <2>1, <2>3, <2>5, Twice
  <2>7. EncCmd(e, op, len, body) = Count(Memcpy(CmdHeader(e), len), op, e.pos, len, body)
    BY <1>3 DEF EncCmd
  <2> QED BY <1>3, <2>6, <2>7, CountAdds
<1> QED BY <1>1, <1>2, <1>3

\* The same of lhc_enc_blob_upload, for data its length field can say.
LEMMA EncBlobUploadCases ==
    ASSUME NEW C, NEW e \in EncsOf(C), NEW data \in Nat, NEW body,
           [op |-> "BLOB_UPLOAD", off |-> e.pos, len |-> BLOB_HDR_SIZE + data,
            body |-> body] \in C
    PROVE  IF e.overflow \/ data + BLOB_HDR_SIZE > MaxPayload
           THEN EncBlobUpload(e, data, body) = e
           ELSE IF ~Fits(e, BLOB_HDR_SIZE + data) THEN Full(C, EncBlobUpload(e, data, body), e)
           ELSE Added(C, EncBlobUpload(e, data, body), e, "BLOB_UPLOAD",
                      BLOB_HDR_SIZE + data, body)
<1> DEFINE refused == e.overflow \/ data + BLOB_HDR_SIZE > MaxPayload
<1>1. CASE refused
  BY <1>1 DEF EncBlobUpload
<1>2. CASE ~refused /\ ~Fits(e, BLOB_HDR_SIZE + data)
  BY <1>2, Overflows DEF EncBlobUpload
<1>3. CASE ~refused /\ Fits(e, BLOB_HDR_SIZE + data)
  <2> DEFINE h == CmdHeader(e)
             h1 == Wr(h, 4)
             h2 == Wr(h1, 2)
             h3 == Wr(h2, 2)
             h4 == Wr(h3, 1)
             m == Memcpy(h4, data)
  <2>1. e.pos \in Nat /\ Cap \in Nat /\ e.pos + 13 + data <= Cap
    BY <1>3, EncoderAssumption DEF EncsOf, Fits, CMD_HDR_SIZE, BLOB_HDR_SIZE
  <2>2. Longer(C, h, e, 4)
    BY <2>1, CmdHeaderMoves DEF CMD_HDR_SIZE
  <2>3. h \in EncsOf(C) /\ h.pos = e.pos + 4
    BY <2>2 DEF Longer
  <2> HIDE DEF h
  <2>4. Longer(C, h1, h, 4)
    BY <2>1, <2>3, WrMoves
  <2>5. h1 \in EncsOf(C) /\ h1.pos = e.pos + 8
    BY <2>1, <2>3, <2>4 DEF Longer
  <2> HIDE DEF h1
  <2>6. Longer(C, h2, h1, 2)
    BY <2>1, <2>5, WrMoves
  <2>7. h2 \in EncsOf(C) /\ h2.pos = e.pos + 10
    BY <2>1, <2>5, <2>6 DEF Longer
  <2> HIDE DEF h2
  <2>8. Longer(C, h3, h2, 2)
    BY <2>1, <2>7, WrMoves
  <2>9. h3 \in EncsOf(C) /\ h3.pos = e.pos + 12
    BY <2>1, <2>7, <2>8 DEF Longer
  <2> HIDE DEF h3
  <2>10. Longer(C, h4, h3, 1)
    BY <2>1, <2>9, WrMoves
  <2>11. h4 \in EncsOf(C)
    BY <2>10 DEF Longer
  <2> HIDE DEF h4
  <2>12. Longer(C, m, h4, data)
    BY <2>11, MemcpyMoves
  <2> HIDE DEF m
  <2>13. Longer(C, h2, e, 10)
    <3>1. Longer(C, h1, e, 4 + 4)
      BY <2>2, <2>4, Twice
    <3>2. Longer(C, h2, e, 8 + 2)
      BY <2>6, <3>1, Twice
    <3> QED BY <3>2
  <2>14. Longer(C, h4, e, 13)
    <3>1. Longer(C, h3, e, 10 + 2)
      BY <2>8, <2>13, Twice
    <3>2. Longer(C, h4, e, 12 + 1)
      BY <2>10, <3>1, Twice
    <3> QED BY <3>2
  <2>15. Longer(C, m, e, 13 + data)
    BY <2>12, <2>14, Twice
  <2>16. 13 + data = CMD_HDR_SIZE + (BLOB_HDR_SIZE + data) /\ BLOB_HDR_SIZE + data \in Nat
    BY DEF CMD_HDR_SIZE, BLOB_HDR_SIZE
  <2>17. Longer(C, m, e, CMD_HDR_SIZE + (BLOB_HDR_SIZE + data))
    BY <2>15, <2>16
  <2>18. Added(C, Count(m, "BLOB_UPLOAD", e.pos, BLOB_HDR_SIZE + data, body), e,
               "BLOB_UPLOAD", BLOB_HDR_SIZE + data, body)
    BY <2>16, <2>17, CountAdds
  <2>19. EncBlobUpload(e, data, body)
           = Count(m, "BLOB_UPLOAD", e.pos, BLOB_HDR_SIZE + data, body)
    BY <1>3 DEF EncBlobUpload, m, h4, h3, h2, h1, h
  <2> QED BY <1>3, <2>18, <2>19
<1> QED BY <1>1, <1>2, <1>3
=============================================================================
