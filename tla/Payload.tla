------------------------------ MODULE Payload ------------------------------
(***************************************************************************)
(* What travels inside a command: a draw task of LVGL becomes the fields   *)
(* of a payload (html5_draw_unit.c), the fields become bytes (encoder.c),  *)
(* the bytes become fields again (web/decoder.js) and are painted          *)
(* (web/viewer.js).                                                        *)
(*                                                                         *)
(* A u32 is the sequence of its four bytes, least significant first. A     *)
(* task has its type, its area and opacity, and what its descriptor says;  *)
(* a line task is one segment of a line.                                   *)
(*                                                                         *)
(* An operator named Faulty... is a plausible mistake in the definition    *)
(* that follows it.                                                        *)
(***************************************************************************)
EXTENDS Integers, Sequences

Least(a, b) == IF a <= b THEN a ELSE b
Greatest(a, b) == IF a >= b THEN a ELSE b

FaultyClamp(lo, hi, v) == lo + ((v - lo) % (hi - lo + 1))

\* The value of lo..hi nearest to v.
Clamp(lo, hi, v) == Greatest(lo, Least(hi, v))

\* The cast (int16_t).
Int16(v) == ((v + 32768) % 65536) - 32768

----------------------------------------------------------------------------
(* The tasks of LVGL: what is read of each descriptor, in C's types *)

Byte  == 0..255
Bytes == Seq(Byte)
Word  == [1..4 -> Byte]

RGB    == [red : Byte, green : Byte, blue : Byte]
Areas  == [x1 : Int, y1 : Int, x2 : Int, y2 : Int]
Points == [x : Int, y : Int]

FillTasks ==
    [type : {"FILL"}, opa : Byte, d_opa : Byte, color : RGB, area : Areas,
     radius : Int, grad : BOOLEAN]

BorderTasks ==
    [type : {"BORDER"}, opa : Byte, d_opa : Byte, color : RGB, area : Areas,
     width : Int, side : Byte, radius : Int]

ShadowTasks ==
    [type : {"BOX_SHADOW"}, opa : Byte, d_opa : Byte, color : RGB, area : Areas,
     radius : Int, width : Int, spread : Int, ofs_x : Int, ofs_y : Int]

LineTasks ==
    [type : {"LINE"}, opa : Byte, d_opa : Byte, color : RGB, p1 : Points,
     p2 : Points, width : Int, dash_width : Int, dash_gap : Int,
     round_start : BOOLEAN, round_end : BOOLEAN]

ArcTasks ==
    [type : {"ARC"}, opa : Byte, d_opa : Byte, color : RGB, center : Points,
     radius : Int, start_angle : Int, end_angle : Int, width : Int,
     rounded : BOOLEAN, img_src : BOOLEAN]

ImageTasks ==
    [type : {"IMAGE"}, opa : Byte, d_opa : Byte, area : Areas,
     image_area : Areas, blob_id : Word]

DrawTasks == FillTasks \cup BorderTasks \cup ShadowTasks \cup LineTasks
               \cup ArcTasks \cup ImageTasks

\* Images whose pixels are all in data; width and height are u16.
U16 == {n \in Nat : n < 65536}

ImageData ==
    {img \in [blob_id : Word, cf : {"ARGB", "XRGB"}, w : U16, h : U16,
              stride : Nat, data : Bytes] :
        img.h > 0 => (img.h - 1) * img.stride + 4 * img.w <= Len(img.data)}

----------------------------------------------------------------------------
(* The draw unit: which tasks it claims *)

FillIsSimple(t) == ~t.grad /\ t.d_opa # 0

BorderIsSimple(t) == t.d_opa # 0 /\ t.width > 0 /\ t.side # 0

BoxShadowIsSimple(t) ==
    t.d_opa # 0 /\ ~(t.width = 0 /\ t.spread = 0 /\ t.ofs_x = 0 /\ t.ofs_y = 0)

\* A single segment; the test of point_cnt is about the whole line.
LineIsSimple(t) == t.d_opa # 0 /\ t.width > 0

ArcIsSimple(t) == t.d_opa # 0 /\ t.width > 0 /\ t.radius # 0 /\ ~t.img_src

\* lhc_evaluate_cb. An image's other conditions are DrawUnit's.
Evaluate(t) ==
    \/ t.type = "FILL" /\ FillIsSimple(t)
    \/ t.type = "BORDER" /\ BorderIsSimple(t)
    \/ t.type = "BOX_SHADOW" /\ BoxShadowIsSimple(t)
    \/ t.type = "LINE" /\ LineIsSimple(t)
    \/ t.type = "ARC" /\ ArcIsSimple(t)
    \/ t.type = "IMAGE" /\ t.d_opa # 0

----------------------------------------------------------------------------
(* The draw unit: the fields of the command *)

\* color_to_argb: (a << 24) | (red << 16) | (green << 8) | blue.
ColorToArgb(c, opa) == <<c.blue, c.green, c.red, opa>>

Argb(t) == ColorToArgb(t.color, (t.d_opa * t.opa) \div 255)

Rect(a) == [x |-> Int16(a.x1), y |-> Int16(a.y1),
            w |-> Int16(a.x2 - a.x1 + 1), h |-> Int16(a.y2 - a.y1 + 1)]

Ends(t) == [x1 |-> Int16(t.p1.x), y1 |-> Int16(t.p1.y),
            x2 |-> Int16(t.p2.x), y2 |-> Int16(t.p2.y)]

\* A line with dashes or round caps needs the longer command.
LineCmd(t) ==
    LET dash_w == Clamp(0, 255, t.dash_width)
        dash_g == Clamp(0, 255, t.dash_gap)
        caps   == (IF t.round_start THEN 1 ELSE 0) + (IF t.round_end THEN 2 ELSE 0)
        plain  == [ends |-> Ends(t), argb |-> Argb(t), width |-> Clamp(1, 255, t.width)]
    IN
    IF dash_w = 0 /\ dash_g = 0 /\ caps = 0
    THEN [op |-> "LINE", f |-> plain]
    ELSE [op |-> "LINE_EX",
          f  |-> [ends |-> plain.ends, argb |-> plain.argb, width |-> plain.width,
                  dash_width |-> dash_w, dash_gap |-> dash_g, cap_bits |-> caps]]

\* lhc_dispatch_cb, for one task. The area of an image task is clipped to what is
\* redrawn, its image_area is not.
Dispatch(t) ==
    CASE t.type = "FILL" ->
           [op |-> "FILL_RECT",
            f  |-> [rect |-> Rect(t.area), argb |-> Argb(t),
                    radius |-> Clamp(0, 255, t.radius)]]
      [] t.type = "BORDER" ->
           [op |-> "BORDER",
            f  |-> [rect |-> Rect(t.area), argb |-> Argb(t),
                    width |-> Clamp(1, 255, t.width),
                    radius |-> Clamp(0, 255, t.radius), side |-> t.side % 256]]
      [] t.type = "BOX_SHADOW" ->
           [op |-> "BOX_SHADOW",
            f  |-> [rect |-> Rect(t.area), argb |-> Argb(t),
                    radius |-> Clamp(0, 255, t.radius), blur |-> Clamp(0, 255, t.width),
                    spread |-> Clamp(-128, 127, t.spread),
                    ofs_x |-> Clamp(-32768, 32767, t.ofs_x),
                    ofs_y |-> Clamp(-32768, 32767, t.ofs_y)]]
      [] t.type = "LINE" -> LineCmd(t)
      [] t.type = "ARC" ->
           [op |-> "ARC",
            f  |-> [cx |-> Int16(t.center.x), cy |-> Int16(t.center.y),
                    r |-> Clamp(1, 65535, t.radius),
                    a0 |-> Int16(t.start_angle), a1 |-> Int16(t.end_angle),
                    argb |-> Argb(t), width |-> Clamp(1, 255, t.width)]]
      [] t.type = "IMAGE" ->
           [op |-> "IMAGE", f |-> [rect |-> Rect(t.image_area), blob_id |-> t.blob_id]]

----------------------------------------------------------------------------
(* The encoder: bytes *)

\* Two bytes of v, signed or not: the shift of a negative number keeps its sign.
Wr16(v) == <<v % 256, (v \div 256) % 256>>

WrRect(r) == Wr16(r.x) \o Wr16(r.y) \o Wr16(r.w) \o Wr16(r.h)

WrEnds(e) == Wr16(e.x1) \o Wr16(e.y1) \o Wr16(e.x2) \o Wr16(e.y2)

\* The payload of each drawing operation. bg_cover, which the viewer
\* never uses, is 0.
Encode(op, f) ==
    CASE op = "FILL_RECT" -> WrRect(f.rect) \o f.argb \o <<f.radius>>
      [] op = "BORDER" ->
           WrRect(f.rect) \o f.argb \o <<f.width, f.radius, f.side>>
      [] op = "LINE" -> WrEnds(f.ends) \o f.argb \o <<f.width>>
      [] op = "LINE_EX" ->
           WrEnds(f.ends) \o f.argb
             \o <<f.width, f.dash_width, f.dash_gap, f.cap_bits>>
      [] op = "ARC" ->
           Wr16(f.cx) \o Wr16(f.cy) \o Wr16(f.r) \o Wr16(f.a0) \o Wr16(f.a1)
             \o f.argb \o <<f.width>>
      [] op = "BOX_SHADOW" ->
           WrRect(f.rect) \o f.argb \o <<f.radius, f.blur, f.spread % 256>>
             \o Wr16(f.ofs_x) \o Wr16(f.ofs_y) \o <<0>>
      [] op = "IMAGE" -> WrRect(f.rect) \o f.blob_id

\* The nine bytes before the pixels of an upload; format 1 is ARGB8888.
BlobHeader(id, w, h) == id \o Wr16(w) \o Wr16(h) \o <<1>>

\* blit_to_rgba: rows of blue, green, red, alpha, stride bytes apart, become
\* packed rows of red, green, blue, alpha; X8 stands for opaque.
Blit(img) ==
    [k \in 1..4 * img.w * img.h |->
       LET c   == (k - 1) % 4
           pix == (k - 1) \div 4
           o   == (pix \div img.w) * img.stride + 4 * (pix % img.w)
       IN  IF c = 3 THEN (IF img.cf = "ARGB" THEN img.data[o + 4] ELSE 255)
           ELSE img.data[o + 3 - c]]

\* blob_ensure_uploaded's call of lhc_enc_blob_upload.
BlobBody(img) == BlobHeader(img.blob_id, img.w, img.h) \o Blit(img)

----------------------------------------------------------------------------
(* The decoder: DataView's readers at byte o of p, then one per operation *)

GetUint8(p, o)  == p[o + 1]
GetInt8(p, o)   == IF p[o + 1] < 128 THEN p[o + 1] ELSE p[o + 1] - 256
GetUint16(p, o) == p[o + 1] + 256 * p[o + 2]
GetInt16(p, o)  == Int16(GetUint16(p, o))
GetUint32(p, o) == <<p[o + 1], p[o + 2], p[o + 3], p[o + 4]>>

RectAt(p) == [x |-> GetInt16(p, 0), y |-> GetInt16(p, 2),
              w |-> GetInt16(p, 4), h |-> GetInt16(p, 6)]

FaultyEndsAtUnsigned(p) == [x1 |-> GetUint16(p, 0), y1 |-> GetUint16(p, 2),
                            x2 |-> GetUint16(p, 4), y2 |-> GetUint16(p, 6)]

EndsAt(p) == [x1 |-> GetInt16(p, 0), y1 |-> GetInt16(p, 2),
              x2 |-> GetInt16(p, 4), y2 |-> GetInt16(p, 6)]

Decode(op, p) ==
    CASE op = "FILL_RECT" ->
           [rect |-> RectAt(p), argb |-> GetUint32(p, 8), radius |-> GetUint8(p, 12)]
      [] op = "BORDER" ->
           [rect |-> RectAt(p), argb |-> GetUint32(p, 8), width |-> GetUint8(p, 12),
            radius |-> GetUint8(p, 13), side |-> GetUint8(p, 14)]
      [] op = "LINE" ->
           [ends |-> EndsAt(p), argb |-> GetUint32(p, 8), width |-> GetUint8(p, 12)]
      [] op = "LINE_EX" ->
           [ends |-> EndsAt(p), argb |-> GetUint32(p, 8), width |-> GetUint8(p, 12),
            dash_width |-> GetUint8(p, 13), dash_gap |-> GetUint8(p, 14),
            cap_bits |-> GetUint8(p, 15)]
      [] op = "ARC" ->
           [cx |-> GetInt16(p, 0), cy |-> GetInt16(p, 2), r |-> GetUint16(p, 4),
            a0 |-> GetInt16(p, 6), a1 |-> GetInt16(p, 8),
            argb |-> GetUint32(p, 10), width |-> GetUint8(p, 14)]
      [] op = "BOX_SHADOW" ->
           [rect |-> RectAt(p), argb |-> GetUint32(p, 8), radius |-> GetUint8(p, 12),
            blur |-> GetUint8(p, 13), spread |-> GetInt8(p, 14),
            ofs_x |-> GetInt16(p, 15), ofs_y |-> GetInt16(p, 17)]
      [] op = "IMAGE" -> [rect |-> RectAt(p), blob_id |-> GetUint32(p, 8)]
      [] op = "BLOB_UPLOAD" ->
           [id |-> GetUint32(p, 0), w |-> GetUint16(p, 4), h |-> GetUint16(p, 6),
            fmt |-> GetUint8(p, 8), bytes |-> SubSeq(p, 10, Len(p))]

----------------------------------------------------------------------------
(* The viewer: what is painted *)

\* argbToCss
Css(argb) == [a |-> argb[4], r |-> argb[3], g |-> argb[2], b |-> argb[1]]

\* The radius fillRoundedRect gives the corners.
Corner(r, w, h) == Greatest(0, Least(r, Least(w \div 2, h \div 2)))

\* strokeBorder: the edges it strokes. A border on all sides that is as wide as
\* its rectangle is not painted.
Edges(f, lw) ==
    IF f.side \in {0, 15}
    THEN IF f.rect.w > lw /\ f.rect.h > lw THEN {"bottom", "top", "left", "right"} ELSE {}
    ELSE {e \in {"bottom", "top", "left", "right"} :
            \/ e = "bottom" /\ f.side % 2 = 1
            \/ e = "top"    /\ (f.side \div 2) % 2 = 1
            \/ e = "left"   /\ (f.side \div 4) % 2 = 1
            \/ e = "right"  /\ (f.side \div 8) % 2 = 1}

\* strokeBorder, for a width lw, counted in half pixels: the radius of the path
\* that is stroked; only a border on all sides has one.
Bend(f, lw) ==
    IF f.side \notin {0, 15} THEN 0
    ELSE Greatest(0, Least(2 * f.radius - lw,
                           2 * Least((f.rect.w - lw) \div 2, (f.rect.h - lw) \div 2)))

\* Where a shadow is drawn that has shrunk away.
Nothing == [x |-> 0, y |-> 0, w |-> 0, h |-> 0]

\* renderFrame's case for each operation: the extent of what it puts on the
\* canvas. A line's cap is that of both its ends. An arc is a stroke of butt
\* ends whose middle has the radius r; outer is the radius it reaches, in half
\* pixels. A shadow is a rectangle that was moved and grown. drawBlob draws an
\* image at full opacity.
Paint(op, f) ==
    CASE op = "FILL_RECT" ->
           [rect |-> f.rect, css |-> Css(f.argb),
            corner |-> Corner(f.radius, f.rect.w, f.rect.h)]
      [] op = "BORDER" ->
           [rect |-> f.rect, css |-> Css(f.argb), width |-> Greatest(1, f.width),
            edges |-> Edges(f, Greatest(1, f.width)),
            bend |-> Bend(f, Greatest(1, f.width))]
      [] op \in {"LINE", "LINE_EX"} ->
           [ends |-> f.ends, css |-> Css(f.argb), width |-> Greatest(1, f.width),
            dash |-> IF op = "LINE_EX" /\ f.dash_width > 0 /\ f.dash_gap > 0
                     THEN <<f.dash_width, f.dash_gap>> ELSE <<>>,
            round_start |-> op = "LINE_EX" /\ f.cap_bits % 4 # 0,
            round_end |-> op = "LINE_EX" /\ f.cap_bits % 4 # 0]
      [] op = "ARC" ->
           [cx |-> f.cx, cy |-> f.cy, a0 |-> f.a0, a1 |-> f.a1, css |-> Css(f.argb),
            width |-> Greatest(1, f.width),
            outer |-> 2 * Greatest(1, f.r) + Greatest(1, f.width), rounded |-> FALSE]
      [] op = "BOX_SHADOW" ->
           LET w == f.rect.w + 2 * f.spread
               h == f.rect.h + 2 * f.spread
           IN  IF w <= 0 \/ h <= 0 THEN [rect |-> Nothing]
               ELSE [rect |-> [x |-> f.rect.x - f.spread + f.ofs_x,
                               y |-> f.rect.y - f.spread + f.ofs_y, w |-> w, h |-> h],
                     css |-> Css(f.argb), blur |-> f.blur,
                     corner |-> Corner(f.radius + f.spread, w, h)]
      [] op = "IMAGE" -> [rect |-> f.rect, blob |-> f.blob_id, opa |-> 255]

\* What storeBlob keeps of an upload: the pixels of an ImageData, by row and
\* column, or nothing.
Store(f) ==
    IF f.fmt = 1 /\ Len(f.bytes) = f.w * f.h * 4
    THEN [blob |-> f.id,
          pixels |-> [p \in (1..f.h) \X (1..f.w) |->
                        LET o == 4 * ((p[1] - 1) * f.w + p[2] - 1)
                        IN  [r |-> f.bytes[o + 1], g |-> f.bytes[o + 2],
                             b |-> f.bytes[o + 3], a |-> f.bytes[o + 4]]]]
    ELSE [blob |-> <<>>]

----------------------------------------------------------------------------
(* The reference: what LVGL asks to be painted, in numbers without widths,  *)
(* as LVGL's own renderer and docs/protocol.md understand the descriptors.  *)

Area(a) == [x |-> a.x1, y |-> a.y1, w |-> a.x2 - a.x1 + 1, h |-> a.y2 - a.y1 + 1]

ShortSide(r) == Least(r.w, r.h)

\* The color of a descriptor, at its opacity and that of its task.
Opacity(t) == (t.d_opa * t.opa) \div 255

Color(t) == [a |-> Opacity(t), r |-> t.color.red, g |-> t.color.green,
             b |-> t.color.blue]

\* LVGL rounds at most half the short side.
Rounding(radius, r) == Greatest(0, Least(radius, ShortSide(r) \div 2))

\* A border's edge runs between the corner of its rectangle and one as much
\* tighter as the border is wide: twice the radius half way.
Bent(t) == Greatest(0, 2 * Rounding(t.radius, Area(t.area)) - t.width)

\* A shadow's rectangle is moved and grown, its radius is not.
Grown(t) == [x1 |-> t.area.x1 - t.spread + t.ofs_x, x2 |-> t.area.x2 + t.spread + t.ofs_x,
             y1 |-> t.area.y1 - t.spread + t.ofs_y, y2 |-> t.area.y2 + t.spread + t.ofs_y]

SideBit == [bottom |-> 1, top |-> 2, left |-> 4, right |-> 8]

\* An arc lies inside its radius (protocol.md:151), given here in half pixels.
Asked(t) ==
    CASE t.type = "FILL" ->
           [rect |-> Area(t.area), css |-> Color(t),
            corner |-> Rounding(t.radius, Area(t.area))]
      [] t.type = "BORDER" ->
           [rect |-> Area(t.area), css |-> Color(t), width |-> t.width,
            edges |-> {e \in DOMAIN SideBit : (t.side \div SideBit[e]) % 2 = 1},
            bend |-> Bent(t)]
      [] t.type = "BOX_SHADOW" ->
           IF Grown(t).x1 > Grown(t).x2 \/ Grown(t).y1 > Grown(t).y2
           THEN [rect |-> Nothing]
           ELSE [rect |-> Area(Grown(t)), css |-> Color(t), blur |-> t.width,
                 corner |-> Rounding(t.radius, Area(Grown(t)))]
      [] t.type = "LINE" ->
           [ends |-> [x1 |-> t.p1.x, y1 |-> t.p1.y, x2 |-> t.p2.x, y2 |-> t.p2.y],
            css |-> Color(t), width |-> t.width,
            dash |-> IF t.dash_width > 0 /\ t.dash_gap > 0
                     THEN <<t.dash_width, t.dash_gap>> ELSE <<>>,
            round_start |-> t.round_start, round_end |-> t.round_end]
      [] t.type = "ARC" ->
           [cx |-> t.center.x, cy |-> t.center.y, a0 |-> t.start_angle,
            a1 |-> t.end_angle, css |-> Color(t), width |-> Least(t.width, t.radius),
            outer |-> 2 * t.radius, rounded |-> t.rounded]
      [] t.type = "IMAGE" ->
           [rect |-> Area(t.image_area), blob |-> t.blob_id, opa |-> Opacity(t)]

\* The tasks whose place on the canvas the command can hold. Coordinates have 16
\* bits, a spread has 8; a border on all sides is one stroke, for which the
\* rectangle must have room.
Fits16(v) == -32768 <= v /\ v <= 32767

InReach(r) == Fits16(r.x) /\ Fits16(r.y) /\ Fits16(r.w) /\ Fits16(r.h)

PointInReach(p) == Fits16(p.x) /\ Fits16(p.y)

Paintable(t) ==
    CASE t.type = "FILL" -> InReach(Area(t.area))
      [] t.type = "BORDER" ->
           /\ InReach(Area(t.area))
           /\ t.side = 15 => Least(255, t.width) < ShortSide(Area(t.area))
      [] t.type = "BOX_SHADOW" ->
           /\ InReach(Area(t.area))
           /\ -128 <= t.spread /\ t.spread <= 127
           /\ Fits16(t.ofs_x) /\ Fits16(t.ofs_y)
      [] t.type = "LINE" -> PointInReach(t.p1) /\ PointInReach(t.p2)
      [] t.type = "ARC" ->
           PointInReach(t.center) /\ Fits16(t.start_angle) /\ Fits16(t.end_angle)
      [] t.type = "IMAGE" -> InReach(Area(t.image_area))

\* A radius has 8 bits, which are all of it or more than half the short side.
Round(t) == t.radius <= 255 \/ ShortSide(Area(t.area)) <= 511

\* The stroke of a border on all sides bends as it should, but for half a pixel
\* when the rectangle leaves an odd border no more room; straight edges do when
\* nothing was to be bent.
BendsAsAsked(t) ==
    IF t.side = 15
    THEN Round(t) /\ (t.width % 2 = 0 \/ 2 * t.radius < ShortSide(Area(t.area)))
    ELSE Bent(t) = 0

\* What the viewer is known not to paint as asked: each name a field of Asked(t)
\* of which nothing is promised. Numbers beyond a byte are cut off; an arc reaches
\* half its width beyond its radius and has no round ends (viewer.js:219-223), a
\* line has both round ends or none (viewer.js:202-204), edges that are not all
\* there are straight (viewer.js:142-144), a shadow's radius grows with it
\* (viewer.js:236), and an image's opacity is not sent.
Departures(t) ==
    CASE t.type = "FILL" -> IF Round(t) THEN {} ELSE {"corner"}
      [] t.type = "BORDER" ->
           (IF t.width <= 255 THEN {} ELSE {"width", "bend"})
             \cup (IF BendsAsAsked(t) THEN {} ELSE {"bend"})
      [] t.type = "BOX_SHADOW" ->
           (IF t.spread = 0 /\ Round(t) THEN {} ELSE {"corner"})
             \cup (IF 0 <= t.width /\ t.width <= 255 THEN {} ELSE {"blur"})
      [] t.type = "LINE" ->
           (IF t.width <= 255 THEN {} ELSE {"width"})
             \cup (IF t.dash_width <= 255 /\ t.dash_gap <= 255 THEN {} ELSE {"dash"})
             \cup (IF t.round_start = t.round_end THEN {}
                   ELSE {"round_start", "round_end"})
      [] t.type = "ARC" ->
           {"outer"}
             \cup (IF t.width <= Least(255, t.radius) THEN {} ELSE {"width"})
             \cup (IF t.rounded THEN {"rounded"} ELSE {})
      [] t.type = "IMAGE" -> IF Opacity(t) = 255 THEN {} ELSE {"opa"}

\* What must be painted of a task; of one that is not Paintable nothing is said.
Unsaid == <<>>

Expected(t) ==
    IF Paintable(t)
    THEN [x \in DOMAIN Asked(t) \ Departures(t) |-> Asked(t)[x]]
    ELSE Unsaid

\* The pixels of an image in LVGL's memory.
Kept(img) ==
    [blob |-> img.blob_id,
     pixels |-> [p \in (1..img.h) \X (1..img.w) |->
                   LET o == (p[1] - 1) * img.stride + 4 * (p[2] - 1)
                   IN  [r |-> img.data[o + 3], g |-> img.data[o + 2], b |-> img.data[o + 1],
                        a |-> IF img.cf = "XRGB" THEN 255 ELSE img.data[o + 4]]]]
=============================================================================
