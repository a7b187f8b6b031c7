-------------------------- MODULE WireFrameProofs --------------------------
(* A frame from the first byte written to the last command decoded, for    *)
(* every buffer up to CMD_HDR_SIZE * CountMod bytes and any tasks, images  *)
(* and number of commands: MaxCmds bounds the runs, and no proof uses it.  *)
EXTENDS WireFrame, EncoderProofs, SequenceTheorems

----------------------------------------------------------------------------
(* Payloads: bytes that were written are read again *)

\* The bytes of s stand in p after the first n.
Holds(p, n, s) == \A i \in 1..Len(s) : p[n + i] = s[i]

LEMMA ByteMod ==
    ASSUME NEW v \in Int
    PROVE  v % 256 \in Byte /\ (0 <= v /\ v <= 255 => v % 256 = v /\ v \in Byte)
BY DEF Byte

LEMMA ByteInt ==
    ASSUME NEW v \in Byte
    PROVE  v \in Int /\ 0 <= v /\ v <= 255
BY DEF Byte

LEMMA U16Back ==
    ASSUME NEW v \in Int, 0 <= v, v < 65536
    PROVE  (v % 256) + 256 * ((v \div 256) % 256) = v
<1> DEFINE m == v % 256
           q == v \div 256
<1>1. m \in Int /\ 0 <= m /\ m < 256 /\ q \in Int /\ v = 256 * q + m
  OBVIOUS
<1> HIDE DEF m, q
<1>2. 0 <= q /\ q < 256
  BY <1>1
<1>3. q % 256 = q
  BY <1>1, <1>2
<1> QED BY <1>1, <1>3 DEF m, q

LEMMA Int16Back ==
    ASSUME NEW v \in Int, Fits16(v)
    PROVE  Int16((v % 256) + 256 * ((v \div 256) % 256)) = v
<1>1. -32768 <= v /\ v <= 32767
  BY DEF Fits16
<1>2. CASE 0 <= v
  <2>1. (v + 32768) % 65536 = v + 32768
    BY <1>1, <1>2
  <2>2. (v % 256) + 256 * ((v \div 256) % 256) = v
    BY <1>1, <1>2, U16Back
  <2> QED BY <2>1, <2>2 DEF Int16
<1>3. CASE v < 0
  <2> DEFINE u == v + 65536
  <2>1. u % 256 = v % 256 /\ u \div 256 = v \div 256 + 256
    OBVIOUS
  <2>2. (v \div 256 + 256) % 256 = (v \div 256) % 256
    <3>1. v \div 256 \in Int
      OBVIOUS
    <3> QED BY <3>1
  <2>3. u \in Int /\ 0 <= u /\ u < 65536
    BY <1>1, <1>3
  <2>4. (u % 256) + 256 * ((u \div 256) % 256) = u
    BY <2>3, U16Back
  <2>5. (u + 32768) % 65536 = v + 32768
    BY <1>1, <1>3
  <2> HIDE DEF u
  <2>6. (v % 256) + 256 * ((v \div 256) % 256) = u
    BY <2>1, <2>2, <2>4
  <2> QED BY <2>5, <2>6 DEF Int16
<1> QED BY <1>2, <1>3

LEMMA Int8Back ==
    ASSUME NEW v \in Int, -128 <= v, v <= 127, NEW p, NEW o, GetUint8(p, o) = v % 256
    PROVE  GetInt8(p, o) = v
<1>1. GetInt8(p, o) = IF v % 256 < 128 THEN v % 256 ELSE (v % 256) - 256
  BY DEF GetUint8, GetInt8
<1>2. (IF v % 256 < 128 THEN v % 256 ELSE (v % 256) - 256) = v
  OBVIOUS
<1> QED BY <1>1, <1>2

LEMMA Int16Fits ==
    ASSUME NEW v \in Int
    PROVE  Int16(v) \in Int /\ Fits16(Int16(v)) /\ (Fits16(v) => Int16(v) = v)
BY DEF Int16, Fits16

LEMMA CatBytes ==
    ASSUME NEW s \in Bytes, NEW u \in Bytes
    PROVE  s \o u \in Bytes /\ Len(s \o u) = Len(s) + Len(u)
BY DEF Bytes

\* What holds of a concatenation holds of its parts.
LEMMA HoldsCat ==
    ASSUME NEW p, NEW n \in Nat, NEW m \in Nat, NEW s \in Bytes, NEW u \in Bytes,
           Len(s) = m, Holds(p, n, s \o u)
    PROVE  Holds(p, n, s) /\ Holds(p, n + m, u)
<1>1. Len(s) \in Nat /\ Len(u) \in Nat /\ Len(s \o u) = Len(s) + Len(u)
  BY DEF Bytes
<1>2. ASSUME NEW i \in 1..Len(s) PROVE p[n + i] = s[i]
  <2>1. i \in 1..Len(s \o u) /\ (s \o u)[i] = s[i]
    BY <1>1 DEF Bytes
  <2> QED BY <2>1 DEF Holds
<1>3. ASSUME NEW i \in 1..Len(u) PROVE p[n + m + i] = u[i]
  <2>1. m + i \in 1..Len(s \o u) /\ (s \o u)[m + i] = u[i]
    BY <1>1 DEF Bytes
  <2>2. n + m + i = n + (m + i)
    BY <1>1
  <2>3. p[n + (m + i)] = (s \o u)[m + i]
    BY <2>1 DEF Holds
  <2> QED BY <2>1, <2>2, <2>3
<1> QED BY <1>2, <1>3 DEF Holds

LEMMA Holds1 ==
    ASSUME NEW p, NEW n \in Nat, NEW a, Holds(p, n, <<a>>)
    PROVE  p[n + 1] = a
<1>1. 1 \in 1..Len(<<a>>) /\ <<a>>[1] = a
  OBVIOUS
<1> QED BY <1>1 DEF Holds

LEMMA Holds2 ==
    ASSUME NEW p, NEW n \in Nat, NEW a, NEW b, Holds(p, n, <<a, b>>)
    PROVE  p[n + 1] = a /\ p[n + 2] = b
<1>1. /\ 1 \in 1..Len(<<a, b>>) /\ <<a, b>>[1] = a
      /\ 2 \in 1..Len(<<a, b>>) /\ <<a, b>>[2] = b
  OBVIOUS
<1> QED BY <1>1 DEF Holds

LEMMA Holds3 ==
    ASSUME NEW p, NEW n \in Nat, NEW a, NEW b, NEW c, Holds(p, n, <<a, b, c>>)
    PROVE  p[n + 1] = a /\ p[n + 2] = b /\ p[n + 3] = c
<1>1. /\ 1 \in 1..Len(<<a, b, c>>) /\ <<a, b, c>>[1] = a
      /\ 2 \in 1..Len(<<a, b, c>>) /\ <<a, b, c>>[2] = b
      /\ 3 \in 1..Len(<<a, b, c>>) /\ <<a, b, c>>[3] = c
  OBVIOUS
<1> QED BY <1>1 DEF Holds

LEMMA Holds4 ==
    ASSUME NEW p, NEW n \in Nat, NEW a, NEW b, NEW c, NEW d,
           Holds(p, n, <<a, b, c, d>>)
    PROVE  p[n + 1] = a /\ p[n + 2] = b /\ p[n + 3] = c /\ p[n + 4] = d
<1>1. /\ 1 \in 1..Len(<<a, b, c, d>>) /\ <<a, b, c, d>>[1] = a
      /\ 2 \in 1..Len(<<a, b, c, d>>) /\ <<a, b, c, d>>[2] = b
      /\ 3 \in 1..Len(<<a, b, c, d>>) /\ <<a, b, c, d>>[3] = c
      /\ 4 \in 1..Len(<<a, b, c, d>>) /\ <<a, b, c, d>>[4] = d
  OBVIOUS
<1> QED BY <1>1 DEF Holds

LEMMA HoldsAll ==
    ASSUME NEW p \in Bytes
    PROVE  Holds(p, 0, p)
BY DEF Holds, Bytes

LEMMA Wr16Bytes ==
    ASSUME NEW v \in Int
    PROVE  Wr16(v) \in Bytes /\ Len(Wr16(v)) = 2
<1>1. v % 256 \in Byte /\ v \div 256 \in Int
  BY ByteMod
<1>2. (v \div 256) % 256 \in Byte
  BY <1>1, ByteMod
<1> QED BY <1>1, <1>2 DEF Wr16, Bytes

LEMMA Wr16Read ==
    ASSUME NEW p, NEW n \in Nat, NEW v \in Int, Holds(p, n, Wr16(v))
    PROVE  /\ Fits16(v) => GetInt16(p, n) = v
           /\ 0 <= v /\ v < 65536 => GetUint16(p, n) = v
<1>1. p[n + 1] = v % 256 /\ p[n + 2] = (v \div 256) % 256
  BY Holds2 DEF Wr16
<1>2. Fits16(v) => GetInt16(p, n) = v
  BY <1>1, Int16Back DEF GetInt16, GetUint16
<1>3. 0 <= v /\ v < 65536 => GetUint16(p, n) = v
  BY <1>1, U16Back DEF GetUint16
<1> QED BY <1>2, <1>3

LEMMA WordBytes ==
    ASSUME NEW a \in Word
    PROVE  a \in Bytes /\ Len(a) = 4 /\ a = <<a[1], a[2], a[3], a[4]>>
<1>1. a \in Seq(Byte)
  BY SeqDef DEF Word
<1>2. Len(a) = 4
  <2>1. Len(a) \in Nat /\ DOMAIN a = 1..Len(a) /\ DOMAIN a = 1..4
    BY <1>1, LenProperties DEF Word
  <2>2. \A i \in Int : i \in 1..Len(a) <=> i \in 1..4
    BY <2>1
  <2>3. 4 <= Len(a)
    BY <2>1, <2>2
  <2>4. ~(5 <= Len(a))
    <3>1. 5 \notin 1..4
      OBVIOUS
    <3> QED BY <2>1, <2>2, <3>1
  <2> QED BY <2>1, <2>3, <2>4
<1> QED BY <1>1, <1>2 DEF Bytes

LEMMA WordRead ==
    ASSUME NEW p, NEW n \in Nat, NEW a \in Word, Holds(p, n, a)
    PROVE  GetUint32(p, n) = a
<1>1. a = <<a[1], a[2], a[3], a[4]>>
  BY WordBytes
<1>2. Holds(p, n, <<a[1], a[2], a[3], a[4]>>)
  BY <1>1
<1>3. p[n + 1] = a[1] /\ p[n + 2] = a[2] /\ p[n + 3] = a[3] /\ p[n + 4] = a[4]
  BY <1>2, Holds4
<1> QED BY <1>1, <1>3 DEF GetUint32

I16 == {v \in Int : Fits16(v)}


\* A block of n bytes.
Block(s, n) == s \in Bytes /\ Len(s) = n

LEMMA CatBlock ==
    ASSUME NEW s, NEW u, NEW m \in Nat, NEW n \in Nat, Block(s, m), Block(u, n)
    PROVE  /\ Block(s \o u, m + n)
           /\ \A p : Holds(p, 0, s \o u) => Holds(p, 0, s) /\ Holds(p, m, u)
<1>1. Block(s \o u, m + n)
  BY CatBytes DEF Block
<1>2. ASSUME NEW p, Holds(p, 0, s \o u)
      PROVE  Holds(p, 0, s) /\ Holds(p, m, u)
  <2>1. Holds(p, 0, s) /\ Holds(p, 0 + m, u)
    BY <1>2, HoldsCat DEF Block
  <2> QED BY <2>1
<1> QED BY <1>1, <1>2

LEMMA Wr16Block ==
    ASSUME NEW v \in I16
    PROVE  /\ Block(Wr16(v), 2)
           /\ \A p, n : n \in Nat /\ Holds(p, n, Wr16(v)) => GetInt16(p, n) = v
BY Wr16Bytes, Wr16Read DEF Block, I16

\* Four pairs of bytes.
LEMMA FourPairs ==
    ASSUME NEW a, NEW b, NEW c, NEW d,
           Block(a, 2), Block(b, 2), Block(c, 2), Block(d, 2)
    PROVE  LET s == a \o b \o c \o d
           IN  /\ Block(s, 8)
               /\ \A p : Holds(p, 0, s) =>
                    /\ Holds(p, 0, a) /\ Holds(p, 2, b)
                    /\ Holds(p, 4, c) /\ Holds(p, 6, d)
<1> DEFINE ab  == a \o b
           abc == ab \o c
           s   == abc \o d
<1>1. /\ Block(ab, 4)
      /\ \A p : Holds(p, 0, ab) => Holds(p, 0, a) /\ Holds(p, 2, b)
  <2>1. Block(ab, 2 + 2)
    BY CatBlock
  <2> QED BY <2>1, CatBlock
<1>2. /\ Block(abc, 6)
      /\ \A p : Holds(p, 0, abc) => Holds(p, 0, ab) /\ Holds(p, 4, c)
  <2> HIDE DEF ab
  <2>1. Block(abc, 4 + 2)
    BY <1>1, CatBlock
  <2> QED BY <1>1, <2>1, CatBlock
<1>3. /\ Block(s, 8)
      /\ \A p : Holds(p, 0, s) => Holds(p, 0, abc) /\ Holds(p, 6, d)
  <2> HIDE DEF abc
  <2>1. Block(s, 6 + 2)
    BY <1>2, CatBlock
  <2> QED BY <1>2, <2>1, CatBlock
<1> HIDE DEF s, abc, ab
<1>4. /\ Block(s, 8)
      /\ \A p : Holds(p, 0, s) =>
           /\ Holds(p, 0, a) /\ Holds(p, 2, b)
           /\ Holds(p, 4, c) /\ Holds(p, 6, d)
  BY <1>1, <1>2, <1>3
<1> QED BY <1>4 DEF s, abc, ab

\* Four numbers of 16 bits.
LEMMA FourNumbers ==
    ASSUME NEW a \in I16, NEW b \in I16, NEW c \in I16, NEW d \in I16
    PROVE  LET s == Wr16(a) \o Wr16(b) \o Wr16(c) \o Wr16(d)
           IN  /\ Block(s, 8)
               /\ \A p : Holds(p, 0, s) =>
                    /\ GetInt16(p, 0) = a /\ GetInt16(p, 2) = b
                    /\ GetInt16(p, 4) = c /\ GetInt16(p, 6) = d
<1> DEFINE s == Wr16(a) \o Wr16(b) \o Wr16(c) \o Wr16(d)
<1>1. /\ Block(Wr16(a), 2) /\ Block(Wr16(b), 2)
      /\ Block(Wr16(c), 2) /\ Block(Wr16(d), 2)
  BY Wr16Block
<1>2. /\ Block(s, 8)
      /\ \A p : Holds(p, 0, s) =>
           /\ Holds(p, 0, Wr16(a)) /\ Holds(p, 2, Wr16(b))
           /\ Holds(p, 4, Wr16(c)) /\ Holds(p, 6, Wr16(d))
  BY <1>1, FourPairs
<1> HIDE DEF s
<1>3. \A p : Holds(p, 0, s) =>
        /\ GetInt16(p, 0) = a /\ GetInt16(p, 2) = b
        /\ GetInt16(p, 4) = c /\ GetInt16(p, 6) = d
  BY <1>2, Wr16Block
<1> QED BY <1>2, <1>3 DEF s

----------------------------------------------------------------------------
\* The fields of each command.
Rects == [x : I16, y : I16, w : I16, h : I16]
Lines == [x1 : I16, y1 : I16, x2 : I16, y2 : I16]

LEMMA RectBlock ==
    ASSUME NEW r \in Rects
    PROVE  /\ Block(WrRect(r), 8)
           /\ \A p : Holds(p, 0, WrRect(r)) => RectAt(p) = r
<1>1. r.x \in I16 /\ r.y \in I16 /\ r.w \in I16 /\ r.h \in I16
  BY DEF Rects
<1>2. r = [x |-> r.x, y |-> r.y, w |-> r.w, h |-> r.h]
  BY DEF Rects
<1>3. /\ Block(WrRect(r), 8)
      /\ \A p : Holds(p, 0, WrRect(r)) =>
           /\ GetInt16(p, 0) = r.x /\ GetInt16(p, 2) = r.y
           /\ GetInt16(p, 4) = r.w /\ GetInt16(p, 6) = r.h
  BY <1>1, FourNumbers DEF WrRect
<1> QED BY <1>2, <1>3 DEF RectAt

LEMMA EndsBlock ==
    ASSUME NEW r \in Lines
    PROVE  /\ Block(WrEnds(r), 8)
           /\ \A p : Holds(p, 0, WrEnds(r)) => EndsAt(p) = r
<1>1. r.x1 \in I16 /\ r.y1 \in I16 /\ r.x2 \in I16 /\ r.y2 \in I16
  BY DEF Lines
<1>2. r = [x1 |-> r.x1, y1 |-> r.y1, x2 |-> r.x2, y2 |-> r.y2]
  BY DEF Lines
<1>3. /\ Block(WrEnds(r), 8)
      /\ \A p : Holds(p, 0, WrEnds(r)) =>
           /\ GetInt16(p, 0) = r.x1 /\ GetInt16(p, 2) = r.y1
           /\ GetInt16(p, 4) = r.x2 /\ GetInt16(p, 6) = r.y2
  BY <1>1, FourNumbers DEF WrEnds
<1> QED BY <1>2, <1>3 DEF EndsAt

LEMMA WordBlock ==
    ASSUME NEW a \in Word
    PROVE  /\ Block(a, 4)
           /\ \A p, n : n \in Nat /\ Holds(p, n, a) => GetUint32(p, n) = a
BY WordBytes, WordRead DEF Block

\* A rectangle or a line, a color or a blob id, and what else there is.
LEMMA ThreeBlocks ==
    ASSUME NEW h, NEW a \in Word, NEW t, NEW k \in Nat, Block(h, 8), Block(t, k)
    PROVE  LET s == h \o a \o t
           IN  /\ Block(s, 12 + k)
               /\ \A p : Holds(p, 0, s) =>
                    Holds(p, 0, h) /\ GetUint32(p, 8) = a /\ Holds(p, 12, t)
<1> DEFINE ha == h \o a
           s == ha \o t
<1>1. Block(ha, 12) /\ \A p : Holds(p, 0, ha) => Holds(p, 0, h) /\ Holds(p, 8, a)
  <2>1. Block(a, 4)
    BY WordBlock
  <2>2. Block(ha, 8 + 4)
    BY <2>1, CatBlock
  <2> QED BY <2>1, <2>2, CatBlock
<1>2. Block(s, 12 + k) /\ \A p : Holds(p, 0, s) => Holds(p, 0, ha) /\ Holds(p, 12, t)
  <2> HIDE DEF ha
  <2> QED BY <1>1, CatBlock
<1> HIDE DEF ha, s
<1>3. ASSUME NEW p, Holds(p, 0, s)
      PROVE  Holds(p, 0, h) /\ GetUint32(p, 8) = a /\ Holds(p, 12, t)
  <2>1. Holds(p, 0, h) /\ Holds(p, 8, a) /\ Holds(p, 12, t)
    BY <1>1, <1>2, <1>3
  <2> QED BY <2>1, WordBlock
<1> QED BY <1>2, <1>3 DEF s, ha

\* What is encoded is what is decoded.
LEMMA BlockHolds ==
    ASSUME NEW s, NEW n, Block(s, n)
    PROVE  Holds(s, 0, s)
BY HoldsAll DEF Block

LEMMA Tail1 ==
    ASSUME NEW a \in Byte
    PROVE  Block(<<a>>, 1)
BY DEF Block, Bytes

LEMMA Tail3 ==
    ASSUME NEW a \in Byte, NEW b \in Byte, NEW c \in Byte
    PROVE  Block(<<a, b, c>>, 3)
BY DEF Block, Bytes

LEMMA Tail4 ==
    ASSUME NEW a \in Byte, NEW b \in Byte, NEW c \in Byte, NEW d \in Byte
    PROVE  Block(<<a, b, c, d>>, 4)
BY DEF Block, Bytes

\* The bytes after a rectangle and a color.
LEMMA Read1 ==
    ASSUME NEW p, NEW a, Holds(p, 12, <<a>>)
    PROVE  GetUint8(p, 12) = a
BY Holds1 DEF GetUint8

LEMMA Read3 ==
    ASSUME NEW p, NEW a, NEW b, NEW c, Holds(p, 12, <<a, b, c>>)
    PROVE  GetUint8(p, 12) = a /\ GetUint8(p, 13) = b /\ GetUint8(p, 14) = c
<1>1. p[12 + 1] = a /\ p[12 + 2] = b /\ p[12 + 3] = c
  BY Holds3
<1> QED BY <1>1 DEF GetUint8

LEMMA Read4 ==
    ASSUME NEW p, NEW a, NEW b, NEW c, NEW d, Holds(p, 12, <<a, b, c, d>>)
    PROVE  /\ GetUint8(p, 12) = a /\ GetUint8(p, 13) = b
           /\ GetUint8(p, 14) = c /\ GetUint8(p, 15) = d
<1>1. p[12 + 1] = a /\ p[12 + 2] = b /\ p[12 + 3] = c /\ p[12 + 4] = d
  BY Holds4
<1> QED BY <1>1 DEF GetUint8

FillFields == [rect : Rects, argb : Word, radius : Byte]

BorderFields == [rect : Rects, argb : Word, width : Byte, radius : Byte, side : Byte]

LineFields == [ends : Lines, argb : Word, width : Byte]

LineExFields == [ends : Lines, argb : Word, width : Byte, dash_width : Byte,
                 dash_gap : Byte, cap_bits : Byte]

ArcFields == [cx : I16, cy : I16, r : U16, a0 : I16, a1 : I16, argb : Word,
              width : Byte]

I8 == {v \in Int : -128 <= v /\ v <= 127}

ShadowFields == [rect : Rects, argb : Word, radius : Byte, blur : Byte, spread : I8,
                 ofs_x : I16, ofs_y : I16]

ImageFields == [rect : Rects, blob_id : Word]

LEMMA FillTrip ==
    ASSUME NEW f \in FillFields
    PROVE  /\ Block(Encode("FILL_RECT", f), 13)
           /\ Decode("FILL_RECT", Encode("FILL_RECT", f)) = f
<1> DEFINE h == WrRect(f.rect)
           t == <<f.radius>>
           s == h \o f.argb \o t
<1>1. /\ f.rect \in Rects /\ f.argb \in Word /\ f.radius \in Byte
      /\ f = [rect |-> f.rect, argb |-> f.argb, radius |-> f.radius]
  BY DEF FillFields
<1>2. Block(h, 8) /\ Block(t, 1) /\ \A p : Holds(p, 0, h) => RectAt(p) = f.rect
  BY <1>1, RectBlock, Tail1
<1>3. \A p : Holds(p, 12, t) => GetUint8(p, 12) = f.radius
  BY Read1
<1>4. Encode("FILL_RECT", f) = s
  BY DEF Encode
<1> HIDE DEF h, t
<1>5. /\ Block(s, 12 + 1)
      /\ \A p : Holds(p, 0, s) =>
           Holds(p, 0, h) /\ GetUint32(p, 8) = f.argb /\ Holds(p, 12, t)
  BY <1>1, <1>2, ThreeBlocks
<1> HIDE DEF s
<1>6. RectAt(s) = f.rect /\ GetUint32(s, 8) = f.argb /\ GetUint8(s, 12) = f.radius
  BY <1>2, <1>3, <1>5, BlockHolds
<1>7. Decode("FILL_RECT", s) = [rect |-> RectAt(s), argb |-> GetUint32(s, 8),
                                radius |-> GetUint8(s, 12)]
  BY DEF Decode
<1> QED BY <1>1, <1>4, <1>5, <1>6, <1>7

LEMMA BorderTrip ==
    ASSUME NEW f \in BorderFields
    PROVE  /\ Block(Encode("BORDER", f), 15)
           /\ Decode("BORDER", Encode("BORDER", f)) = f
<1> DEFINE h == WrRect(f.rect)
           t == <<f.width, f.radius, f.side>>
           s == h \o f.argb \o t
<1>1. /\ f.rect \in Rects /\ f.argb \in Word
      /\ f.width \in Byte /\ f.radius \in Byte /\ f.side \in Byte
      /\ f = [rect |-> f.rect, argb |-> f.argb, width |-> f.width,
              radius |-> f.radius, side |-> f.side]
  BY DEF BorderFields
<1>2. Block(h, 8) /\ Block(t, 3) /\ \A p : Holds(p, 0, h) => RectAt(p) = f.rect
  BY <1>1, RectBlock, Tail3
<1>3. \A p : Holds(p, 12, t) =>
        /\ GetUint8(p, 12) = f.width /\ GetUint8(p, 13) = f.radius
        /\ GetUint8(p, 14) = f.side
  BY Read3
<1>4. Encode("BORDER", f) = s
  BY DEF Encode
<1> HIDE DEF h, t
<1>5. /\ Block(s, 12 + 3)
      /\ \A p : Holds(p, 0, s) =>
           Holds(p, 0, h) /\ GetUint32(p, 8) = f.argb /\ Holds(p, 12, t)
  BY <1>1, <1>2, ThreeBlocks
<1> HIDE DEF s
<1>6. /\ RectAt(s) = f.rect /\ GetUint32(s, 8) = f.argb /\ GetUint8(s, 12) = f.width
      /\ GetUint8(s, 13) = f.radius /\ GetUint8(s, 14) = f.side
  BY <1>2, <1>3, <1>5, BlockHolds
<1>7. Decode("BORDER", s) = [rect |-> RectAt(s), argb |-> GetUint32(s, 8),
                             width |-> GetUint8(s, 12), radius |-> GetUint8(s, 13),
                             side |-> GetUint8(s, 14)]
  BY DEF Decode
<1> QED BY <1>1, <1>4, <1>5, <1>6, <1>7

LEMMA LineTrip ==
    ASSUME NEW f \in LineFields
    PROVE  /\ Block(Encode("LINE", f), 13)
           /\ Decode("LINE", Encode("LINE", f)) = f
<1> DEFINE h == WrEnds(f.ends)
           t == <<f.width>>
           s == h \o f.argb \o t
<1>1. /\ f.ends \in Lines /\ f.argb \in Word /\ f.width \in Byte
      /\ f = [ends |-> f.ends, argb |-> f.argb, width |-> f.width]
  BY DEF LineFields
<1>2. Block(h, 8) /\ Block(t, 1) /\ \A p : Holds(p, 0, h) => EndsAt(p) = f.ends
  BY <1>1, EndsBlock, Tail1
<1>3. \A p : Holds(p, 12, t) => GetUint8(p, 12) = f.width
  BY Read1
<1>4. Encode("LINE", f) = s
  BY DEF Encode
<1> HIDE DEF h, t
<1>5. /\ Block(s, 12 + 1)
      /\ \A p : Holds(p, 0, s) =>
           Holds(p, 0, h) /\ GetUint32(p, 8) = f.argb /\ Holds(p, 12, t)
  BY <1>1, <1>2, ThreeBlocks
<1> HIDE DEF s
<1>6. EndsAt(s) = f.ends /\ GetUint32(s, 8) = f.argb /\ GetUint8(s, 12) = f.width
  BY <1>2, <1>3, <1>5, BlockHolds
<1>7. Decode("LINE", s) = [ends |-> EndsAt(s), argb |-> GetUint32(s, 8),
                           width |-> GetUint8(s, 12)]
  BY DEF Decode
<1> QED BY <1>1, <1>4, <1>5, <1>6, <1>7

LEMMA LineExTrip ==
    ASSUME NEW f \in LineExFields
    PROVE  /\ Block(Encode("LINE_EX", f), 16)
           /\ Decode("LINE_EX", Encode("LINE_EX", f)) = f
<1> DEFINE h == WrEnds(f.ends)
           t == <<f.width, f.dash_width, f.dash_gap, f.cap_bits>>
           s == h \o f.argb \o t
<1>1. /\ f.ends \in Lines /\ f.argb \in Word /\ f.width \in Byte
      /\ f.dash_width \in Byte /\ f.dash_gap \in Byte /\ f.cap_bits \in Byte
      /\ f = [ends |-> f.ends, argb |-> f.argb, width |-> f.width,
              dash_width |-> f.dash_width, dash_gap |-> f.dash_gap,
              cap_bits |-> f.cap_bits]
  BY DEF LineExFields
<1>2. Block(h, 8) /\ Block(t, 4) /\ \A p : Holds(p, 0, h) => EndsAt(p) = f.ends
  BY <1>1, EndsBlock, Tail4
<1>3. \A p : Holds(p, 12, t) =>
        /\ GetUint8(p, 12) = f.width /\ GetUint8(p, 13) = f.dash_width
        /\ GetUint8(p, 14) = f.dash_gap /\ GetUint8(p, 15) = f.cap_bits
  BY Read4
<1>4. Encode("LINE_EX", f) = s
  BY DEF Encode
<1> HIDE DEF h, t
<1>5. /\ Block(s, 12 + 4)
      /\ \A p : Holds(p, 0, s) =>
           Holds(p, 0, h) /\ GetUint32(p, 8) = f.argb /\ Holds(p, 12, t)
  BY <1>1, <1>2, ThreeBlocks
<1> HIDE DEF s
<1>6. /\ EndsAt(s) = f.ends /\ GetUint32(s, 8) = f.argb /\ GetUint8(s, 12) = f.width
      /\ GetUint8(s, 13) = f.dash_width /\ GetUint8(s, 14) = f.dash_gap
      /\ GetUint8(s, 15) = f.cap_bits
  BY <1>2, <1>3, <1>5, BlockHolds
<1>7. Decode("LINE_EX", s) = [ends |-> EndsAt(s), argb |-> GetUint32(s, 8),
                              width |-> GetUint8(s, 12),
                              dash_width |-> GetUint8(s, 13),
                              dash_gap |-> GetUint8(s, 14),
                              cap_bits |-> GetUint8(s, 15)]
  BY DEF Decode
<1> QED BY <1>1, <1>4, <1>5, <1>6, <1>7

LEMMA ArcTrip ==
    ASSUME NEW f \in ArcFields
    PROVE  /\ Block(Encode("ARC", f), 15)
           /\ Decode("ARC", Encode("ARC", f)) = f
<1> DEFINE h == Wr16(f.cx) \o Wr16(f.cy) \o Wr16(f.r) \o Wr16(f.a0)
           a == Wr16(f.a1)
           ha == h \o a
           hac == ha \o f.argb
           t == <<f.width>>
           s == hac \o t
<1>1. /\ f.cx \in I16 /\ f.cy \in I16 /\ f.a0 \in I16 /\ f.a1 \in I16
      /\ f.r \in Int /\ 0 <= f.r /\ f.r < 65536
      /\ f.argb \in Word /\ f.width \in Byte
      /\ f = [cx |-> f.cx, cy |-> f.cy, r |-> f.r, a0 |-> f.a0, a1 |-> f.a1,
              argb |-> f.argb, width |-> f.width]
  BY DEF ArcFields, U16
<1>2. /\ Block(Wr16(f.r), 2)
      /\ \A p : Holds(p, 4, Wr16(f.r)) => GetUint16(p, 4) = f.r
  BY <1>1, Wr16Bytes, Wr16Read DEF Block
<1>3. /\ Block(h, 8) /\ Block(a, 2) /\ Block(f.argb, 4) /\ Block(t, 1)
      /\ \A p : Holds(p, 0, h) =>
           /\ GetInt16(p, 0) = f.cx /\ GetInt16(p, 2) = f.cy
           /\ GetUint16(p, 4) = f.r /\ GetInt16(p, 6) = f.a0
      /\ \A p : Holds(p, 8, a) => GetInt16(p, 8) = f.a1
  <2>1. Block(Wr16(f.cx), 2) /\ Block(Wr16(f.cy), 2) /\ Block(Wr16(f.a0), 2)
    BY <1>1, Wr16Block
  <2>2. /\ Block(h, 8)
        /\ \A p : Holds(p, 0, h) =>
             /\ Holds(p, 0, Wr16(f.cx)) /\ Holds(p, 2, Wr16(f.cy))
             /\ Holds(p, 4, Wr16(f.r)) /\ Holds(p, 6, Wr16(f.a0))
    BY <1>2, <2>1, FourPairs
  <2> HIDE DEF h
  <2>3. ASSUME NEW p, Holds(p, 0, h)
        PROVE  /\ GetInt16(p, 0) = f.cx /\ GetInt16(p, 2) = f.cy
               /\ GetUint16(p, 4) = f.r /\ GetInt16(p, 6) = f.a0
    <3>1. /\ Holds(p, 0, Wr16(f.cx)) /\ Holds(p, 2, Wr16(f.cy))
          /\ Holds(p, 4, Wr16(f.r)) /\ Holds(p, 6, Wr16(f.a0))
      BY <2>2, <2>3
    <3> QED BY <1>1, <1>2, <3>1, Wr16Block
  <2>4. Block(a, 2) /\ \A p : Holds(p, 8, a) => GetInt16(p, 8) = f.a1
    BY <1>1, Wr16Block
  <2>5. Block(f.argb, 4) /\ Block(t, 1)
    BY <1>1, WordBlock, Tail1
  <2> QED BY <2>2, <2>3, <2>4, <2>5
<1>4. \A p : Holds(p, 14, t) => GetUint8(p, 14) = f.width
  BY Holds1 DEF GetUint8
<1>5. Encode("ARC", f) = s
  BY DEF Encode
<1> HIDE DEF h, a, t
<1>6. Block(ha, 10) /\ \A p : Holds(p, 0, ha) => Holds(p, 0, h) /\ Holds(p, 8, a)
  <2>1. Block(ha, 8 + 2)
    BY <1>3, CatBlock
  <2> QED BY <1>3, <2>1, CatBlock
<1> HIDE DEF ha
<1>7. /\ Block(hac, 14)
      /\ \A p : Holds(p, 0, hac) => Holds(p, 0, ha) /\ Holds(p, 10, f.argb)
  <2>1. Block(hac, 10 + 4)
    BY <1>3, <1>6, CatBlock
  <2> QED BY <1>3, <1>6, <2>1, CatBlock
<1> HIDE DEF hac
<1>8. Block(s, 15) /\ \A p : Holds(p, 0, s) => Holds(p, 0, hac) /\ Holds(p, 14, t)
  <2>1. Block(s, 14 + 1)
    BY <1>3, <1>7, CatBlock
  <2> QED BY <1>3, <1>7, <2>1, CatBlock
<1> HIDE DEF s
<1>9. /\ Holds(s, 0, h) /\ Holds(s, 8, a) /\ Holds(s, 10, f.argb) /\ Holds(s, 14, t)
  BY <1>6, <1>7, <1>8, BlockHolds
<1>10. /\ GetInt16(s, 0) = f.cx /\ GetInt16(s, 2) = f.cy /\ GetUint16(s, 4) = f.r
       /\ GetInt16(s, 6) = f.a0 /\ GetInt16(s, 8) = f.a1
       /\ GetUint32(s, 10) = f.argb /\ GetUint8(s, 14) = f.width
  BY <1>1, <1>3, <1>4, <1>9, WordBlock
<1>11. Decode("ARC", s) = [cx |-> GetInt16(s, 0), cy |-> GetInt16(s, 2),
                           r |-> GetUint16(s, 4), a0 |-> GetInt16(s, 6),
                           a1 |-> GetInt16(s, 8), argb |-> GetUint32(s, 10),
                           width |-> GetUint8(s, 14)]
  BY DEF Decode
<1> QED BY <1>1, <1>5, <1>8, <1>10, <1>11

LEMMA ShadowTrip ==
    ASSUME NEW f \in ShadowFields
    PROVE  /\ Block(Encode("BOX_SHADOW", f), 20)
           /\ Decode("BOX_SHADOW", Encode("BOX_SHADOW", f)) = f
<1> DEFINE h == WrRect(f.rect)
           t == <<f.radius, f.blur, f.spread % 256>>
           x == Wr16(f.ofs_x)
           y == Wr16(f.ofs_y)
           z == <<0>>
           ht == h \o f.argb \o t
           htx == ht \o x
           hty == htx \o y
           s == hty \o z
<1>1. /\ f.rect \in Rects /\ f.argb \in Word /\ f.radius \in Byte /\ f.blur \in Byte
      /\ f.spread \in Int /\ -128 <= f.spread /\ f.spread <= 127
      /\ f.ofs_x \in I16 /\ f.ofs_y \in I16
      /\ f = [rect |-> f.rect, argb |-> f.argb, radius |-> f.radius, blur |-> f.blur,
              spread |-> f.spread, ofs_x |-> f.ofs_x, ofs_y |-> f.ofs_y]
  BY DEF ShadowFields, I8
<1>2. f.spread % 256 \in Byte
  BY <1>1, ByteMod
<1>3. Block(h, 8) /\ \A p : Holds(p, 0, h) => RectAt(p) = f.rect
  BY <1>1, RectBlock
<1>4. Block(t, 3)
  BY <1>1, <1>2, Tail3
<1>5. /\ Block(x, 2) /\ \A p : Holds(p, 15, x) => GetInt16(p, 15) = f.ofs_x
      /\ Block(y, 2) /\ \A p : Holds(p, 17, y) => GetInt16(p, 17) = f.ofs_y
  BY <1>1, Wr16Block
<1>6. Block(z, 1)
  <2>1. 0 \in Byte
    BY DEF Byte
  <2> QED BY <2>1, Tail1
<1>7. ASSUME NEW p, Holds(p, 12, t)
      PROVE  /\ GetUint8(p, 12) = f.radius /\ GetUint8(p, 13) = f.blur
             /\ GetInt8(p, 14) = f.spread
  <2>1. /\ GetUint8(p, 12) = f.radius /\ GetUint8(p, 13) = f.blur
        /\ GetUint8(p, 14) = f.spread % 256
    BY <1>7, Read3
  <2>2. f.spread \in Int /\ -128 <= f.spread /\ f.spread <= 127
    BY <1>1
  <2>3. GetInt8(p, 14) = f.spread
    BY <2>1, <2>2, Int8Back
  <2> QED BY <2>1, <2>3
<1>8. Encode("BOX_SHADOW", f) = s
  BY DEF Encode
<1> HIDE DEF h, t, x, y, z
<1>9. /\ Block(ht, 15)
      /\ \A p : Holds(p, 0, ht) =>
           Holds(p, 0, h) /\ GetUint32(p, 8) = f.argb /\ Holds(p, 12, t)
  <2>1. /\ Block(ht, 12 + 3)
        /\ \A p : Holds(p, 0, ht) =>
             Holds(p, 0, h) /\ GetUint32(p, 8) = f.argb /\ Holds(p, 12, t)
    <3>1. f.argb \in Word /\ 3 \in Nat /\ Block(h, 8) /\ Block(t, 3)
      BY <1>1, <1>3, <1>4
    <3> QED BY <3>1, ThreeBlocks
  <2> HIDE DEF ht
  <2> QED BY <2>1
<1> HIDE DEF ht
<1>10. Block(htx, 17) /\ \A p : Holds(p, 0, htx) => Holds(p, 0, ht) /\ Holds(p, 15, x)
  <2>1. Block(htx, 15 + 2)
    BY <1>5, <1>9, CatBlock
  <2> QED BY <1>5, <1>9, <2>1, CatBlock
<1> HIDE DEF htx
<1>11. Block(hty, 19) /\ \A p : Holds(p, 0, hty) => Holds(p, 0, htx) /\ Holds(p, 17, y)
  <2>1. Block(hty, 17 + 2)
    BY <1>5, <1>10, CatBlock
  <2> QED BY <1>5, <1>10, <2>1, CatBlock
<1> HIDE DEF hty
<1>12. Block(s, 20) /\ \A p : Holds(p, 0, s) => Holds(p, 0, hty)
  <2>1. Block(s, 19 + 1)
    BY <1>6, <1>11, CatBlock
  <2> QED BY <1>6, <1>11, <2>1, CatBlock
<1> HIDE DEF s
<1>13. /\ Holds(s, 0, h) /\ GetUint32(s, 8) = f.argb
       /\ Holds(s, 12, t) /\ Holds(s, 15, x) /\ Holds(s, 17, y)
  BY <1>9, <1>10, <1>11, <1>12, BlockHolds
<1>14. /\ RectAt(s) = f.rect /\ GetUint8(s, 12) = f.radius /\ GetUint8(s, 13) = f.blur
       /\ GetInt8(s, 14) = f.spread
       /\ GetInt16(s, 15) = f.ofs_x /\ GetInt16(s, 17) = f.ofs_y
  BY <1>3, <1>5, <1>7, <1>13
<1>15. Decode("BOX_SHADOW", s) =
         [rect |-> RectAt(s), argb |-> GetUint32(s, 8), radius |-> GetUint8(s, 12),
          blur |-> GetUint8(s, 13), spread |-> GetInt8(s, 14),
          ofs_x |-> GetInt16(s, 15), ofs_y |-> GetInt16(s, 17)]
  BY DEF Decode
<1> QED BY <1>1, <1>8, <1>12, <1>13, <1>14, <1>15

LEMMA ImageTrip ==
    ASSUME NEW f \in ImageFields
    PROVE  /\ Block(Encode("IMAGE", f), 12)
           /\ Decode("IMAGE", Encode("IMAGE", f)) = f
<1> DEFINE h == WrRect(f.rect)
           s == h \o f.blob_id
<1>1. /\ f.rect \in Rects /\ f.blob_id \in Word
      /\ f = [rect |-> f.rect, blob_id |-> f.blob_id]
  BY DEF ImageFields
<1>2. Block(h, 8) /\ \A p : Holds(p, 0, h) => RectAt(p) = f.rect
  BY <1>1, RectBlock
<1>3. /\ Block(f.blob_id, 4)
      /\ \A p : Holds(p, 8, f.blob_id) => GetUint32(p, 8) = f.blob_id
  BY <1>1, WordBlock
<1>4. Encode("IMAGE", f) = s
  BY DEF Encode
<1> HIDE DEF h
<1>5. Block(s, 12) /\ \A p : Holds(p, 0, s) => Holds(p, 0, h) /\ Holds(p, 8, f.blob_id)
  <2>1. Block(s, 8 + 4)
    BY <1>2, <1>3, CatBlock
  <2> QED BY <1>2, <1>3, <2>1, CatBlock
<1> HIDE DEF s
<1>6. RectAt(s) = f.rect /\ GetUint32(s, 8) = f.blob_id
  BY <1>2, <1>3, <1>5, BlockHolds
<1>7. Decode("IMAGE", s) = [rect |-> RectAt(s), blob_id |-> GetUint32(s, 8)]
  BY DEF Decode
<1> QED BY <1>1, <1>4, <1>5, <1>6, <1>7

----------------------------------------------------------------------------
(* From a task to its fields *)

LEMMA ClampFacts ==
    ASSUME NEW lo \in Int, NEW hi \in Int, NEW v \in Int, lo <= hi
    PROVE  /\ Clamp(lo, hi, v) \in Int
           /\ lo <= Clamp(lo, hi, v) /\ Clamp(lo, hi, v) <= hi
           /\ lo <= v /\ v <= hi => Clamp(lo, hi, v) = v
           /\ v <= lo => Clamp(lo, hi, v) = lo
           /\ hi <= v => Clamp(lo, hi, v) = hi
BY DEF Clamp, Least, Greatest

LEMMA ClampByte ==
    ASSUME NEW lo \in {0, 1}, NEW v \in Int
    PROVE  Clamp(lo, 255, v) \in Byte
<1>1. lo \in Int /\ lo <= 255 /\ 0 <= lo
  OBVIOUS
<1>2. /\ Clamp(lo, 255, v) \in Int /\ lo <= Clamp(lo, 255, v)
      /\ Clamp(lo, 255, v) <= 255
  BY <1>1, ClampFacts
<1> QED BY <1>1, <1>2 DEF Byte

\* The clamps of an angle's radius, of a spread and of an offset.
LEMMA ClampWide ==
    ASSUME NEW v \in Int
    PROVE  /\ Clamp(1, 65535, v) \in U16
           /\ 1 <= v /\ v <= 65535 => Clamp(1, 65535, v) = v
           /\ Clamp(-128, 127, v) \in I8
           /\ -128 <= v /\ v <= 127 => Clamp(-128, 127, v) = v
           /\ Clamp(-32768, 32767, v) \in I16
           /\ Fits16(v) => Clamp(-32768, 32767, v) = v
<1>1. /\ Clamp(1, 65535, v) \in U16
      /\ 1 <= v /\ v <= 65535 => Clamp(1, 65535, v) = v
  BY DEF Clamp, Least, Greatest, U16
<1>2. /\ Clamp(-128, 127, v) \in I8
      /\ -128 <= v /\ v <= 127 => Clamp(-128, 127, v) = v
  BY DEF Clamp, Least, Greatest, I8
<1>3. /\ Clamp(-32768, 32767, v) \in I16
      /\ Fits16(v) => Clamp(-32768, 32767, v) = v
  BY DEF Clamp, Least, Greatest, I16, Fits16
<1> QED BY <1>1, <1>2, <1>3

LEMMA OpacityByte ==
    ASSUME NEW a \in Byte, NEW b \in Byte
    PROVE  (a * b) \div 255 \in Byte
<1>1. a \in Int /\ b \in Int /\ 0 <= a /\ a <= 255 /\ 0 <= b /\ b <= 255
  BY ByteInt
<1>2. a * b \in Int /\ 0 <= a * b /\ a * b <= 255 * 255
  BY <1>1
<1>3. \A n \in Int : 0 <= n /\ n <= 255 * 255 => n \div 255 \in 0..255
  OBVIOUS
<1> QED BY <1>2, <1>3 DEF Byte

\* The colors of the command and of the task are the same.
LEMMA ArgbFacts ==
    ASSUME NEW t, t.opa \in Byte, t.d_opa \in Byte, t.color \in RGB
    PROVE  Argb(t) \in Word /\ Css(Argb(t)) = Color(t)
<1> DEFINE a == (t.d_opa * t.opa) \div 255
<1>1. a \in Byte
  BY OpacityByte
<1>2. t.color.red \in Byte /\ t.color.green \in Byte /\ t.color.blue \in Byte
  BY DEF RGB
<1>3. Argb(t) = <<t.color.blue, t.color.green, t.color.red, a>>
  BY DEF Argb, ColorToArgb
<1>4. Color(t) = [a |-> a, r |-> t.color.red, g |-> t.color.green, b |-> t.color.blue]
  BY DEF Color, Opacity
<1> HIDE DEF a
<1>5. Argb(t) \in Word
  BY <1>1, <1>2, <1>3 DEF Word
<1>6. Css(Argb(t)) = Color(t)
  BY <1>3, <1>4 DEF Css
<1> QED BY <1>5, <1>6

LEMMA RectFacts ==
    ASSUME NEW a \in Areas
    PROVE  /\ Rect(a) \in Rects
           /\ Area(a) \in [x : Int, y : Int, w : Int, h : Int]
           /\ InReach(Area(a)) => Rect(a) = Area(a)
<1>1. a.x1 \in Int /\ a.y1 \in Int /\ a.x2 - a.x1 + 1 \in Int /\ a.y2 - a.y1 + 1 \in Int
  BY DEF Areas
<1>2. Area(a) = [x |-> a.x1, y |-> a.y1, w |-> a.x2 - a.x1 + 1, h |-> a.y2 - a.y1 + 1]
  BY DEF Area
<1>3. Rect(a) \in Rects
  BY <1>1, Int16Fits DEF Rect, Rects, I16
<1>4. ASSUME InReach(Area(a)) PROVE Rect(a) = Area(a)
  <2>1. Fits16(a.x1) /\ Fits16(a.y1) /\ Fits16(a.x2 - a.x1 + 1) /\ Fits16(a.y2 - a.y1 + 1)
    BY <1>2, <1>4 DEF InReach
  <2> QED BY <1>1, <1>2, <2>1, Int16Fits DEF Rect
<1> QED BY <1>1, <1>2, <1>3, <1>4

\* p has the fields that are asked for and not departed from.
Agrees(t, p) ==
    \A x \in DOMAIN Asked(t) \ Departures(t) : x \in DOMAIN p /\ p[x] = Asked(t)[x]

\* The viewer rounds as LVGL does, and a radius that is clamped to a byte bends a
\* corner just as much.
LEMMA CornerClamp ==
    ASSUME NEW r \in Int, NEW w \in Int, NEW h \in Int, r <= 255 \/ Least(w, h) <= 511
    PROVE  Corner(Clamp(0, 255, r), w, h) = Greatest(0, Least(r, Least(w, h) \div 2))
BY DEF Corner, Clamp, Least, Greatest

LEMMA FillPainted ==
    ASSUME NEW t \in FillTasks
    PROVE  /\ Dispatch(t).op = "FILL_RECT" /\ Dispatch(t).f \in FillFields
           /\ Paintable(t) => Agrees(t, Paint("FILL_RECT", Dispatch(t).f))
<1> DEFINE a == Area(t.area)
           f == [rect |-> Rect(t.area), argb |-> Argb(t),
                 radius |-> Clamp(0, 255, t.radius)]
<1>1. /\ t.type = "FILL" /\ t.opa \in Byte /\ t.d_opa \in Byte /\ t.color \in RGB
      /\ t.area \in Areas /\ t.radius \in Int
  BY DEF FillTasks
<1>2. Dispatch(t) = [op |-> "FILL_RECT", f |-> f]
  BY <1>1 DEF Dispatch
<1>3. /\ Rect(t.area) \in Rects /\ a.w \in Int /\ a.h \in Int
      /\ InReach(a) => Rect(t.area) = a
  BY <1>1, RectFacts
<1>4. f \in FillFields
  BY <1>1, <1>3, ArgbFacts, ClampByte DEF FillFields
<1>5. ASSUME Paintable(t)
      PROVE  Agrees(t, Paint("FILL_RECT", f))
  <2>1. InReach(a)
    BY <1>1, <1>5 DEF Paintable
  <2>2. Asked(t) = [rect |-> a, css |-> Color(t), corner |-> Rounding(t.radius, a)]
    BY <1>1 DEF Asked
  <2>3. Paint("FILL_RECT", f) = [rect |-> f.rect, css |-> Css(f.argb),
                                 corner |-> Corner(f.radius, f.rect.w, f.rect.h)]
    <3> HIDE DEF f
    <3> QED BY DEF Paint
  <2>4. f.rect = a /\ f.argb = Argb(t) /\ f.radius = Clamp(0, 255, t.radius)
    BY <1>3, <2>1
  <2>5. Css(Argb(t)) = Color(t)
    BY <1>1, ArgbFacts
  <2>6. ASSUME Round(t)
        PROVE  Corner(Clamp(0, 255, t.radius), a.w, a.h) = Rounding(t.radius, a)
    <3>1. t.radius <= 255 \/ Least(a.w, a.h) <= 511
      BY <2>6 DEF Round, ShortSide
    <3> QED BY <1>1, <1>3, <3>1, CornerClamp DEF Rounding, ShortSide
  <2>7. Departures(t) = IF Round(t) THEN {} ELSE {"corner"}
    BY <1>1 DEF Departures
  <2> HIDE DEF f, a
  <2> QED BY <2>2, <2>3, <2>4, <2>5, <2>6, <2>7 DEF Agrees
<1> QED BY <1>2, <1>4, <1>5

LEMMA ImagePainted ==
    ASSUME NEW t \in ImageTasks
    PROVE  /\ Dispatch(t).op = "IMAGE" /\ Dispatch(t).f \in ImageFields
           /\ Paintable(t) => Agrees(t, Paint("IMAGE", Dispatch(t).f))
<1> DEFINE a == Area(t.image_area)
           f == [rect |-> Rect(t.image_area), blob_id |-> t.blob_id]
<1>1. t.type = "IMAGE" /\ t.image_area \in Areas /\ t.blob_id \in Word
  BY DEF ImageTasks, Word
<1>2. Dispatch(t) = [op |-> "IMAGE", f |-> f]
  BY <1>1 DEF Dispatch
<1>3. Rect(t.image_area) \in Rects /\ (InReach(a) => Rect(t.image_area) = a)
  BY <1>1, RectFacts
<1>4. f \in ImageFields
  BY <1>1, <1>3 DEF ImageFields
<1>5. ASSUME Paintable(t)
      PROVE  Agrees(t, Paint("IMAGE", f))
  <2>1. InReach(a)
    BY <1>1, <1>5 DEF Paintable
  <2>2. Asked(t) = [rect |-> a, blob |-> t.blob_id, opa |-> Opacity(t)]
    BY <1>1 DEF Asked
  <2>3. Paint("IMAGE", f) = [rect |-> f.rect, blob |-> f.blob_id, opa |-> 255]
    <3> HIDE DEF f
    <3> QED BY DEF Paint
  <2>4. Departures(t) = IF Opacity(t) = 255 THEN {} ELSE {"opa"}
    BY <1>1 DEF Departures
  <2>5. f.rect = a /\ f.blob_id = t.blob_id
    BY <1>3, <2>1
  <2> HIDE DEF f, a
  <2> QED BY <2>2, <2>3, <2>4, <2>5 DEF Agrees
<1> QED BY <1>2, <1>4, <1>5

\* A width that is clamped to 1..255 is the least of it and 255.
LEMMA WidthClamp ==
    ASSUME NEW v \in Int, v > 0
    PROVE  Greatest(1, Clamp(1, 255, v)) = Least(255, v)
BY DEF Greatest, Clamp, Least

LEMMA ArcPainted ==
    ASSUME NEW t \in ArcTasks, Evaluate(t)
    PROVE  /\ Dispatch(t).op = "ARC" /\ Dispatch(t).f \in ArcFields
           /\ Paintable(t) => Agrees(t, Paint("ARC", Dispatch(t).f))
<1> DEFINE f == [cx |-> Int16(t.center.x), cy |-> Int16(t.center.y),
                 r |-> Clamp(1, 65535, t.radius),
                 a0 |-> Int16(t.start_angle), a1 |-> Int16(t.end_angle),
                 argb |-> Argb(t), width |-> Clamp(1, 255, t.width)]
<1>1. /\ t.type = "ARC" /\ t.opa \in Byte /\ t.d_opa \in Byte /\ t.color \in RGB
      /\ t.center.x \in Int /\ t.center.y \in Int /\ t.radius \in Int
      /\ t.start_angle \in Int /\ t.end_angle \in Int /\ t.width \in Int
      /\ t.rounded \in BOOLEAN
  BY DEF ArcTasks, Points
<1>2. t.width > 0
  BY <1>1 DEF Evaluate, ArcIsSimple
<1>3. Dispatch(t) = [op |-> "ARC", f |-> f]
  BY <1>1 DEF Dispatch
<1>4. f \in ArcFields
  <2>1. /\ Int16(t.center.x) \in I16 /\ Int16(t.center.y) \in I16
        /\ Int16(t.start_angle) \in I16 /\ Int16(t.end_angle) \in I16
    BY <1>1, Int16Fits DEF I16
  <2>2. Clamp(1, 65535, t.radius) \in U16
    BY <1>1, ClampWide
  <2>3. Argb(t) \in Word /\ Clamp(1, 255, t.width) \in Byte
    BY <1>1, ArgbFacts, ClampByte
  <2> QED BY <2>1, <2>2, <2>3 DEF ArcFields
<1>5. ASSUME Paintable(t)
      PROVE  Agrees(t, Paint("ARC", f))
  <2>1. /\ Fits16(t.center.x) /\ Fits16(t.center.y)
        /\ Fits16(t.start_angle) /\ Fits16(t.end_angle)
    BY <1>1, <1>5 DEF Paintable, PointInReach
  <2>2. Asked(t) = [cx |-> t.center.x, cy |-> t.center.y, a0 |-> t.start_angle,
                    a1 |-> t.end_angle, css |-> Color(t),
                    width |-> Least(t.width, t.radius),
                    outer |-> 2 * t.radius, rounded |-> t.rounded]
    BY <1>1 DEF Asked
  <2>3. Paint("ARC", f) = [cx |-> f.cx, cy |-> f.cy, a0 |-> f.a0, a1 |-> f.a1,
                           css |-> Css(f.argb), width |-> Greatest(1, f.width),
                           outer |-> 2 * Greatest(1, f.r) + Greatest(1, f.width),
                           rounded |-> FALSE]
    <3> HIDE DEF f
    <3> QED BY DEF Paint
  <2>4. /\ f.cx = t.center.x /\ f.cy = t.center.y
        /\ f.a0 = t.start_angle /\ f.a1 = t.end_angle /\ f.argb = Argb(t)
        /\ f.width = Clamp(1, 255, t.width)
    BY <1>1, <2>1, Int16Fits
  <2>5. t.width <= Least(255, t.radius) => Greatest(1, f.width) = Least(t.width, t.radius)
    BY <1>1, <1>2, <2>4 DEF Greatest, Clamp, Least
  <2>6. Css(Argb(t)) = Color(t)
    BY <1>1, ArgbFacts
  <2>7. Departures(t) = {"outer"}
                          \cup (IF t.width <= Least(255, t.radius) THEN {} ELSE {"width"})
                          \cup (IF t.rounded THEN {"rounded"} ELSE {})
    BY <1>1 DEF Departures
  <2> HIDE DEF f
  <2>8. Css(f.argb) = Color(t)
    BY <2>4, <2>6
  <2>9. ~t.rounded => t.rounded = FALSE
    BY <1>1
  <2>10. \A x \in DOMAIN Asked(t) \ Departures(t) :
           \/ x \in {"cx", "cy", "a0", "a1", "css"}
           \/ x = "width" /\ t.width <= Least(255, t.radius)
           \/ x = "rounded" /\ ~t.rounded
    BY <2>2, <2>7
  <2>11. Paint("ARC", f) = [cx |-> t.center.x, cy |-> t.center.y, a0 |-> t.start_angle,
                            a1 |-> t.end_angle, css |-> Color(t),
                            width |-> Greatest(1, f.width),
                            outer |-> 2 * Greatest(1, f.r) + Greatest(1, f.width),
                            rounded |-> FALSE]
    BY <2>3, <2>4, <2>8
  <2> DEFINE p == Paint("ARC", f)
  <2>12. DOMAIN p = DOMAIN Asked(t)
    BY <2>2, <2>11
  <2>13. \A x \in {"cx", "cy", "a0", "a1", "css"} : p[x] = Asked(t)[x]
    BY <2>2, <2>11
  <2>14. t.width <= Least(255, t.radius) => p["width"] = Asked(t)["width"]
    BY <2>2, <2>5, <2>11
  <2>15. ASSUME ~t.rounded
         PROVE  p["rounded"] = Asked(t)["rounded"]
    <3>1. p["rounded"] = FALSE
      BY <2>11
    <3>2. Asked(t)["rounded"] = t.rounded
      BY <2>2
    <3> QED BY <2>9, <2>15, <3>1, <3>2, Zenon
  <2> HIDE DEF p
  <2>16. Agrees(t, p)
    BY <2>10, <2>12, <2>13, <2>14, <2>15 DEF Agrees
  <2> QED BY <2>16 DEF p
<1> QED BY <1>3, <1>4, <1>5

LEMMA ShadowPainted ==
    ASSUME NEW t \in ShadowTasks
    PROVE  /\ Dispatch(t).op = "BOX_SHADOW" /\ Dispatch(t).f \in ShadowFields
           /\ Paintable(t) => Agrees(t, Paint("BOX_SHADOW", Dispatch(t).f))
<1> DEFINE a == Area(t.area)
           f == [rect |-> Rect(t.area), argb |-> Argb(t),
                 radius |-> Clamp(0, 255, t.radius), blur |-> Clamp(0, 255, t.width),
                 spread |-> Clamp(-128, 127, t.spread),
                 ofs_x |-> Clamp(-32768, 32767, t.ofs_x),
                 ofs_y |-> Clamp(-32768, 32767, t.ofs_y)]
<1>1. /\ t.type = "BOX_SHADOW" /\ t.opa \in Byte /\ t.d_opa \in Byte /\ t.color \in RGB
      /\ t.area \in Areas /\ t.radius \in Int /\ t.width \in Int
      /\ t.spread \in Int /\ t.ofs_x \in Int /\ t.ofs_y \in Int
  BY DEF ShadowTasks
<1>2. Dispatch(t) = [op |-> "BOX_SHADOW", f |-> f]
  BY <1>1 DEF Dispatch
<1>3. Rect(t.area) \in Rects /\ (InReach(a) => Rect(t.area) = a)
  BY <1>1, RectFacts
<1>4. f \in ShadowFields
  <2>1. Clamp(-128, 127, t.spread) \in I8
    BY <1>1, ClampWide
  <2>2. Clamp(-32768, 32767, t.ofs_x) \in I16 /\ Clamp(-32768, 32767, t.ofs_y) \in I16
    BY <1>1, ClampWide
  <2>3. /\ Argb(t) \in Word
        /\ Clamp(0, 255, t.radius) \in Byte /\ Clamp(0, 255, t.width) \in Byte
    BY <1>1, ArgbFacts, ClampByte
  <2> QED BY <1>3, <2>1, <2>2, <2>3 DEF ShadowFields
<1>5. ASSUME Paintable(t)
      PROVE  Agrees(t, Paint("BOX_SHADOW", f))
  <2> DEFINE s == t.spread
             w == a.w + 2 * s
             h == a.h + 2 * s
             x == a.x - s + t.ofs_x
             y == a.y - s + t.ofs_y
             moved == [x |-> x, y |-> y, w |-> w, h |-> h]
             g == Grown(t)
             round == Corner(Clamp(0, 255, t.radius) + s, w, h)
             blur == Clamp(0, 255, t.width)
  <2>1. /\ InReach(a) /\ -128 <= s /\ s <= 127
        /\ Fits16(t.ofs_x) /\ Fits16(t.ofs_y)
    BY <1>1, <1>5 DEF Paintable
  <2>2. /\ f.rect = a /\ f.argb = Argb(t) /\ f.radius = Clamp(0, 255, t.radius)
        /\ f.blur = blur /\ f.spread = s
        /\ f.ofs_x = t.ofs_x /\ f.ofs_y = t.ofs_y
    <3>1. Clamp(-128, 127, s) = s
      BY <1>1, <2>1, ClampWide
    <3>2. Clamp(-32768, 32767, t.ofs_x) = t.ofs_x /\ Clamp(-32768, 32767, t.ofs_y) = t.ofs_y
      BY <1>1, <2>1, ClampWide
    <3> QED BY <1>3, <2>1, <3>1, <3>2
  <2>3. /\ a.x = t.area.x1 /\ a.y = t.area.y1
        /\ a.w = t.area.x2 - t.area.x1 + 1 /\ a.h = t.area.y2 - t.area.y1 + 1
        /\ t.area.x1 \in Int /\ t.area.x2 \in Int
        /\ t.area.y1 \in Int /\ t.area.y2 \in Int
    BY <1>1 DEF Area, Areas
  <2>4. w \in Int /\ h \in Int
    BY <1>1, <2>3
  <2>5. /\ g.x1 = t.area.x1 - s + t.ofs_x /\ g.x2 = t.area.x2 + s + t.ofs_x
        /\ g.y1 = t.area.y1 - s + t.ofs_y /\ g.y2 = t.area.y2 + s + t.ofs_y
    BY DEF Grown
  <2> HIDE DEF g
  <2>6. /\ (g.x1 > g.x2 <=> w <= 0) /\ (g.y1 > g.y2 <=> h <= 0)
        /\ Area(g) = moved
    BY <1>1, <2>3, <2>5 DEF Area
  <2>7. Asked(t) =
          IF w <= 0 \/ h <= 0 THEN [rect |-> Nothing]
          ELSE [rect |-> moved, css |-> Color(t), blur |-> t.width,
                corner |-> Rounding(t.radius, moved)]
    <3>1. Asked(t) =
            IF g.x1 > g.x2 \/ g.y1 > g.y2 THEN [rect |-> Nothing]
            ELSE [rect |-> Area(g), css |-> Color(t), blur |-> t.width,
                  corner |-> Rounding(t.radius, Area(g))]
      BY <1>1 DEF Asked, g
    <3> HIDE DEF w, h, moved
    <3> QED BY <2>6, <3>1
  <2>8. Paint("BOX_SHADOW", f) =
          IF f.rect.w + 2 * f.spread <= 0 \/ f.rect.h + 2 * f.spread <= 0
          THEN [rect |-> Nothing]
          ELSE [rect |-> [x |-> f.rect.x - f.spread + f.ofs_x,
                          y |-> f.rect.y - f.spread + f.ofs_y,
                          w |-> f.rect.w + 2 * f.spread,
                          h |-> f.rect.h + 2 * f.spread],
                css |-> Css(f.argb), blur |-> f.blur,
                corner |-> Corner(f.radius + f.spread, f.rect.w + 2 * f.spread,
                                  f.rect.h + 2 * f.spread)]
    <3> HIDE DEF f
    <3> QED BY DEF Paint
  <2>9. Css(Argb(t)) = Color(t)
    BY <1>1, ArgbFacts
  <2> HIDE DEF f
  <2>10. Paint("BOX_SHADOW", f) =
           IF w <= 0 \/ h <= 0 THEN [rect |-> Nothing]
           ELSE [rect |-> moved, css |-> Color(t), blur |-> blur, corner |-> round]
    BY <2>2, <2>8, <2>9
  <2>11. 0 <= t.width /\ t.width <= 255 => blur = t.width
    BY <1>1 DEF Clamp, Least, Greatest
  <2>12. ASSUME s = 0, Round(t)
         PROVE  round = Rounding(t.radius, moved)
    <3>1. w = a.w /\ h = a.h /\ Clamp(0, 255, t.radius) + s = Clamp(0, 255, t.radius)
      <4>1. Clamp(0, 255, t.radius) \in Int
        BY <1>1 DEF Clamp, Least, Greatest
      <4> QED BY <2>3, <2>12, <4>1
    <3>2. t.radius <= 255 \/ Least(w, h) <= 511
      BY <2>12, <3>1 DEF Round, ShortSide
    <3>3. Rounding(t.radius, moved) = Greatest(0, Least(t.radius, Least(w, h) \div 2))
      BY DEF Rounding, ShortSide
    <3>4. round = Corner(Clamp(0, 255, t.radius), w, h)
      BY <3>1
    <3> HIDE DEF w, h, round, moved
    <3> QED BY <1>1, <2>4, <3>2, <3>3, <3>4, CornerClamp
  <2>13. Departures(t) =
           (IF s = 0 /\ Round(t) THEN {} ELSE {"corner"})
             \cup (IF 0 <= t.width /\ t.width <= 255 THEN {} ELSE {"blur"})
    BY <1>1 DEF Departures
  <2> HIDE DEF moved, round, blur, s
  <2>14. CASE w <= 0 \/ h <= 0
    <3> HIDE DEF w, h
    <3> QED BY <2>7, <2>10, <2>14 DEF Agrees
  <2>15. CASE ~(w <= 0 \/ h <= 0)
    <3> HIDE DEF w, h
    <3> QED BY <2>7, <2>10, <2>11, <2>12, <2>13, <2>15 DEF Agrees
  <2> QED BY <2>14, <2>15
<1> QED BY <1>2, <1>4, <1>5

EdgeNames == {"bottom", "top", "left", "right"}

\* The bits of a side name its edges.
LEMMA SideEdges ==
    ASSUME NEW side \in Byte
    PROVE  {e \in DOMAIN SideBit : (side \div SideBit[e]) % 2 = 1} =
             {e \in EdgeNames :
                \/ e = "bottom" /\ side % 2 = 1
                \/ e = "top"    /\ (side \div 2) % 2 = 1
                \/ e = "left"   /\ (side \div 4) % 2 = 1
                \/ e = "right"  /\ (side \div 8) % 2 = 1}
<1>1. DOMAIN SideBit = EdgeNames
  BY DEF SideBit, EdgeNames
<1>2. /\ SideBit["bottom"] = 1 /\ SideBit["top"] = 2
      /\ SideBit["left"] = 4 /\ SideBit["right"] = 8
  BY DEF SideBit
<1>3. side \div 1 = side
  BY ByteInt
<1> QED BY <1>1, <1>2, <1>3 DEF EdgeNames

\* The bend of a stroke inside its rectangle: as it is painted for radius r, and
\* as it is asked for.
Stroked(r, w, h, lw) ==
    Greatest(0, Least(2 * r - lw, 2 * Least((w - lw) \div 2, (h - lw) \div 2)))

HalfWay(r, w, h, lw) == Greatest(0, 2 * Greatest(0, Least(r, Least(w, h) \div 2)) - lw)

LEMMA BendClamp ==
    ASSUME NEW r \in Int, NEW w \in Int, NEW h \in Int, NEW lw \in Int,
           r <= 255 \/ Least(w, h) <= 511, 0 < lw, lw <= 255, lw < Least(w, h),
           lw % 2 = 0 \/ 2 * r < Least(w, h)
    PROVE  Stroked(Clamp(0, 255, r), w, h, lw) = HalfWay(r, w, h, lw)
BY DEF Stroked, HalfWay, Clamp, Least, Greatest

LEMMA BorderPainted ==
    ASSUME NEW t \in BorderTasks, Evaluate(t)
    PROVE  /\ Dispatch(t).op = "BORDER" /\ Dispatch(t).f \in BorderFields
           /\ Paintable(t) => Agrees(t, Paint("BORDER", Dispatch(t).f))
<1> DEFINE a == Area(t.area)
           lw == Least(255, t.width)
           f == [rect |-> Rect(t.area), argb |-> Argb(t),
                 width |-> Clamp(1, 255, t.width),
                 radius |-> Clamp(0, 255, t.radius), side |-> t.side % 256]
           edges == {e \in DOMAIN SideBit : (t.side \div SideBit[e]) % 2 = 1}
<1>1. /\ t.type = "BORDER" /\ t.opa \in Byte /\ t.d_opa \in Byte /\ t.color \in RGB
      /\ t.area \in Areas /\ t.radius \in Int /\ t.width \in Int /\ t.side \in Byte
  BY DEF BorderTasks
<1>2. t.width > 0 /\ t.side # 0
  BY <1>1 DEF Evaluate, BorderIsSimple
<1>3. Dispatch(t) = [op |-> "BORDER", f |-> f]
  BY <1>1 DEF Dispatch
<1>4. /\ Rect(t.area) \in Rects /\ a.w \in Int /\ a.h \in Int
      /\ InReach(a) => Rect(t.area) = a
  BY <1>1, RectFacts
<1>5. t.side % 256 = t.side
  BY <1>1, ByteInt, ByteMod
<1>6. f \in BorderFields
  BY <1>1, <1>4, <1>5, ArgbFacts, ClampByte DEF BorderFields
<1>7. ASSUME Paintable(t)
      PROVE  Agrees(t, Paint("BORDER", f))
  <2>1. InReach(a) /\ (t.side = 15 => lw < Least(a.w, a.h))
    BY <1>1, <1>7 DEF Paintable, ShortSide
  <2>2. Asked(t) = [rect |-> a, css |-> Color(t), width |-> t.width, edges |-> edges,
                    bend |-> Bent(t)]
    BY <1>1 DEF Asked
  <2>3. Paint("BORDER", f) = [rect |-> f.rect, css |-> Css(f.argb),
                              width |-> Greatest(1, f.width),
                              edges |-> Edges(f, Greatest(1, f.width)),
                              bend |-> Bend(f, Greatest(1, f.width))]
    <3> HIDE DEF f
    <3> QED BY DEF Paint
  <2>4. /\ f.rect = a /\ f.argb = Argb(t) /\ f.width = Clamp(1, 255, t.width)
        /\ f.radius = Clamp(0, 255, t.radius) /\ f.side = t.side
    BY <1>4, <1>5, <2>1
  <2>5. Greatest(1, f.width) = lw
    BY <1>1, <1>2, <2>4, WidthClamp
  <2>6. /\ lw \in Int /\ 0 < lw /\ lw <= 255
        /\ t.width <= 255 => lw = t.width
    BY <1>1, <1>2 DEF Least
  <2>7. Css(Argb(t)) = Color(t)
    BY <1>1, ArgbFacts
  <2> HIDE DEF f, lw
  <2>8. Edges(f, lw) = edges
    <3>1. edges = {e \in EdgeNames :
                     \/ e = "bottom" /\ t.side % 2 = 1
                     \/ e = "top"    /\ (t.side \div 2) % 2 = 1
                     \/ e = "left"   /\ (t.side \div 4) % 2 = 1
                     \/ e = "right"  /\ (t.side \div 8) % 2 = 1}
      BY <1>1, SideEdges
    <3> HIDE DEF edges, a
    <3>2. CASE t.side = 15
      <4>1. a.w > lw /\ a.h > lw
        BY <1>4, <2>1, <2>6, <3>2 DEF Least
      <4>2. Edges(f, lw) = EdgeNames
        BY <2>4, <3>2, <4>1 DEF Edges, EdgeNames
      <4>3. edges = EdgeNames
        <5>1. 15 % 2 = 1 /\ (15 \div 2) % 2 = 1 /\ (15 \div 4) % 2 = 1 /\ (15 \div 8) % 2 = 1
          OBVIOUS
        <5> QED BY <3>1, <3>2, <5>1 DEF EdgeNames
      <4> QED BY <4>2, <4>3
    <3>3. CASE t.side # 15
      BY <1>2, <2>4, <3>1, <3>3 DEF Edges, EdgeNames
    <3> QED BY <3>2, <3>3
  <2>9. ASSUME t.width <= 255, BendsAsAsked(t)
        PROVE  Bend(f, lw) = Bent(t)
    <3>1. Bent(t) = HalfWay(t.radius, a.w, a.h, lw)
      <4>1. Bent(t) = Greatest(0, 2 * Greatest(0, Least(t.radius, Least(a.w, a.h) \div 2))
                                    - t.width)
        BY DEF Bent, Rounding, ShortSide
      <4>2. t.width = lw
        BY <2>6, <2>9
      <4> HIDE DEF a
      <4> QED BY <4>1, <4>2, Zenon DEF HalfWay
    <3>2. CASE t.side = 15
      <4>1. Bend(f, lw) = Stroked(Clamp(0, 255, t.radius), a.w, a.h, lw)
        BY <2>4, <3>2 DEF Bend, Stroked
      <4>2. /\ t.radius \in Int /\ a.w \in Int /\ a.h \in Int
            /\ t.radius <= 255 \/ Least(a.w, a.h) <= 511
            /\ lw < Least(a.w, a.h)
            /\ lw % 2 = 0 \/ 2 * t.radius < Least(a.w, a.h)
        BY <1>1, <1>4, <2>1, <2>6, <2>9, <3>2 DEF BendsAsAsked, Round, ShortSide
      <4>3. Stroked(Clamp(0, 255, t.radius), a.w, a.h, lw)
              = HalfWay(t.radius, a.w, a.h, lw)
        BY <2>6, <4>2, BendClamp
      <4> QED BY <3>1, <4>1, <4>3
    <3>3. CASE t.side # 15
      BY <1>2, <2>4, <2>9, <3>3 DEF Bend, BendsAsAsked
    <3> QED BY <3>2, <3>3
  <2>10. Departures(t) = (IF t.width <= 255 THEN {} ELSE {"width", "bend"})
                           \cup (IF BendsAsAsked(t) THEN {} ELSE {"bend"})
    BY <1>1 DEF Departures
  <2> HIDE DEF edges, a
  <2>11. Paint("BORDER", f) = [rect |-> a, css |-> Color(t), width |-> lw,
                               edges |-> edges, bend |-> Bend(f, lw)]
    BY <2>3, <2>4, <2>5, <2>7, <2>8
  <2> QED BY <2>2, <2>6, <2>9, <2>10, <2>11 DEF Agrees
<1> QED BY <1>3, <1>6, <1>7

\* A dash clamped to a byte is as positive as it was, and a small one is kept.
LEMMA DashClamp ==
    ASSUME NEW v \in Int
    PROVE  /\ Clamp(0, 255, v) > 0 <=> v > 0
           /\ v > 0 /\ v <= 255 => Clamp(0, 255, v) = v
           /\ Clamp(0, 255, v) = 0 <=> v <= 0
BY DEF Clamp, Least, Greatest

LEMMA LinePainted ==
    ASSUME NEW t \in LineTasks, Evaluate(t)
    PROVE  LET c == Dispatch(t)
           IN  /\ \/ c.op = "LINE" /\ c.f \in LineFields
                  \/ c.op = "LINE_EX" /\ c.f \in LineExFields
               /\ Paintable(t) => Agrees(t, Paint(c.op, c.f))
<1> DEFINE dw == Clamp(0, 255, t.dash_width)
           dg == Clamp(0, 255, t.dash_gap)
           caps == (IF t.round_start THEN 1 ELSE 0) + (IF t.round_end THEN 2 ELSE 0)
           f == [ends |-> Ends(t), argb |-> Argb(t), width |-> Clamp(1, 255, t.width)]
           g == [ends |-> Ends(t), argb |-> Argb(t), width |-> Clamp(1, 255, t.width),
                 dash_width |-> dw, dash_gap |-> dg, cap_bits |-> caps]
           ends == [x1 |-> t.p1.x, y1 |-> t.p1.y, x2 |-> t.p2.x, y2 |-> t.p2.y]
           lw == Least(255, t.width)
           dash == IF t.dash_width > 0 /\ t.dash_gap > 0
                   THEN <<t.dash_width, t.dash_gap>> ELSE <<>>
           painted(d, r) == [ends |-> ends, css |-> Color(t), width |-> lw, dash |-> d,
                             round_start |-> r, round_end |-> r]
<1>1. /\ t.type = "LINE" /\ t.opa \in Byte /\ t.d_opa \in Byte /\ t.color \in RGB
      /\ t.p1 \in Points /\ t.p2 \in Points /\ t.width \in Int
      /\ t.dash_width \in Int /\ t.dash_gap \in Int
      /\ t.round_start \in BOOLEAN /\ t.round_end \in BOOLEAN
  BY DEF LineTasks
<1>2. t.width > 0
  BY <1>1 DEF Evaluate, LineIsSimple
<1>3. Dispatch(t) = IF dw = 0 /\ dg = 0 /\ caps = 0 THEN [op |-> "LINE", f |-> f]
                    ELSE [op |-> "LINE_EX", f |-> g]
  BY <1>1 DEF Dispatch, LineCmd
<1>4. /\ caps \in Byte /\ (caps = 0 <=> caps % 4 = 0)
      /\ caps = 0 <=> ~(t.round_start \/ t.round_end)
  BY <1>1 DEF Byte
<1>5. /\ dw \in Byte /\ dg \in Byte /\ Clamp(1, 255, t.width) \in Byte
      /\ Greatest(1, Clamp(1, 255, t.width)) = lw
      /\ t.width <= 255 => lw = t.width
  <2>1. t.width <= 255 => lw = t.width
    BY <1>1 DEF Least
  <2> QED BY <1>1, <1>2, <2>1, ClampByte, WidthClamp
<1>6. Argb(t) \in Word /\ Css(Argb(t)) = Color(t)
  BY <1>1, ArgbFacts
<1>7. Ends(t) \in Lines /\ (Paintable(t) => Ends(t) = ends)
  <2>1. t.p1.x \in Int /\ t.p1.y \in Int /\ t.p2.x \in Int /\ t.p2.y \in Int
    BY <1>1 DEF Points
  <2>2. Ends(t) \in Lines
    BY <2>1, Int16Fits DEF Ends, Lines, I16
  <2>3. ASSUME Paintable(t) PROVE Ends(t) = ends
    <3>1. Fits16(t.p1.x) /\ Fits16(t.p1.y) /\ Fits16(t.p2.x) /\ Fits16(t.p2.y)
      BY <1>1, <2>3 DEF Paintable, PointInReach
    <3> QED BY <2>1, <3>1, Int16Fits DEF Ends
  <2> QED BY <2>2, <2>3
<1>8. f \in LineFields /\ g \in LineExFields
  <2> HIDE DEF caps, dw, dg
  <2> QED BY <1>4, <1>5, <1>6, <1>7 DEF LineFields, LineExFields
<1>9. Asked(t) = [ends |-> ends, css |-> Color(t), width |-> t.width, dash |-> dash,
                  round_start |-> t.round_start, round_end |-> t.round_end]
  BY <1>1 DEF Asked
<1>10. Departures(t) =
         (IF t.width <= 255 THEN {} ELSE {"width"})
           \cup (IF t.dash_width <= 255 /\ t.dash_gap <= 255 THEN {} ELSE {"dash"})
           \cup (IF t.round_start = t.round_end THEN {} ELSE {"round_start", "round_end"})
  BY <1>1 DEF Departures
<1>11. ASSUME NEW d, NEW r \in BOOLEAN,
              t.dash_width <= 255 /\ t.dash_gap <= 255 => d = dash,
              t.round_start = t.round_end => r = t.round_start
       PROVE  Agrees(t, painted(d, r))
  <2> HIDE DEF ends, lw, dash
  <2> QED BY <1>1, <1>5, <1>9, <1>10, <1>11 DEF Agrees
<1>12. ASSUME Paintable(t), dw = 0, dg = 0, caps = 0
       PROVE  Agrees(t, Paint("LINE", f))
  <2>1. Paint("LINE", f) = [ends |-> f.ends, css |-> Css(f.argb),
                            width |-> Greatest(1, f.width), dash |-> <<>>,
                            round_start |-> FALSE, round_end |-> FALSE]
    <3> HIDE DEF f
    <3> QED BY DEF Paint
  <2>2. dash = <<>>
    BY <1>1, <1>12, DashClamp
  <2>3. t.round_start = FALSE
    BY <1>1, <1>4, <1>12
  <2>4. Paint("LINE", f) = painted(<<>>, FALSE)
    BY <1>5, <1>6, <1>7, <1>12, <2>1
  <2> HIDE DEF dash, painted
  <2> QED BY <1>11, <2>2, <2>3, <2>4
<1>13. ASSUME Paintable(t)
       PROVE  Agrees(t, Paint("LINE_EX", g))
  <2> DEFINE d == IF dw > 0 /\ dg > 0 THEN <<dw, dg>> ELSE <<>>
             r == caps % 4 # 0
  <2>1. Paint("LINE_EX", g) =
          [ends |-> g.ends, css |-> Css(g.argb), width |-> Greatest(1, g.width),
           dash |-> IF g.dash_width > 0 /\ g.dash_gap > 0
                    THEN <<g.dash_width, g.dash_gap>> ELSE <<>>,
           round_start |-> g.cap_bits % 4 # 0, round_end |-> g.cap_bits % 4 # 0]
    <3> HIDE DEF g
    <3> QED BY DEF Paint
  <2>2. t.dash_width <= 255 /\ t.dash_gap <= 255 => d = dash
    BY <1>1, DashClamp
  <2>3. r \in BOOLEAN /\ (t.round_start = t.round_end => r = t.round_start)
    BY <1>1, <1>4
  <2>4. Paint("LINE_EX", g) = painted(d, r)
    <3> HIDE DEF dw, dg, caps
    <3> QED BY <1>5, <1>6, <1>7, <1>13, <2>1
  <2> HIDE DEF dash, painted, d, r
  <2> QED BY <1>11, <2>2, <2>3, <2>4
<1> HIDE DEF f, g, caps, dw, dg
<1> QED BY <1>3, <1>8, <1>12, <1>13

----------------------------------------------------------------------------
(* Images *)

LEMMA PosMul ==
    ASSUME NEW a \in Nat, NEW b \in Nat, NEW c \in Nat, a <= b
    PROVE  a * c \in Nat /\ b * c \in Nat /\ a * c <= b * c
OBVIOUS

\* Row and column of a pixel.
LEMMA RowColumn ==
    ASSUME NEW w \in Nat, NEW y \in Nat, NEW x \in Nat, x < w
    PROVE  (y * w + x) \div w = y /\ (y * w + x) % w = x
OBVIOUS

LEMMA PixelInside ==
    ASSUME NEW w \in Nat, NEW h \in Nat, NEW n \in Nat, n < w * h
    PROVE  /\ w > 0
           /\ n \div w \in 0..h-1
           /\ n % w \in 0..w-1
OBVIOUS

\* The bytes of a pixel are in the image.
LEMMA PixelStored ==
    ASSUME NEW img \in ImageData, NEW y \in 0..img.h-1, NEW x \in 0..img.w-1,
           NEW k \in 1..4
    PROVE  /\ y * img.stride + 4 * x + k \in 1..Len(img.data)
           /\ img.data[y * img.stride + 4 * x + k] \in Byte
<1> DEFINE row == y * img.stride
           top == (img.h - 1) * img.stride
<1>1. /\ img.w \in Nat /\ img.h \in Nat /\ img.stride \in Nat
      /\ img.data \in Seq(Byte) /\ Len(img.data) \in Nat
      /\ img.h > 0 => top + 4 * img.w <= Len(img.data)
  BY DEF ImageData, U16, Bytes
<1>2. /\ y \in Nat /\ img.h - 1 \in Nat /\ y <= img.h - 1 /\ x \in Nat /\ x + 1 <= img.w
      /\ img.h > 0
  BY <1>1
<1>3. row \in Nat /\ top \in Nat /\ row <= top
  BY <1>1, <1>2, PosMul
<1> HIDE DEF row, top
<1>4. row + 4 * x + k \in 1..Len(img.data)
  <2>1. /\ x \in Nat /\ k \in Nat /\ 1 <= k /\ 4 * x + k <= 4 * img.w
        /\ Len(img.data) \in Nat /\ img.w \in Nat
    BY <1>1, <1>2
  <2>2. top + 4 * img.w <= Len(img.data)
    BY <1>1, <1>2
  <2> QED BY <1>3, <2>1, <2>2
<1>5. img.data[row + 4 * x + k] \in Byte
  BY <1>1, <1>4
<1> QED BY <1>4, <1>5, Zenon DEF row

\* The byte of color c of a pixel, as it is uploaded.
Sample(img, y, x, c) ==
    LET o == y * img.stride + 4 * x
    IN  IF c = 3 THEN (IF img.cf = "ARGB" THEN img.data[o + 4] ELSE 255)
        ELSE img.data[o + 3 - c]

LEMMA BlitAt ==
    ASSUME NEW img \in ImageData, NEW n \in Nat, n < img.w * img.h, NEW c \in 0..3
    PROVE  /\ 4 * n + c + 1 \in DOMAIN Blit(img)
           /\ Blit(img)[4 * n + c + 1] = Sample(img, n \div img.w, n % img.w, c)
<1> DEFINE m == img.w * img.h
           k == 4 * n + c + 1
<1>1. img.w \in Nat /\ img.h \in Nat
  BY DEF ImageData, U16
<1>2. m \in Nat /\ 4 * img.w * img.h = 4 * m
  BY <1>1
<1> HIDE DEF m
<1>3. k \in 1..4 * m
  BY <1>2 DEF m
<1>4. (k - 1) % 4 = c /\ (k - 1) \div 4 = n
  OBVIOUS
<1> HIDE DEF k
<1>5. k \in 1..4 * img.w * img.h
  BY <1>2, <1>3
<1>6. Blit(img)[k] = Sample(img, n \div img.w, n % img.w, c)
  BY <1>4, <1>5 DEF Blit, Sample
<1>7. DOMAIN Blit(img) = 1..4 * img.w * img.h
  BY DEF Blit
<1> QED BY <1>5, <1>6, <1>7 DEF k

LEMMA BlitBlock ==
    ASSUME NEW img \in ImageData
    PROVE  Block(Blit(img), 4 * img.w * img.h)
<1> DEFINE m == img.w * img.h
<1>1. img.w \in Nat /\ img.h \in Nat
  BY DEF ImageData, U16
<1>2. m \in Nat /\ 4 * img.w * img.h = 4 * m
  BY <1>1
<1>3. ASSUME NEW k \in 1..4 * m
      PROVE  Blit(img)[k] \in Byte
  <2> DEFINE n == (k - 1) \div 4
             c == (k - 1) % 4
             y == n \div img.w
             x == n % img.w
  <2>1. n \in Nat /\ c \in 0..3 /\ n < m /\ k = 4 * n + c + 1
    <3> HIDE DEF m
    <3> QED BY <1>2, <1>3
  <2> HIDE DEF n, c
  <2>2. y \in 0..img.h-1 /\ x \in 0..img.w-1
    BY <1>1, <2>1, PixelInside
  <2>3. Blit(img)[k] = Sample(img, y, x, c)
    BY <2>1, BlitAt
  <2> HIDE DEF y, x
  <2>4. CASE c = 3
    <3>1. img.data[y * img.stride + 4 * x + 4] \in Byte
      BY <2>2, PixelStored
    <3>2. 255 \in Byte
      BY DEF Byte
    <3> QED BY <2>3, <2>4, <3>1, <3>2 DEF Sample
  <2>5. CASE c # 3
    <3>1. 3 - c \in 1..4 /\ y * img.stride + 4 * x + (3 - c) = y * img.stride + 4 * x + 3 - c
      BY <1>1, <2>1, <2>2, <2>5 DEF ImageData
    <3>2. img.data[y * img.stride + 4 * x + (3 - c)] \in Byte
      BY <2>2, <3>1, PixelStored
    <3> QED BY <2>3, <2>5, <3>1, <3>2 DEF Sample
  <2> QED BY <2>4, <2>5
<1>4. Blit(img) = [k \in 1..4 * m |-> Blit(img)[k]]
  BY <1>2 DEF Blit
<1>5. Blit(img) \in Seq(Byte) /\ Len(Blit(img)) = 4 * m
  <2> HIDE DEF m
  <2>1. 4 * m \in Nat
    BY <1>2
  <2>2. Blit(img) \in [1..4 * m -> Byte]
    BY <1>3, <1>4
  <2> QED BY <2>1, <2>2, LenProperties, SeqDef
<1> QED BY <1>2, <1>5 DEF Block, Bytes

\* The header and the pixels of an upload, read again.
LEMMA BlobTrip ==
    ASSUME NEW img \in ImageData
    PROVE  /\ BlobBody(img) \in Bytes
           /\ Decode("BLOB_UPLOAD", BlobBody(img)) =
                [id |-> img.blob_id, w |-> img.w, h |-> img.h, fmt |-> 1,
                 bytes |-> Blit(img)]
<1> DEFINE w == Wr16(img.w)
           h == Wr16(img.h)
           z == <<1>>
           b == Blit(img)
           n == 4 * img.w * img.h
           iw == img.blob_id \o w
           ih == iw \o h
           iz == ih \o z
           s == iz \o b
<1>1. /\ img.blob_id \in Word
      /\ img.w \in Nat /\ img.w < 65536 /\ img.h \in Nat /\ img.h < 65536
  BY DEF ImageData, U16, Word
<1>2. n \in Nat /\ Block(b, n)
  BY <1>1, BlitBlock
<1>3. /\ Block(w, 2) /\ \A p : Holds(p, 4, w) => GetUint16(p, 4) = img.w
      /\ Block(h, 2) /\ \A p : Holds(p, 6, h) => GetUint16(p, 6) = img.h
  BY <1>1, Wr16Bytes, Wr16Read DEF Block
<1>4. Block(z, 1) /\ \A p : Holds(p, 8, z) => GetUint8(p, 8) = 1
  <2>1. 1 \in Byte
    BY DEF Byte
  <2>2. ASSUME NEW p, Holds(p, 8, z) PROVE GetUint8(p, 8) = 1
    BY <2>2, Holds1 DEF GetUint8
  <2> QED BY <2>1, <2>2, Tail1
<1>5. BlobBody(img) = s
  BY DEF BlobBody, BlobHeader
<1>6. Block(img.blob_id, 4)
  BY <1>1, WordBlock
<1> HIDE DEF w, h, z, b, n
<1>7. /\ Block(iw, 6)
      /\ \A p : Holds(p, 0, iw) => Holds(p, 0, img.blob_id) /\ Holds(p, 4, w)
  <2>1. Block(iw, 4 + 2)
    BY <1>3, <1>6, CatBlock
  <2> QED BY <1>3, <1>6, <2>1, CatBlock
<1> HIDE DEF iw
<1>8. Block(ih, 8) /\ \A p : Holds(p, 0, ih) => Holds(p, 0, iw) /\ Holds(p, 6, h)
  <2>1. Block(ih, 6 + 2)
    BY <1>3, <1>7, CatBlock
  <2> QED BY <1>3, <1>7, <2>1, CatBlock
<1> HIDE DEF ih
<1>9. Block(iz, 9) /\ \A p : Holds(p, 0, iz) => Holds(p, 0, ih) /\ Holds(p, 8, z)
  <2>1. Block(iz, 8 + 1)
    BY <1>4, <1>8, CatBlock
  <2> QED BY <1>4, <1>8, <2>1, CatBlock
<1> HIDE DEF iz
<1>10. Block(s, 9 + n) /\ \A p : Holds(p, 0, s) => Holds(p, 0, iz) /\ Holds(p, 9, b)
  BY <1>2, <1>9, CatBlock
<1> HIDE DEF s
<1>11. /\ Holds(s, 0, img.blob_id) /\ Holds(s, 4, w) /\ Holds(s, 6, h) /\ Holds(s, 8, z)
       /\ Holds(s, 9, b)
  BY <1>7, <1>8, <1>9, <1>10, BlockHolds
<1>12. /\ GetUint32(s, 0) = img.blob_id /\ GetUint16(s, 4) = img.w
       /\ GetUint16(s, 6) = img.h /\ GetUint8(s, 8) = 1
  BY <1>1, <1>3, <1>4, <1>11, WordBlock
<1>13. SubSeq(s, 10, Len(s)) = b
  <2>1. s \in Seq(Byte) /\ Len(s) = 9 + n /\ b \in Seq(Byte) /\ Len(b) = n
    BY <1>2, <1>10 DEF Block, Bytes
  <2>2. /\ SubSeq(s, 10, 9 + n) \in Seq(Byte) /\ Len(SubSeq(s, 10, 9 + n)) = n
        /\ \A i \in 1..n : SubSeq(s, 10, 9 + n)[i] = s[9 + i]
    BY <1>2, <2>1
  <2>3. \A i \in 1..n : s[9 + i] = b[i]
    BY <1>11, <2>1 DEF Holds
  <2> QED BY <2>1, <2>2, <2>3
<1>14. Decode("BLOB_UPLOAD", s) =
         [id |-> GetUint32(s, 0), w |-> GetUint16(s, 4), h |-> GetUint16(s, 6),
          fmt |-> GetUint8(s, 8), bytes |-> SubSeq(s, 10, Len(s))]
  BY DEF Decode
<1> QED BY <1>5, <1>10, <1>12, <1>13, <1>14 DEF Block, b

\* What the viewer keeps of an upload is the image.
LEMMA BlobKept ==
    ASSUME NEW img \in ImageData
    PROVE  Store(Decode("BLOB_UPLOAD", BlobBody(img))) = Kept(img)
<1> DEFINE b == Blit(img)
           f == [id |-> img.blob_id, w |-> img.w, h |-> img.h, fmt |-> 1, bytes |-> b]
           o(p) == 4 * ((p[1] - 1) * img.w + p[2] - 1)
           d(p) == (p[1] - 1) * img.stride + 4 * (p[2] - 1)
           Sent(p) == [r |-> b[o(p) + 1], g |-> b[o(p) + 2],
                       b |-> b[o(p) + 3], a |-> b[o(p) + 4]]
           Pixel(p) == [r |-> img.data[d(p) + 3], g |-> img.data[d(p) + 2],
                        b |-> img.data[d(p) + 1],
                        a |-> IF img.cf = "XRGB" THEN 255 ELSE img.data[d(p) + 4]]
           P == (1..img.h) \X (1..img.w)
<1>1. /\ img.w \in Nat /\ img.h \in Nat /\ img.stride \in Nat
      /\ img.cf \in {"ARGB", "XRGB"}
  BY DEF ImageData, U16
<1>2. Decode("BLOB_UPLOAD", BlobBody(img)) = f
  BY BlobTrip
<1>3. Len(b) = img.w * img.h * 4
  <2>1. Len(b) = 4 * img.w * img.h
    BY BlitBlock DEF Block
  <2>2. 4 * img.w * img.h = img.w * img.h * 4
    BY <1>1
  <2> QED BY <2>1, <2>2
<1>4. Kept(img) = [blob |-> img.blob_id, pixels |-> [p \in P |-> Pixel(p)]]
  BY DEF Kept
<1>5. Store(f) = [blob |-> img.blob_id, pixels |-> [p \in P |-> Sent(p)]]
  <2> HIDE DEF b
  <2> QED BY <1>3 DEF Store
<1>6. ASSUME NEW p \in P
      PROVE  Sent(p) = Pixel(p)
  <2> DEFINE y == p[1] - 1
             x == p[2] - 1
             n == y * img.w + x
  <2>1. y \in 0..img.h-1 /\ x \in 0..img.w-1
    BY <1>1
  <2> HIDE DEF y, x
  <2>2. n \in Nat /\ n < img.w * img.h
    <3> DEFINE row == y * img.w
               top == (img.h - 1) * img.w
    <3>1. y \in Nat /\ x \in Nat /\ img.h - 1 \in Nat /\ y <= img.h - 1 /\ x < img.w
      BY <1>1, <2>1
    <3>2. row \in Nat /\ top \in Nat /\ row <= top
      BY <1>1, <3>1, PosMul
    <3>3. img.w * img.h = top + img.w
      BY <1>1
    <3> HIDE DEF row, top
    <3>4. row + x \in Nat /\ row + x < top + img.w
      BY <1>1, <3>1, <3>2
    <3> QED BY <3>3, <3>4 DEF row
  <2>3. n \div img.w = y /\ n % img.w = x
    <3>1. y \in Nat /\ x \in Nat /\ x < img.w
      BY <1>1, <2>1
    <3> QED BY <1>1, <3>1, RowColumn, Zenon DEF n
  <2>4. o(p) = 4 * n
    BY <1>1, <2>1 DEF y, x
  <2> HIDE DEF n
  <2>5. /\ b[4 * n + 0 + 1] = Sample(img, y, x, 0)
        /\ b[4 * n + 1 + 1] = Sample(img, y, x, 1)
        /\ b[4 * n + 2 + 1] = Sample(img, y, x, 2)
        /\ b[4 * n + 3 + 1] = Sample(img, y, x, 3)
    <3> HIDE DEF b
    <3>1. \A c \in 0..3 : b[4 * n + c + 1] = Sample(img, y, x, c)
      BY <2>2, <2>3, BlitAt DEF b
    <3>2. 0 \in 0..3 /\ 1 \in 0..3 /\ 2 \in 0..3 /\ 3 \in 0..3
      OBVIOUS
    <3> QED BY <3>1, <3>2
  <2>6. /\ 4 * n + 0 + 1 = 4 * n + 1 /\ 4 * n + 1 + 1 = 4 * n + 2
        /\ 4 * n + 2 + 1 = 4 * n + 3 /\ 4 * n + 3 + 1 = 4 * n + 4
    BY <2>2
  <2>7. d(p) = y * img.stride + 4 * x
    BY DEF y, x
  <2>8. d(p) \in Int
    BY <1>1, <2>1, <2>7
  <2>9. /\ Sample(img, y, x, 0) = img.data[d(p) + 3]
        /\ Sample(img, y, x, 1) = img.data[d(p) + 2]
        /\ Sample(img, y, x, 2) = img.data[d(p) + 1]
        /\ Sample(img, y, x, 3) = IF img.cf = "XRGB" THEN 255 ELSE img.data[d(p) + 4]
    <3> HIDE DEF d
    <3>1. /\ d(p) + 3 - 0 = d(p) + 3 /\ d(p) + 3 - 1 = d(p) + 2 /\ d(p) + 3 - 2 = d(p) + 1
      BY <2>8
    <3> QED BY <1>1, <2>7, <3>1 DEF Sample
  <2> HIDE DEF d, o, b
  <2> QED BY <2>4, <2>5, <2>6, <2>9
<1> HIDE DEF Sent, Pixel, P
<1>7. [p \in P |-> Sent(p)] = [p \in P |-> Pixel(p)]
  BY <1>6
<1> QED BY <1>2, <1>4, <1>5, <1>7

----------------------------------------------------------------------------
(* The invariant *)

Ops == DrawOps \cup {"BEGIN_FRAME", "END_FRAME", "RAW", "BLOB_UPLOAD"}

\* A body of a command, and the length in its header.
Carries(op, len, body) == body \in Bytes /\ (op \in DrawOps => Len(body) = len)

Cmds == {c \in CmdType : c.op \in DrawOps => Len(c.body) = c.len}

Encs == EncsOf(Cmds)

Asks == [op : Ops,
         fields : {Dispatch(t).f : t \in Tasks} \cup {BlobFields(img) : img \in Images}
                    \cup {NoBody},
         paint : {Expected(t) : t \in Tasks} \cup {Kept(img) : img \in Images}
                   \cup {NoBody}]

\* A command is the operation asked for, brings its fields and paints what it must.
Meets(op, body, ask) ==
    /\ op = ask.op
    /\ Fields(op, body) = ask.fields
    /\ Depicts(op, body, ask.paint)

\* Every command ends before the ones after it begin, and before pos.
Apart(cmds, pos) ==
    /\ \A k \in 1..Len(cmds) : cmds[k].off + CMD_HDR_SIZE + cmds[k].len <= pos
    /\ \A j, k \in 1..Len(cmds) :
         j < k => cmds[j].off + CMD_HDR_SIZE + cmds[j].len <= cmds[k].off

EncInv(e) ==
    /\ e \in Encs
    /\ e.pos <= Cap
    /\ e.cmd_count = Len(e.cmds)
    /\ Packed(e.cmds, e.pos)
    /\ Apart(e.cmds, e.pos)

\* In a frame that was begun each command has taken the bytes of its header at
\* least: as many commands as would make cmd_count wrap do not fit.
Begun(e) ==
    ~e.overflow =>
      /\ FRAME_HDR_SIZE + CMD_HDR_SIZE * Len(e.cmds) <= e.pos
      /\ e.cmds = <<>> => e.pos = FRAME_HDR_SIZE

\* The commands are what was asked for, in order.
Answers(cmds, asks) ==
    /\ asks \in Seq(Asks)
    /\ Len(cmds) = Len(asks)
    /\ \A k \in 1..Len(cmds) : Meets(cmds[k].op, cmds[k].body, asks[k])

\* A message that was sent.
Whole(f) ==
    /\ f.size \in Nat /\ f.count = Len(f.cmds) /\ f.count \in 0..CountMod-1
    /\ f.cmds \in Seq(Cmds) /\ f.cmds # <<>>
    /\ Packed(f.cmds, f.size)
    /\ Apart(f.cmds, f.size)
    /\ Answers(f.cmds, f.asked)

\* decodeFrame has read the first dec.i commands and stands before the next.
DecInv ==
    /\ dec \in [at : {"idle", "start", "cmd", "done"}, off : Nat, i : Nat,
                cmds : Seq(Cmds)]
    /\ dec.at # "idle" => Whole(frame)
    /\ dec.at = "start" => dec.i = 0 /\ dec.cmds = <<>>
    /\ dec.at \in {"cmd", "done"} =>
         /\ dec.i <= Len(frame.cmds)
         /\ Len(dec.cmds) = dec.i
         /\ \A k \in 1..dec.i : dec.cmds[k] = frame.cmds[k]
         /\ dec.off = IF dec.i = Len(frame.cmds) THEN frame.size
                      ELSE frame.cmds[dec.i + 1].off
    /\ dec.at = "done" => dec.i = Len(frame.cmds)

OpenInv ==
    enc.frame_open =>
      /\ Begun(enc)
      /\ ~enc.overflow => Answers(enc.cmds, asked)

FrameInv == frame = NoFrame \/ Whole(frame)

WireInv == EncInv(enc) /\ OpenInv /\ FrameInv /\ DecInv

----------------------------------------------------------------------------
(* Writing a command *)

\* The sizes, as numbers.
LEMMA Sizes ==
    /\ Cap \in Nat /\ CountMod \in Nat \ {0} /\ Cap <= 4 * CountMod
    /\ FRAME_HDR_SIZE = 4 /\ CMD_HDR_SIZE = 4 /\ BLOB_HDR_SIZE = 9
BY EncoderAssumption, CapAssumption
   DEF FRAME_HDR_SIZE, CMD_HDR_SIZE, BLOB_HDR_SIZE

LEMMA SmallMod ==
    ASSUME NEW a \in Nat, NEW m \in Nat \ {0}, a < m
    PROVE  a % m = a
OBVIOUS

LEMMA Further ==
    ASSUME NEW off \in Nat, NEW len \in Nat, NEW pos \in Nat, NEW n \in Nat,
           off + 4 + len <= pos
    PROVE  off + 4 + len <= pos + 4 + n
OBVIOUS

\* The commands after one was added.
LEMMA AddedCmds ==
    ASSUME NEW e \in Encs, NEW r, NEW op \in Ops, NEW len \in Nat, NEW body,
           Carries(op, len, body), Added(Cmds, r, e, op, len, body)
    PROVE  /\ Len(e.cmds) \in Nat /\ Len(r.cmds) = Len(e.cmds) + 1
           /\ \A k \in 1..Len(e.cmds) :
                /\ r.cmds[k] = e.cmds[k]
                /\ e.cmds[k].off \in Nat /\ e.cmds[k].len \in Nat
           /\ r.cmds[Len(e.cmds) + 1].op = op
           /\ r.cmds[Len(e.cmds) + 1].off = e.pos
           /\ r.cmds[Len(e.cmds) + 1].len = len
           /\ r.cmds[Len(e.cmds) + 1].body = body
<1> DEFINE c == [op |-> op, off |-> e.pos, len |-> len, body |-> body]
<1>1. c \in Cmds /\ e.cmds \in Seq(Cmds) /\ r.cmds = Append(e.cmds, c)
  BY DEF Added, Cmds, CmdType, Ops, Carries, Encs, EncsOf
<1>2. \A k \in 1..Len(e.cmds) : e.cmds[k] \in Cmds
  BY <1>1
<1>3. \A k \in 1..Len(e.cmds) : e.cmds[k].off \in Nat /\ e.cmds[k].len \in Nat
  BY <1>2 DEF Cmds, CmdType
<1>4. c.op = op /\ c.off = e.pos /\ c.len = len /\ c.body = body
  OBVIOUS
<1> HIDE DEF c
<1>5. /\ Len(e.cmds) \in Nat /\ Len(r.cmds) = Len(e.cmds) + 1
      /\ \A k \in 1..Len(e.cmds) : r.cmds[k] = e.cmds[k]
      /\ r.cmds[Len(e.cmds) + 1] = c
  BY <1>1
<1> QED BY <1>3, <1>5, <1>4

\* A command that fits leaves the layout right, and cmd_count below 2^16.
LEMMA AddedInv ==
    ASSUME NEW e, NEW r, NEW op \in Ops, NEW len \in Nat, NEW body, Carries(op, len, body),
           EncInv(e), Begun(e), ~e.overflow, Fits(e, len), Added(Cmds, r, e, op, len, body)
    PROVE  EncInv(r) /\ Begun(r)
<1> DEFINE n == Len(e.cmds)
<1>1. /\ e \in Encs /\ r \in Encs
      /\ e.pos \in Nat /\ r.pos = e.pos + 4 + len
      /\ e.cmd_count = n /\ r.cmd_count = (n + 1) % CountMod
      /\ r.overflow = FALSE
  BY Sizes DEF EncInv, Added, Encs, EncsOf
<1>2. /\ n \in Nat /\ Len(r.cmds) = n + 1
      /\ \A k \in 1..n : /\ r.cmds[k] = e.cmds[k]
                         /\ e.cmds[k].off \in Nat /\ e.cmds[k].len \in Nat
      /\ r.cmds[n + 1].off = e.pos /\ r.cmds[n + 1].len = len
  <2>1. /\ Len(e.cmds) \in Nat /\ Len(r.cmds) = Len(e.cmds) + 1
        /\ \A k \in 1..Len(e.cmds) :
             /\ r.cmds[k] = e.cmds[k]
             /\ e.cmds[k].off \in Nat /\ e.cmds[k].len \in Nat
        /\ r.cmds[Len(e.cmds) + 1].off = e.pos
        /\ r.cmds[Len(e.cmds) + 1].len = len
    <3>1. e \in Encs
      BY <1>1
    <3> HIDE DEF n
    <3>2. /\ Len(e.cmds) \in Nat /\ Len(r.cmds) = Len(e.cmds) + 1
          /\ r.cmds[Len(e.cmds) + 1].off = e.pos
          /\ r.cmds[Len(e.cmds) + 1].len = len
      BY <3>1, AddedCmds
    <3>3. ASSUME NEW k \in 1..Len(e.cmds)
          PROVE  /\ r.cmds[k] = e.cmds[k]
                 /\ e.cmds[k].off \in Nat /\ e.cmds[k].len \in Nat
      BY <3>1, AddedCmds
    <3> QED BY <3>2, <3>3
  <2> QED BY <2>1
<1>3. /\ \A k \in 1..n : e.cmds[k].off + 4 + e.cmds[k].len <= e.pos
      /\ \A j, k \in 1..n : j < k => e.cmds[j].off + 4 + e.cmds[j].len <= e.cmds[k].off
  BY Sizes DEF EncInv, Apart
<1>4. e.pos + 4 + len <= Cap
  BY Sizes DEF Fits
<1>5. 4 + 4 * n <= e.pos /\ (e.cmds = <<>> => e.pos = 4)
  BY Sizes DEF Begun
<1>6. Packed(e.cmds, e.pos) /\ e.cmds \in Seq(Cmds) /\ r.cmds \in Seq(Cmds)
  BY <1>1 DEF EncInv, Encs, EncsOf
<1> HIDE DEF n
<1>7. r.cmd_count = Len(r.cmds)
  <2>1. n + 1 < CountMod
    BY <1>1, <1>2, <1>4, <1>5, Sizes
  <2>2. n + 1 \in Nat /\ CountMod \in Nat \ {0}
    BY <1>2, Sizes
  <2>3. (n + 1) % CountMod = n + 1
    BY <2>1, <2>2, SmallMod
  <2> QED BY <1>1, <1>2, <2>3
<1>8. r.pos <= Cap
  BY <1>1, <1>4
<1>9. Apart(r.cmds, r.pos)
  <2>1. ASSUME NEW k \in 1..Len(r.cmds)
        PROVE  r.cmds[k].off + 4 + r.cmds[k].len <= r.pos
    <3>1. CASE k \in 1..n
      <4>1. /\ e.cmds[k].off \in Nat /\ e.cmds[k].len \in Nat
            /\ e.cmds[k].off + 4 + e.cmds[k].len <= e.pos
        BY <1>2, <1>3, <3>1
      <4>2. e.pos \in Nat /\ r.pos = e.pos + 4 + len
        BY <1>1
      <4>3. e.cmds[k].off + 4 + e.cmds[k].len <= r.pos
        <5>1. e.cmds[k].off + 4 + e.cmds[k].len <= e.pos + 4 + len
          BY <4>1, <4>2, Further
        <5> QED BY <4>2, <5>1
      <4>4. r.cmds[k] = e.cmds[k]
        BY <1>2, <3>1
      <4> QED BY <4>3, <4>4
    <3>2. CASE k = n + 1
      BY <1>1, <1>2, <3>2
    <3> QED BY <1>2, <2>1, <3>1, <3>2
  <2>2. ASSUME NEW j \in 1..Len(r.cmds), NEW k \in 1..Len(r.cmds), j < k
        PROVE  r.cmds[j].off + 4 + r.cmds[j].len <= r.cmds[k].off
    <3>1. j \in 1..n
      BY <1>2, <2>2
    <3>2. CASE k \in 1..n
      BY <1>2, <1>3, <2>2, <3>1, <3>2
    <3>3. CASE k = n + 1
      BY <1>2, <1>3, <3>1, <3>3
    <3> QED BY <1>2, <2>2, <3>2, <3>3
  <2> QED BY <2>1, <2>2, Sizes DEF Apart
<1>10. Packed(r.cmds, r.pos)
  <2>1. r.cmds # <<>>
    BY <1>2, <1>6
  <2>2. r.cmds[1].off = 4
    <3>1. CASE n = 0
      <4>1. e.cmds = <<>>
        BY <1>6, <3>1 DEF n
      <4> QED BY <1>2, <1>5, <3>1, <4>1
    <3>2. CASE n # 0
      <4>1. e.cmds # <<>> /\ 1 \in 1..n
        BY <1>2, <3>2 DEF n
      <4>2. e.cmds[1].off = 4
        BY <1>6, <4>1, Sizes DEF Packed
      <4> QED BY <1>2, <4>1, <4>2
    <3> QED BY <3>1, <3>2
  <2>3. ASSUME NEW k \in 1..Len(r.cmds) - 1
        PROVE  r.cmds[k+1].off = r.cmds[k].off + 4 + r.cmds[k].len
    <3>1. k \in 1..n /\ e.cmds # <<>>
      BY <1>2, <2>3 DEF n
    <3>2. CASE k = n
      <4>1. e.pos = e.cmds[n].off + 4 + e.cmds[n].len
        BY <1>6, <3>1, Sizes DEF Packed, n
      <4> QED BY <1>2, <3>1, <3>2, <4>1
    <3>3. CASE k # n
      <4>1. k \in 1..n-1 /\ k + 1 \in 1..n
        BY <1>2, <3>1, <3>3
      <4>2. e.cmds[k+1].off = e.cmds[k].off + 4 + e.cmds[k].len
        BY <1>6, <3>1, <4>1, Sizes DEF Packed, n
      <4> QED BY <1>2, <3>1, <4>1, <4>2
    <3> QED BY <3>2, <3>3
  <2>4. r.pos = r.cmds[Len(r.cmds)].off + 4 + r.cmds[Len(r.cmds)].len
    BY <1>1, <1>2
  <2> QED BY <2>2, <2>3, <2>4, Sizes DEF Packed
<1>11. Begun(r)
  <2>1. r.cmds # <<>>
    BY <1>2, <1>6
  <2>2. 4 + 4 * Len(r.cmds) <= r.pos
    BY <1>1, <1>2, <1>5
  <2> QED BY <2>1, <2>2, Sizes DEF Begun
<1> QED BY <1>1, <1>7, <1>8, <1>9, <1>10, <1>11 DEF EncInv

LEMMA FullInv ==
    ASSUME NEW e, NEW r, EncInv(e), Full(Cmds, r, e)
    PROVE  EncInv(r) /\ Begun(r)
BY DEF EncInv, Full, Begun, Encs

LEMMA AnswersMore ==
    ASSUME NEW e \in Encs, NEW r, NEW asks, Answers(e.cmds, asks),
           NEW op \in Ops, NEW len \in Nat, NEW body, Carries(op, len, body),
           NEW ask \in Asks, Meets(op, body, ask),
           Added(Cmds, r, e, op, len, body)
    PROVE  Answers(r.cmds, Append(asks, ask))
<1> DEFINE n == Len(e.cmds)
           more == Append(asks, ask)
<1>1. /\ n \in Nat /\ Len(r.cmds) = n + 1
      /\ \A k \in 1..n : r.cmds[k] = e.cmds[k]
      /\ r.cmds[n + 1].op = op /\ r.cmds[n + 1].body = body
  BY AddedCmds
<1>2. /\ asks \in Seq(Asks) /\ n = Len(asks)
      /\ \A k \in 1..n : Meets(e.cmds[k].op, e.cmds[k].body, asks[k])
  BY DEF Answers
<1> HIDE DEF n
<1>3. /\ more \in Seq(Asks) /\ Len(more) = n + 1
      /\ \A k \in 1..n : more[k] = asks[k]
      /\ more[n + 1] = ask
  BY <1>1, <1>2
<1> HIDE DEF more
<1>4. ASSUME NEW k \in 1..Len(r.cmds)
      PROVE  Meets(r.cmds[k].op, r.cmds[k].body, more[k])
  <2>1. CASE k \in 1..n
    BY <1>1, <1>2, <1>3, <2>1
  <2>2. CASE k = n + 1
    BY <1>1, <1>3, <2>2
  <2> QED BY <1>1, <1>4, <2>1, <2>2
<1>5. Answers(r.cmds, more)
  BY <1>1, <1>3, <1>4 DEF Answers
<1> QED BY <1>5 DEF more

\* One more command asked for, whether it fits or not.
LEMMA CmdAsked ==
    ASSUME NEW e, EncInv(e), Begun(e), NEW asks, ~e.overflow => Answers(e.cmds, asks),
           NEW op \in Ops, NEW len \in Nat, NEW body, Carries(op, len, body),
           NEW ask \in Asks, Meets(op, body, ask)
    PROVE  LET r == EncCmd(e, op, len, body) IN
           /\ EncInv(r) /\ Begun(r)
           /\ r.frame_open = e.frame_open
           /\ ~r.overflow => Answers(r.cmds, Append(asks, ask))
<1> DEFINE r == EncCmd(e, op, len, body)
<1> SUFFICES /\ EncInv(r) /\ Begun(r)
             /\ r.frame_open = e.frame_open
             /\ ~r.overflow => Answers(r.cmds, Append(asks, ask))
  OBVIOUS
<1>1. e \in Encs
  BY DEF EncInv
<1>2. IF e.overflow THEN r = e
      ELSE IF ~Fits(e, len) THEN Full(Cmds, r, e) ELSE Added(Cmds, r, e, op, len, body)
  <2>1. [op |-> op, off |-> e.pos, len |-> len, body |-> body] \in Cmds
    BY <1>1 DEF Encs, EncsOf, Cmds, CmdType, Ops, Carries
  <2> QED BY <1>1, <2>1, EncCmdCases DEF Encs
<1> HIDE DEF r
<1>3. CASE e.overflow
  <2>1. r = e
    BY <1>2, <1>3
  <2> QED BY <1>3, <2>1
<1>4. CASE ~e.overflow /\ ~Fits(e, len)
  <2>1. Full(Cmds, r, e)
    BY <1>2, <1>4
  <2> QED BY <2>1, FullInv DEF Full
<1>5. CASE ~e.overflow /\ Fits(e, len)
  <2>1. Added(Cmds, r, e, op, len, body)
    BY <1>2, <1>5
  <2>2. EncInv(r) /\ Begun(r)
    BY <1>5, <2>1, AddedInv
  <2>3. Answers(r.cmds, Append(asks, ask))
    BY <1>1, <1>5, <2>1, AnswersMore
  <2> QED BY <2>1, <2>2, <2>3 DEF Added
<1> QED BY <1>3, <1>4, <1>5

----------------------------------------------------------------------------
(* The steps *)

LEMMA WireInitInv == WireInit => WireInv
<1> SUFFICES ASSUME WireInit PROVE WireInv
  OBVIOUS
<1>1. EncInit \in Encs
  BY EncoderAssumption DEF EncInit, Encs, EncsOf
<1>2. EncInv(EncInit)
  BY <1>1, Sizes DEF EncInv, EncInit, Packed, Apart
<1>3. OpenInv
  BY DEF OpenInv, WireInit, EncInit
<1>4. DecInv
  BY DEF DecInv, WireInit, Idle
<1> QED BY <1>2, <1>3, <1>4 DEF WireInv, WireInit, FrameInv

\* A command without a body.
LEMMA PlainCmd ==
    ASSUME NEW op \in {"BEGIN_FRAME", "END_FRAME", "RAW"}, NEW len
    PROVE  /\ op \in Ops /\ Carries(op, len, NoBody)
           /\ AskPlain(op) \in Asks /\ Meets(op, NoBody, AskPlain(op))
<1>1. op \in Ops /\ op \notin DrawOps /\ op # "BLOB_UPLOAD"
  BY DEF Ops, DrawOps
<1>2. Carries(op, len, NoBody)
  BY <1>1 DEF Carries, NoBody, Bytes
<1>3. AskPlain(op) = [op |-> op, fields |-> NoBody, paint |-> NoBody]
  BY DEF AskPlain, Ask
<1>4. AskPlain(op) \in Asks
  BY <1>1, <1>3 DEF Asks
<1>5. Fields(op, NoBody) = NoBody
  BY <1>1 DEF Fields
<1>6. Depicts(op, NoBody, NoBody)
  BY <1>1 DEF Depicts, Painted
<1> QED BY <1>1, <1>2, <1>3, <1>4, <1>5, <1>6 DEF Meets

\* A claimed task becomes a command that brings its fields and paints it.
LEMMA DrawCmd ==
    ASSUME NEW t \in Tasks, Evaluate(t)
    PROVE  LET c == Dispatch(t)
               body == Encode(c.op, c.f)
           IN  /\ c.op \in DrawOps
               /\ Carries(c.op, PayloadLen[c.op], body)
               /\ Fields(c.op, body) = c.f
               /\ Depicts(c.op, body, Expected(t))
<1> DEFINE c == Dispatch(t)
           body == Encode(c.op, c.f)
<1>1. /\ \/ c.op = "FILL_RECT" /\ c.f \in FillFields
         \/ c.op = "BORDER" /\ c.f \in BorderFields
         \/ c.op = "BOX_SHADOW" /\ c.f \in ShadowFields
         \/ c.op = "LINE" /\ c.f \in LineFields
         \/ c.op = "LINE_EX" /\ c.f \in LineExFields
         \/ c.op = "ARC" /\ c.f \in ArcFields
         \/ c.op = "IMAGE" /\ c.f \in ImageFields
      /\ Paintable(t) => Agrees(t, Paint(c.op, c.f))
  <2>1. t \in DrawTasks
    BY WireAssumption
  <2>2. CASE t \in FillTasks
    BY <2>2, FillPainted
  <2>3. CASE t \in BorderTasks
    BY <2>3, BorderPainted
  <2>4. CASE t \in ShadowTasks
    BY <2>4, ShadowPainted
  <2>5. CASE t \in LineTasks
    BY <2>5, LinePainted
  <2>6. CASE t \in ArcTasks
    BY <2>6, ArcPainted
  <2>7. CASE t \in ImageTasks
    BY <2>7, ImagePainted
  <2> QED BY <2>1, <2>2, <2>3, <2>4, <2>5, <2>6, <2>7 DEF DrawTasks
<1> HIDE DEF c
<1>2. /\ c.op \in DrawOps
      /\ Block(body, PayloadLen[c.op])
      /\ Decode(c.op, body) = c.f
  <2>1. /\ PayloadLen["FILL_RECT"] = 13 /\ PayloadLen["BORDER"] = 15
        /\ PayloadLen["BOX_SHADOW"] = 20 /\ PayloadLen["LINE"] = 13
        /\ PayloadLen["LINE_EX"] = 16 /\ PayloadLen["ARC"] = 15
        /\ PayloadLen["IMAGE"] = 12
    BY DEF PayloadLen
  <2>2. CASE c.op = "FILL_RECT" /\ c.f \in FillFields
    BY <2>1, <2>2, FillTrip DEF DrawOps
  <2>3. CASE c.op = "BORDER" /\ c.f \in BorderFields
    BY <2>1, <2>3, BorderTrip DEF DrawOps
  <2>4. CASE c.op = "BOX_SHADOW" /\ c.f \in ShadowFields
    BY <2>1, <2>4, ShadowTrip DEF DrawOps
  <2>5. CASE c.op = "LINE" /\ c.f \in LineFields
    BY <2>1, <2>5, LineTrip DEF DrawOps
  <2>6. CASE c.op = "LINE_EX" /\ c.f \in LineExFields
    BY <2>1, <2>6, LineExTrip DEF DrawOps
  <2>7. CASE c.op = "ARC" /\ c.f \in ArcFields
    BY <2>1, <2>7, ArcTrip DEF DrawOps
  <2>8. CASE c.op = "IMAGE" /\ c.f \in ImageFields
    BY <2>1, <2>8, ImageTrip DEF DrawOps
  <2> HIDE DEF body
  <2> QED BY <1>1, <2>2, <2>3, <2>4, <2>5, <2>6, <2>7, <2>8
<1> HIDE DEF body
<1>3. Carries(c.op, PayloadLen[c.op], body)
  BY <1>2 DEF Carries, Block
<1>4. Depicts(c.op, body, Expected(t))
  <2>1. Painted(c.op, body) = Paint(c.op, c.f)
    BY <1>2 DEF Painted
  <2>2. CASE Paintable(t)
    <3>1. Expected(t) = [x \in DOMAIN Asked(t) \ Departures(t) |-> Asked(t)[x]]
      BY <2>2 DEF Expected
    <3>2. Agrees(t, Paint(c.op, c.f))
      BY <1>1, <2>2
    <3> QED BY <2>1, <3>1, <3>2 DEF Depicts, Agrees
  <2>3. CASE ~Paintable(t)
    <3>1. Expected(t) = <<>>
      BY <2>3 DEF Expected, Unsaid
    <3>2. DOMAIN Expected(t) = {}
      BY <3>1
    <3> QED BY <3>2 DEF Depicts
  <2> QED BY <2>2, <2>3
<1>5. Fields(c.op, body) = c.f
  BY <1>2 DEF Fields
<1> QED BY <1>2, <1>3, <1>4, <1>5 DEF c, body

\* An upload keeps the image.
LEMMA UploadCmd ==
    ASSUME NEW img \in Images, NEW len
    PROVE  /\ Carries("BLOB_UPLOAD", len, BlobBody(img))
           /\ Meets("BLOB_UPLOAD", BlobBody(img),
                    Ask("BLOB_UPLOAD", BlobFields(img), Kept(img)))
<1>1. img \in ImageData
  BY WireAssumption
<1>2. "BLOB_UPLOAD" \notin DrawOps
  BY DEF DrawOps
<1>3. Carries("BLOB_UPLOAD", len, BlobBody(img))
  BY <1>1, <1>2, BlobTrip DEF Carries
<1>4. Painted("BLOB_UPLOAD", BlobBody(img)) = Kept(img)
  BY <1>1, <1>2, BlobKept DEF Painted
<1>5. Fields("BLOB_UPLOAD", BlobBody(img)) = BlobFields(img)
  BY <1>1, BlobTrip DEF Fields, BlobFields
<1>6. Depicts("BLOB_UPLOAD", BlobBody(img), Kept(img))
  BY <1>4 DEF Depicts
<1> QED BY <1>3, <1>5, <1>6 DEF Meets, Ask

\* An operation written into the open frame by lhc_enc_cmd.
LEMMA InvAsked ==
    ASSUME WireInv, enc.frame_open,
           NEW op \in Ops, NEW len \in Nat, NEW body, Carries(op, len, body),
           NEW ask \in Asks, Meets(op, body, ask),
           enc' = EncCmd(enc, op, len, body),
           asked' = Asking(enc', ask),
           UNCHANGED <<frame, dec>>
    PROVE  WireInv'
<1>1. EncInv(enc) /\ Begun(enc) /\ (~enc.overflow => Answers(enc.cmds, asked))
  BY DEF WireInv, OpenInv
<1>2. /\ EncInv(enc') /\ Begun(enc')
      /\ ~enc'.overflow => Answers(enc'.cmds, Append(asked, ask))
  BY <1>1, CmdAsked
<1>3. OpenInv'
  BY <1>2 DEF OpenInv, Asking
<1>4. FrameInv' /\ DecInv'
  BY DEF WireInv, FrameInv, DecInv
<1> QED BY <1>2, <1>3, <1>4 DEF WireInv

LEMMA InvDraw ==
    ASSUME WireInv, NEW t \in Tasks, Draw(t)
    PROVE  WireInv'
<1> DEFINE c == Dispatch(t)
           body == Encode(c.op, c.f)
           len == PayloadLen[c.op]
           ask == Ask(c.op, c.f, Expected(t))
<1>1. /\ enc.frame_open /\ Evaluate(t)
      /\ enc' = EncOp(enc, c.op, body)
      /\ asked' = Asking(enc', ask)
      /\ UNCHANGED <<frame, dec>>
  BY DEF Draw
<1>2. enc' = EncCmd(enc, c.op, len, body)
  BY <1>1 DEF EncOp
<1>3. /\ c.op \in DrawOps /\ Carries(c.op, len, body)
      /\ Fields(c.op, body) = c.f /\ Depicts(c.op, body, Expected(t))
  BY <1>1, DrawCmd
<1>4. c.f \in {Dispatch(u).f : u \in Tasks}
  OBVIOUS
<1> HIDE DEF c, body
<1>5. c.op \in Ops /\ len \in Nat
  <2>1. \A op \in DrawOps : op \in Ops /\ PayloadLen[op] \in Nat
    BY DEF DrawOps, Ops, PayloadLen
  <2> QED BY <1>3, <2>1
<1> HIDE DEF len
<1>6. ask \in Asks /\ Meets(c.op, body, ask)
  BY <1>3, <1>4, <1>5 DEF Ask, Asks, Meets
<1> HIDE DEF ask
<1> QED BY <1>1, <1>2, <1>3, <1>5, <1>6, InvAsked

LEMMA InvRawCmd ==
    ASSUME WireInv, NEW len \in RawLens, RawCmd(len)
    PROVE  WireInv'
<1>1. /\ enc.frame_open
      /\ enc' = EncCmd(enc, "RAW", len, NoBody)
      /\ asked' = Asking(enc', AskPlain("RAW"))
      /\ UNCHANGED <<frame, dec>>
  BY DEF RawCmd
<1>2. /\ "RAW" \in Ops /\ Carries("RAW", len, NoBody)
      /\ AskPlain("RAW") \in Asks /\ Meets("RAW", NoBody, AskPlain("RAW"))
  BY PlainCmd
<1>3. len \in Nat
  BY WireAssumption
<1> QED BY <1>1, <1>2, <1>3, InvAsked

LEMMA InvUpload ==
    ASSUME WireInv, NEW img \in Images, Upload(img)
    PROVE  WireInv'
<1> DEFINE data == 4 * img.w * img.h
           body == BlobBody(img)
           ask  == Ask("BLOB_UPLOAD", BlobFields(img), Kept(img))
<1>1. /\ enc.frame_open
      /\ enc' = EncBlobUpload(enc, data, body)
      /\ asked' = IF UploadFits(enc, data) \/ enc'.overflow
                  THEN Asking(enc', ask) ELSE asked
      /\ UNCHANGED <<frame, dec>>
  BY DEF Upload
<1>2. data \in Nat
  <2>1. img.w \in Nat /\ img.h \in Nat
    BY WireAssumption DEF ImageData, U16
  <2>2. 4 * img.w \in Nat
    BY <2>1
  <2> QED BY <2>1, <2>2
<1>3. /\ Carries("BLOB_UPLOAD", BLOB_HDR_SIZE + data, body)
      /\ Meets("BLOB_UPLOAD", body, ask)
      /\ "BLOB_UPLOAD" \in Ops
  BY UploadCmd DEF Ops
<1>4. ask \in Asks
  BY <1>3 DEF Ask, Asks
<1> HIDE DEF data, body, ask
<1>5. /\ EncInv(enc) /\ enc \in Encs /\ Begun(enc)
      /\ ~enc.overflow => Answers(enc.cmds, asked)
  BY <1>1 DEF WireInv, OpenInv, EncInv
<1>6. IF enc.overflow \/ data + BLOB_HDR_SIZE > MaxPayload THEN enc' = enc
      ELSE IF ~Fits(enc, BLOB_HDR_SIZE + data) THEN Full(Cmds, enc', enc)
      ELSE Added(Cmds, enc', enc, "BLOB_UPLOAD", BLOB_HDR_SIZE + data, body)
  <2>1. [op |-> "BLOB_UPLOAD", off |-> enc.pos, len |-> BLOB_HDR_SIZE + data,
         body |-> body] \in Cmds
    BY <1>2, <1>3, <1>5, Sizes DEF Encs, EncsOf, Cmds, CmdType, Ops, Carries
  <2> QED BY <1>1, <1>2, <1>5, <2>1, EncBlobUploadCases DEF Encs
<1>7. FrameInv' /\ DecInv'
  BY <1>1 DEF WireInv, FrameInv, DecInv
<1>8. EncInv(enc') /\ OpenInv'
  <2>1. CASE enc.overflow \/ data + BLOB_HDR_SIZE > MaxPayload
    <3>1. enc' = enc
      BY <1>6, <2>1
    <3>2. ~UploadFits(enc, data)
      BY <1>2, <2>1, EncoderAssumption, Sizes DEF UploadFits
    <3>3. ~enc'.overflow => asked' = asked
      BY <1>1, <3>2
    <3> QED BY <1>5, <3>1, <3>3 DEF OpenInv
  <2>2. CASE /\ ~(enc.overflow \/ data + BLOB_HDR_SIZE > MaxPayload)
             /\ ~Fits(enc, BLOB_HDR_SIZE + data)
    <3>1. Full(Cmds, enc', enc)
      BY <1>6, <2>2
    <3>2. EncInv(enc') /\ Begun(enc') /\ enc'.overflow
      BY <1>5, <3>1, FullInv DEF Full
    <3> QED BY <3>2 DEF OpenInv
  <2>3. CASE /\ ~(enc.overflow \/ data + BLOB_HDR_SIZE > MaxPayload)
             /\ Fits(enc, BLOB_HDR_SIZE + data)
    <3>1. Added(Cmds, enc', enc, "BLOB_UPLOAD", BLOB_HDR_SIZE + data, body)
      BY <1>6, <2>3
    <3>2. BLOB_HDR_SIZE + data \in Nat
      BY <1>2, Sizes
    <3>3. EncInv(enc') /\ Begun(enc')
      BY <1>3, <1>5, <2>3, <3>1, <3>2, AddedInv
    <3>4. UploadFits(enc, data) /\ ~enc'.overflow
      BY <1>2, <2>3, <3>1, EncoderAssumption, Sizes DEF UploadFits, Added
    <3>5. asked' = Append(asked, ask)
      BY <1>1, <3>4 DEF Asking
    <3>6. Answers(enc'.cmds, Append(asked, ask))
      BY <1>3, <1>4, <1>5, <2>3, <3>1, <3>2, AnswersMore
    <3> QED BY <3>3, <3>5, <3>6 DEF OpenInv
  <2> QED BY <2>1, <2>2, <2>3
<1> QED BY <1>7, <1>8 DEF WireInv

LEMMA InvBegin ==
    ASSUME WireInv, Begin
    PROVE  WireInv'
<1>1. /\ enc' = EncBeginFrame(EncInit)
      /\ asked' = <<AskPlain("BEGIN_FRAME")>>
      /\ UNCHANGED <<frame, dec>>
  BY DEF Begin
<1>2. FrameInv' /\ DecInv'
  BY <1>1 DEF WireInv, FrameInv, DecInv
<1>3. CASE Cap < FRAME_HDR_SIZE
  <2>1. enc' = [EncInit EXCEPT !.overflow = TRUE]
    BY <1>1, <1>3 DEF EncBeginFrame
  <2>2. enc' = [pos |-> 0, cmd_count |-> 0, overflow |-> TRUE,
                frame_open |-> FALSE, cmds |-> <<>>]
    BY <2>1 DEF EncInit
  <2>3. enc' \in Encs
    BY <2>2, EncoderAssumption DEF Encs, EncsOf
  <2>4. EncInv(enc')
    BY <2>2, <2>3, Sizes DEF EncInv, Packed, Apart
  <2>5. OpenInv'
    BY <2>2 DEF OpenInv
  <2> QED BY <1>2, <2>4, <2>5 DEF WireInv
<1>4. CASE FRAME_HDR_SIZE <= Cap
  <2> DEFINE e == [EncInit EXCEPT !.pos = FRAME_HDR_SIZE, !.cmd_count = 0,
                                  !.cmds = <<>>, !.frame_open = TRUE]
             body == NoBody
             ask == AskPlain("BEGIN_FRAME")
  <2>1. EncInit \in Encs /\ EncInit.overflow = FALSE
    BY EncoderAssumption DEF EncInit, Encs, EncsOf
  <2>2. enc' = EncCmd(e, "BEGIN_FRAME", PayloadLen["BEGIN_FRAME"], body)
    BY <1>1, <1>4, Sizes DEF EncBeginFrame, EncOp
  <2>3. /\ e \in Encs /\ e.pos = 4 /\ e.cmd_count = 0 /\ e.cmds = <<>>
        /\ e.overflow = FALSE /\ e.frame_open = TRUE
    <3>1. <<>> \in Seq(Cmds) /\ FRAME_HDR_SIZE = 4 /\ 0 \in 0..CountMod-1
      BY Sizes
    <3> QED BY <2>1, <3>1 DEF Encs, EncsOf
  <2> HIDE DEF e
  <2>4. EncInv(e)
    BY <1>4, <2>3, Sizes DEF EncInv, Packed, Apart
  <2>5. Begun(e) /\ Answers(e.cmds, <<>>)
    BY <2>3, Sizes DEF Begun, Answers
  <2>6. PayloadLen["BEGIN_FRAME"] \in Nat
    BY DEF PayloadLen
  <2>7. /\ "BEGIN_FRAME" \in Ops /\ Carries("BEGIN_FRAME", PayloadLen["BEGIN_FRAME"], body)
        /\ ask \in Asks /\ Meets("BEGIN_FRAME", body, ask)
    BY PlainCmd
  <2> HIDE DEF body
  <2>8. /\ EncInv(enc') /\ Begun(enc')
        /\ ~enc'.overflow => Answers(enc'.cmds, Append(<<>>, ask))
    BY <2>2, <2>4, <2>5, <2>6, <2>7, CmdAsked
  <2>9. asked' = Append(<<>>, ask)
    BY <1>1, <2>7
  <2> QED BY <1>2, <2>8, <2>9 DEF WireInv, OpenInv
<1> QED BY <1>3, <1>4, Sizes

\* A frame that fits is sent whole.
LEMMA InvSend ==
    ASSUME WireInv, Send
    PROVE  WireInv'
<1> DEFINE r == EncCmd(enc, "END_FRAME", PayloadLen["END_FRAME"], NoBody)
           e == [r EXCEPT !.frame_open = FALSE]
           ask == AskPlain("END_FRAME")
<1>1. /\ enc.frame_open /\ enc' = e
      /\ IF EncFinalize(e) = 0 THEN UNCHANGED <<frame, dec>>
         ELSE /\ frame' = [size |-> EncFinalize(e), count |-> e.cmd_count,
                           cmds |-> e.cmds, asked |-> Append(asked, ask)]
              /\ dec' = [Idle EXCEPT !.at = "start"]
  BY DEF Send, EncEndFrame, EncOp
<1>2. PayloadLen["END_FRAME"] \in Nat
  BY DEF PayloadLen
<1>3. /\ "END_FRAME" \in Ops /\ Carries("END_FRAME", PayloadLen["END_FRAME"], NoBody)
      /\ ask \in Asks /\ Meets("END_FRAME", NoBody, ask)
  BY PlainCmd
<1>4. EncInv(enc) /\ Begun(enc) /\ (~enc.overflow => Answers(enc.cmds, asked))
  BY <1>1 DEF WireInv, OpenInv
<1>5. /\ EncInv(r) /\ Begun(r)
      /\ ~r.overflow => Answers(r.cmds, Append(asked, ask))
  BY <1>2, <1>3, <1>4, CmdAsked
<1> HIDE DEF r
<1>6. r \in Encs
  BY <1>5 DEF EncInv
<1>7. /\ e \in Encs /\ e.pos = r.pos /\ e.cmd_count = r.cmd_count
      /\ e.overflow = r.overflow /\ e.cmds = r.cmds /\ e.frame_open = FALSE
  BY <1>6 DEF Encs, EncsOf
<1> HIDE DEF e, ask
<1>8. EncInv(enc')
  BY <1>1, <1>5, <1>7 DEF EncInv
<1>9. OpenInv'
  BY <1>1, <1>7 DEF OpenInv
<1>10. CASE EncFinalize(e) = 0
  BY <1>1, <1>8, <1>9, <1>10 DEF WireInv, FrameInv, DecInv
<1>11. CASE EncFinalize(e) # 0
  <2>1. ~r.overflow /\ EncFinalize(e) = r.pos
    BY <1>7, <1>11 DEF EncFinalize
  <2>2. /\ frame'.size = r.pos /\ frame'.count = r.cmd_count
        /\ frame'.cmds = r.cmds /\ frame'.asked = Append(asked, ask)
    BY <1>1, <1>7, <1>11, <2>1
  <2>3. r.cmds # <<>>
    <3>1. CASE enc.overflow
      BY <2>1, <3>1 DEF EncCmd, r
    <3>2. CASE ~enc.overflow
      <4>1. asked \in Seq(Asks)
        BY <1>4, <3>2 DEF Answers
      <4>2. Len(r.cmds) = Len(Append(asked, ask))
        BY <1>5, <2>1 DEF Answers
      <4>3. Len(Append(asked, ask)) = Len(asked) + 1 /\ Len(asked) \in Nat
        BY <4>1
      <4>4. Len(r.cmds) # 0
        BY <4>2, <4>3
      <4> QED BY <4>4
    <3> QED BY <3>1, <3>2
  <2>4. Whole(frame)'
    <3>1. /\ r.pos \in Nat /\ r.cmds \in Seq(Cmds) /\ r.cmd_count = Len(r.cmds)
          /\ r.cmd_count \in 0..CountMod-1
          /\ Packed(r.cmds, r.pos) /\ Apart(r.cmds, r.pos)
      BY <1>5, <1>6 DEF EncInv, Encs, EncsOf
    <3> QED BY <1>5, <2>1, <2>2, <2>3, <3>1 DEF Whole
  <2>5. dec' = [at |-> "start", off |-> 0, i |-> 0, cmds |-> <<>>]
    BY <1>1, <1>11 DEF Idle
  <2>6. DecInv'
    BY <2>4, <2>5 DEF DecInv
  <2> QED BY <1>8, <1>9, <2>4, <2>6 DEF WireInv, FrameInv
<1> QED BY <1>10, <1>11

LEMMA After ==
    ASSUME NEW off \in Nat, NEW len \in Nat, NEW pos \in Nat, off + 4 + len <= pos
    PROVE  off # pos
OBVIOUS

\* The command a decoder reads where one begins.
LEMMA HeaderIs ==
    ASSUME Whole(frame), NEW i \in Nat, i < Len(frame.cmds)
    PROVE  HeaderAt(frame.cmds[i + 1].off) = frame.cmds[i + 1]
<1> DEFINE cmds == frame.cmds
           off == cmds[i + 1].off
<1>1. /\ cmds \in Seq(Cmds) /\ Len(cmds) \in Nat
      /\ \A j, k \in 1..Len(cmds) :
           j < k => cmds[j].off + 4 + cmds[j].len <= cmds[k].off
  BY Sizes DEF Whole, Apart
<1>2. \A k \in 1..Len(cmds) : cmds[k] \in Cmds
  BY <1>1
<1>3. \A k \in 1..Len(cmds) : cmds[k].off \in Nat /\ cmds[k].len \in Nat
  BY <1>2 DEF Cmds, CmdType
<1>4. i + 1 \in 1..Len(cmds)
  BY <1>1
<1>5. ASSUME NEW k \in 1..Len(cmds), cmds[k].off = off
      PROVE  k = i + 1
  <2>1. CASE k < i + 1
    <3>1. cmds[k].off + 4 + cmds[k].len <= off
      BY <1>1, <1>4, <2>1
    <3>2. cmds[k].off \in Nat /\ cmds[k].len \in Nat /\ off \in Nat
      BY <1>3, <1>4
    <3> QED BY <1>5, <3>1, <3>2, After
  <2>2. CASE i + 1 < k
    <3>1. off + 4 + cmds[i + 1].len <= cmds[k].off
      BY <1>1, <1>4, <2>2
    <3>2. off \in Nat /\ cmds[i + 1].len \in Nat /\ cmds[k].off \in Nat
      BY <1>3, <1>4
    <3> QED BY <1>5, <3>1, <3>2, After
  <2> QED BY <1>1, <1>4, <2>1, <2>2
<1>6. HeaderAt(off) = cmds[CHOOSE k \in 1..Len(cmds) : cmds[k].off = off]
  BY <1>4 DEF HeaderAt
<1>7. (CHOOSE k \in 1..Len(cmds) : cmds[k].off = off) = i + 1
  <2> HIDE DEF cmds, off
  <2>1. cmds[i + 1].off = off
    BY DEF off
  <2> QED BY <1>4, <1>5, <2>1
<1> QED BY <1>6, <1>7

LEMMA InvDecodeHeader ==
    ASSUME WireInv, DecodeHeader
    PROVE  WireInv'
<1>1. /\ dec.at = "start" /\ UNCHANGED <<enc, asked, frame>>
      /\ dec' = IF frame.size < FRAME_HDR_SIZE THEN [dec EXCEPT !.at = "threw"]
                ELSE [dec EXCEPT !.at = "cmd", !.off = FRAME_HDR_SIZE]
  BY DEF DecodeHeader
<1>2. /\ Whole(frame) /\ dec.i = 0 /\ dec.cmds = <<>>
      /\ dec \in [at : {"idle", "start", "cmd", "done"}, off : Nat, i : Nat,
                  cmds : Seq(Cmds)]
  BY <1>1 DEF WireInv, DecInv
<1>3. /\ frame.cmds \in Seq(Cmds) /\ frame.cmds # <<>>
      /\ frame.cmds[1].off = 4 /\ frame.size \in Nat
      /\ frame.cmds[1].off + 4 + frame.cmds[1].len <= frame.size
  <2>1. frame.cmds \in Seq(Cmds) /\ frame.cmds # <<>> /\ frame.size \in Nat
    BY <1>2 DEF Whole
  <2>2. 1 \in 1..Len(frame.cmds)
    BY <2>1
  <2> QED BY <1>2, <2>1, <2>2, Sizes DEF Whole, Packed, Apart
<1>4. frame.cmds[1].len \in Nat
  <2>1. frame.cmds[1] \in Cmds
    BY <1>3
  <2> QED BY <2>1 DEF Cmds, CmdType
<1>5. ~(frame.size < FRAME_HDR_SIZE)
  BY <1>3, <1>4, Sizes
<1>6. dec' = [dec EXCEPT !.at = "cmd", !.off = FRAME_HDR_SIZE]
  BY <1>1, <1>5
<1>7. /\ dec' \in [at : {"idle", "start", "cmd", "done"}, off : Nat, i : Nat,
                   cmds : Seq(Cmds)]
      /\ dec'.at = "cmd" /\ dec'.off = 4 /\ dec'.i = 0 /\ dec'.cmds = <<>>
  BY <1>2, <1>6 DEF FRAME_HDR_SIZE
<1>8. Len(frame.cmds) \in Nat /\ Len(frame.cmds) # 0
  BY <1>3
<1>9. DecInv'
  BY <1>1, <1>2, <1>3, <1>7, <1>8 DEF DecInv, Whole
<1>10. EncInv(enc)' /\ OpenInv' /\ FrameInv'
  BY <1>1 DEF WireInv, OpenInv, FrameInv, Whole
<1> QED BY <1>9, <1>10 DEF WireInv

\* The decoder finds the next command and room for its payload.
LEMMA InvDecodeCmd ==
    ASSUME WireInv, DecodeCmd
    PROVE  WireInv'
<1> DEFINE h == HeaderAt(dec.off)
           next == dec.off + CMD_HDR_SIZE + h.len
           D == [at : {"idle", "start", "cmd", "done"}, off : Nat, i : Nat,
                 cmds : Seq(Cmds)]
           n == Len(frame.cmds)
<1>1. /\ dec.at = "cmd" /\ dec.i < frame.count /\ UNCHANGED <<enc, asked, frame>>
      /\ dec' = IF dec.off + CMD_HDR_SIZE > frame.size \/ next > frame.size
                THEN [dec EXCEPT !.at = "threw"]
                ELSE [dec EXCEPT !.i = @ + 1, !.off = next, !.cmds = Append(@, h)]
  BY DEF DecodeCmd
<1>2. /\ Whole(frame) /\ dec \in D
      /\ Len(dec.cmds) = dec.i
      /\ \A k \in 1..dec.i : dec.cmds[k] = frame.cmds[k]
      /\ dec.off = IF dec.i = n THEN frame.size ELSE frame.cmds[dec.i + 1].off
  BY <1>1 DEF WireInv, DecInv
<1>3. /\ frame.size \in Nat /\ frame.count = n /\ frame.cmds \in Seq(Cmds)
      /\ frame.cmds # <<>> /\ n \in Nat
  BY <1>2 DEF Whole
<1>4. dec.i \in Nat /\ dec.i < n /\ dec.i + 1 \in 1..n
  BY <1>1, <1>2, <1>3
<1>5. dec.off = frame.cmds[dec.i + 1].off
  BY <1>2, <1>4
<1>6. h = frame.cmds[dec.i + 1]
  BY <1>2, <1>4, <1>5, HeaderIs
<1>7. h \in Cmds
  BY <1>3, <1>4, <1>6
<1>8. h.off = dec.off /\ h.len \in Nat /\ dec.off \in Nat
  BY <1>5, <1>6, <1>7 DEF Cmds, CmdType
<1>9. h.off + 4 + h.len <= frame.size
  BY <1>2, <1>4, <1>6, Sizes DEF Whole, Apart
<1>10. next = IF dec.i + 1 = n THEN frame.size ELSE frame.cmds[dec.i + 2].off
  <2>1. CASE dec.i + 1 = n
    <3>1. frame.size = frame.cmds[n].off + 4 + frame.cmds[n].len
      BY <1>2, <1>3, Sizes DEF Whole, Packed
    <3> QED BY <1>6, <1>8, <2>1, <3>1, Sizes
  <2>2. CASE dec.i + 1 # n
    <3>1. dec.i + 1 \in 1..n-1
      BY <1>3, <1>4, <2>2
    <3>2. frame.cmds[(dec.i + 1) + 1].off
            = frame.cmds[dec.i + 1].off + 4 + frame.cmds[dec.i + 1].len
      BY <1>2, <1>3, <3>1, Sizes DEF Whole, Packed
    <3>3. (dec.i + 1) + 1 = dec.i + 2
      BY <1>4
    <3> QED BY <1>6, <1>8, <2>2, <3>2, <3>3, Sizes
  <2> QED BY <2>1, <2>2
<1>11. next \in Nat /\ next <= frame.size /\ dec.off + CMD_HDR_SIZE <= frame.size
  BY <1>3, <1>8, <1>9, Sizes
<1> HIDE DEF h, next, n
<1>12. dec' = [dec EXCEPT !.i = @ + 1, !.off = next, !.cmds = Append(@, h)]
  BY <1>1, <1>3, <1>8, <1>11, Sizes
<1>13. /\ dec.cmds \in Seq(Cmds) /\ Append(dec.cmds, h) \in Seq(Cmds)
       /\ Len(Append(dec.cmds, h)) = dec.i + 1
       /\ \A k \in 1..dec.i : Append(dec.cmds, h)[k] = dec.cmds[k]
       /\ Append(dec.cmds, h)[dec.i + 1] = h
  <2>1. dec.cmds \in Seq(Cmds)
    BY <1>2
  <2> QED BY <1>2, <1>7, <2>1
<1>14. /\ dec' \in D
       /\ dec'.at = "cmd" /\ dec'.i = dec.i + 1 /\ dec'.off = next
       /\ dec'.cmds = Append(dec.cmds, h)
  <2>1. /\ dec \in D /\ dec.at = "cmd" /\ dec.i + 1 \in Nat /\ next \in Nat
        /\ Append(dec.cmds, h) \in Seq(Cmds)
    BY <1>1, <1>2, <1>4, <1>11, <1>13
  <2> QED BY <1>12, <2>1
<1>15. ASSUME NEW k \in 1..dec'.i
       PROVE  dec'.cmds[k] = frame.cmds[k]
  <2>0. k \in 1..dec.i + 1 /\ dec.i \in Nat
    BY <1>4, <1>14, <1>15
  <2>1. CASE k \in 1..dec.i
    BY <1>2, <1>13, <1>14, <2>1
  <2>2. CASE k = dec.i + 1
    BY <1>6, <1>13, <1>14, <2>2
  <2> QED BY <2>0, <2>1, <2>2
<1>16. /\ dec'.i <= n
       /\ dec'.off = IF dec'.i = n THEN frame.size ELSE frame.cmds[dec'.i + 1].off
  <2>1. (dec.i + 1) + 1 = dec.i + 2 /\ dec.i + 1 <= n
    BY <1>3, <1>4
  <2> QED BY <1>10, <1>14, <2>1
<1>17. frame' = frame /\ Whole(frame)'
  BY <1>1, <1>2 DEF Whole
<1>18. Len(dec'.cmds) = dec'.i
  BY <1>13, <1>14
<1>19. DecInv'
  BY <1>14, <1>15, <1>16, <1>17, <1>18 DEF DecInv, n
<1>20. EncInv(enc)' /\ OpenInv' /\ FrameInv'
  BY <1>1, <1>17 DEF WireInv, OpenInv, FrameInv
<1> QED BY <1>19, <1>20 DEF WireInv

LEMMA InvDecodeDone ==
    ASSUME WireInv, DecodeDone
    PROVE  WireInv'
<1> DEFINE D == [at : {"idle", "start", "cmd", "done"}, off : Nat, i : Nat,
                 cmds : Seq(Cmds)]
<1>1. /\ dec.at = "cmd" /\ dec.i = frame.count /\ UNCHANGED <<enc, asked, frame>>
      /\ dec' = [dec EXCEPT !.at = "done"]
  BY DEF DecodeDone
<1>2. dec \in D /\ Whole(frame)
  BY <1>1 DEF WireInv, DecInv
<1>3. /\ dec' \in D /\ dec'.at = "done" /\ dec'.i = dec.i
      /\ dec'.off = dec.off /\ dec'.cmds = dec.cmds
  BY <1>1, <1>2
<1>4. dec.i = Len(frame.cmds)
  BY <1>1, <1>2 DEF Whole
<1>5. frame' = frame /\ Whole(frame)'
  BY <1>1, <1>2 DEF Whole
<1>6. DecInv'
  BY <1>1, <1>3, <1>4, <1>5 DEF WireInv, DecInv
<1>7. EncInv(enc)' /\ OpenInv' /\ FrameInv'
  BY <1>1, <1>5 DEF WireInv, OpenInv, FrameInv
<1> QED BY <1>6, <1>7 DEF WireInv

LEMMA InvConsumed ==
    ASSUME WireInv, Consumed
    PROVE  WireInv'
<1>1. dec' = Idle /\ frame' = NoFrame /\ UNCHANGED <<enc, asked>>
  BY DEF Consumed
<1>2. DecInv'
  BY <1>1 DEF DecInv, Idle
<1>3. EncInv(enc)' /\ OpenInv' /\ FrameInv'
  BY <1>1 DEF WireInv, OpenInv, FrameInv
<1> QED BY <1>2, <1>3 DEF WireInv

LEMMA WireStepInv == WireInv /\ [WireNext]_wireVars => WireInv'
<1> SUFFICES ASSUME WireInv, [WireNext]_wireVars
             PROVE  WireInv'
  OBVIOUS
<1>1. CASE UNCHANGED wireVars
  <2>1. UNCHANGED <<enc, asked, frame, dec>>
    BY <1>1 DEF wireVars
  <2> QED BY <2>1 DEF WireInv, OpenInv, FrameInv, DecInv
<1>2. CASE WireNext
  BY <1>2, InvBegin, InvSend, InvDraw, InvRawCmd, InvUpload, InvDecodeHeader,
     InvDecodeCmd, InvDecodeDone, InvConsumed DEF WireNext
<1> QED BY <1>1, <1>2

LEMMA WireInvHolds == WireSpec => []WireInv
<1>1. WireInit => WireInv
  BY WireInitInv
<1>2. WireInv /\ [WireNext]_wireVars => WireInv'
  BY WireStepInv
<1> QED BY <1>1, <1>2, PTL DEF WireSpec

----------------------------------------------------------------------------
\* The encoder never writes beyond its buffer, and leaves the commands one
\* after the other, for any buffer of at most 256 KiB and any frame.
THEOREM WireBuffer == WireSpec => []BufferOK
<1>1. WireInv => BufferOK
  BY DEF WireInv, EncInv, BufferOK
<1> QED BY <1>1, WireInvHolds, PTL

\* cmd_count, modulo 2^16, is the number of commands: CMD_HDR_SIZE bytes for
\* each are more than a buffer of 256 KiB has once it would wrap.
THEOREM WireCount == WireSpec => []CountExact
<1>1. WireInv => CountExact
  BY DEF WireInv, EncInv, FrameInv, Whole, NoFrame, CountExact
<1> QED BY <1>1, WireInvHolds, PTL

\* A message has every operation asked for, in order.
THEOREM WireNothingMissing == WireSpec => []NothingMissing
<1>1. WireInv => NothingMissing
  BY DEF WireInv, FrameInv, Whole, Answers, Meets, NoFrame, NothingMissing
<1> QED BY <1>1, WireInvHolds, PTL

\* decodeFrame accepts every message and finds exactly its commands.
THEOREM WireDecodes == WireSpec => []DecodesAll
<1>1. ASSUME WireInv
      PROVE  DecodesAll
  <2>1. dec.at # "threw"
    BY <1>1 DEF WireInv, DecInv
  <2>2. ASSUME dec.at = "done"
        PROVE  dec.cmds = frame.cmds /\ dec.off = frame.size
    <3>1. /\ dec.i = Len(frame.cmds) /\ Len(dec.cmds) = dec.i
          /\ \A k \in 1..dec.i : dec.cmds[k] = frame.cmds[k]
          /\ dec.off = frame.size
      BY <1>1, <2>2 DEF WireInv, DecInv
    <3>2. dec.cmds \in Seq(Cmds) /\ frame.cmds \in Seq(Cmds)
      BY <1>1, <2>2 DEF WireInv, DecInv, Whole
    <3>3. dec.cmds = frame.cmds
      BY <3>1, <3>2
    <3> QED BY <3>1, <3>3
  <2> QED BY <2>1, <2>2 DEF DecodesAll
<1> QED BY <1>1, WireInvHolds, PTL

\* The encoder, its messages and the decoder keep their types; a drawing command
\* has as many bytes as its header says.
THEOREM WireTypeCorrect == WireSpec => []WireTypeOK
<1>1. Cmds \subseteq CmdType
  BY DEF Cmds
<1>2. Seq(Cmds) \subseteq Seq(CmdType)
  BY <1>1
<1>3. ASSUME WireInv
      PROVE  WireTypeOK
  <2>1. enc \in Encs
    BY <1>3 DEF WireInv, EncInv
  <2>2. enc \in [pos : Nat, cmd_count : 0..CountMod-1, overflow : BOOLEAN,
                 frame_open : BOOLEAN, cmds : Seq(CmdType)]
    BY <1>2, <2>1 DEF Encs, EncsOf
  <2>3. ASSUME NEW k \in 1..Len(enc.cmds), enc.cmds[k].op \in DrawOps
        PROVE  Len(enc.cmds[k].body) = enc.cmds[k].len
    <3>1. enc.cmds \in Seq(Cmds)
      BY <2>1 DEF Encs, EncsOf
    <3>2. enc.cmds[k] \in Cmds
      BY <3>1
    <3> QED BY <2>3, <3>2 DEF Cmds
  <2>4. /\ frame.size \in Nat /\ frame.count \in 0..CountMod-1
        /\ frame.cmds \in Seq(CmdType)
    <3>1. CASE frame = NoFrame
      <4>1. /\ 0 \in 0..CountMod-1 /\ <<>> \in Seq(CmdType)
        BY EncoderAssumption
      <4> QED BY <3>1, <4>1 DEF NoFrame
    <3>2. CASE Whole(frame)
      BY <1>2, <3>2 DEF Whole
    <3> QED BY <1>3, <3>1, <3>2 DEF WireInv, FrameInv
  <2>5. /\ dec.at \in {"idle", "start", "cmd", "done", "threw"}
        /\ dec.off \in Nat /\ dec.i \in Nat
    BY <1>3 DEF WireInv, DecInv
  <2> QED BY <2>2, <2>3, <2>4, <2>5 DEF WireTypeOK
<1> QED BY <1>3, WireInvHolds, PTL

\* Every field the draw unit puts into a command comes out of the viewer's
\* reader for it, for every task and every image, wherever it stands in a frame.
THEOREM WireFieldsArrive == WireSpec => []FieldsArrive
<1>1. WireInv /\ DecodesAll => FieldsArrive
  BY DEF WireInv, DecInv, Whole, Answers, Meets, DecodesAll, FieldsArrive
<1> QED BY <1>1, WireInvHolds, WireDecodes, PTL

\* The viewer paints what LVGL asked for but for the Departures of module
\* Payload, for every task that is Paintable and every image, wherever it stands
\* in a frame: what else there is to a task survives the casts and clamps of the
\* draw unit and is understood by the viewer as LVGL means it.
THEOREM WirePaints == WireSpec => []PaintsAsked
<1>1. WireInv /\ DecodesAll => PaintsAsked
  BY DEF WireInv, DecInv, Whole, Answers, Meets, DecodesAll, PaintsAsked
<1> QED BY <1>1, WireInvHolds, WireDecodes, PTL
=============================================================================
