--------------------------- MODULE DrawUnitProofs ---------------------------
(***************************************************************************)
(* The draw unit and its blob cache, for any sources, pixels, slots,       *)
(* refresh period, buffer and tasks: MaxOps and MaxFrames bound the runs,  *)
(* and no proof uses them.                                                 *)
(*                                                                         *)
(* An image is evicted, uploaded and drawn in one task, and each of these  *)
(* may fail. What has to hold after each is stated of a cache b, a buffer  *)
(* e and a viewer a given as arguments.                                    *)
(***************************************************************************)
EXTENDS DrawUnit, EncoderProofs, Induction

Drawing == Ops \cup LineOps \cup {"IMAGE"}

Bodies == BlobBody \cup {NoBody}

Cmds == [op : DOMAIN PayloadLen \cup {"BLOB_UPLOAD"}, off : Nat, len : Nat,
         body : Bodies]

Caches == [Pixels -> Pixels \cup {None}]

Viewers == [cache : Caches, blank : BOOLEAN, stale : BOOLEAN]

Slotted == [Slots -> SlotType]

\* The bytes of a frame in which nothing was drawn yet.
Start == FRAME_HDR_SIZE + CMD_HDR_SIZE + PayloadLen["BEGIN_FRAME"]

TypeInv ==
    /\ DrawTypeOK
    /\ enc \in EncsOf(Cmds)
    /\ frames \in Nat
    /\ evictedAt \in Nat

\* No two slots hold the same source, and a slot's blob is what its source
\* showed.
SlotsOK(b) ==
    /\ \A i \in Slots : /\ b[i].uploaded => b[i].in_use
                        /\ b[i].in_use => /\ b[i].src \in Sources
                                          /\ b[i].id \in Shows[b[i].src]
    /\ \A i, j \in Slots :
         b[i].in_use /\ b[j].in_use /\ b[i].src = b[j].src => i = j

\* An open frame, unless it overflowed, begins as it should, and when n
\* operations were counted has one of them.
Started(e, n) ==
    ~e.overflow => /\ e.cmds # <<>>
                   /\ e.cmds[1].op = "BEGIN_FRAME"
                   /\ n > 0 => \E k \in 1..Len(e.cmds) : e.cmds[k].op \in Drawing

\* What was uploaded n frames ago is in a viewer that has had n frames without a
\* gap: after the last frame if it is older than the open one, and in any case
\* at the end of the open one. So nothing such a viewer draws is blank.
Sent(b, e, a) ==
    /\ \A i \in Slots : b[i].uploaded =>
         /\ b[i].last_uploaded <= frame_id
         /\ b[i].last_uploaded < frame_id
              /\ frame_id - b[i].last_uploaded <= viewer.age
              => viewer.cache[b[i].id] # None
         /\ frame_open /\ ~e.overflow
              /\ frame_id - b[i].last_uploaded <= viewer.age
              => a.cache[b[i].id] # None
    /\ frame_open /\ ~e.overflow /\ a.blank => viewer.age < Period

\* A blob uploaded in this frame was drawn in it: the frame is not forgotten.
Drawn(b, n) ==
    \A i \in Slots : b[i].uploaded /\ b[i].last_uploaded = frame_id
                       => frame_open /\ n > 0

\* As long as frame ids are not reused they tell how long ago a slot was used.
Dated(b) ==
    /\ frame_id <= frames
    /\ \A i \in Slots : b[i].in_use => /\ b[i].last_used <= frame_id
                                       /\ b[i].used_at - b[i].last_used
                                            = frames - frame_id

\* Every blob of the cache is the server's.
Known(b, cache) ==
    \A p \in Pixels : cache[p] # None =>
      \E i \in Slots : b[i].uploaded /\ b[i].id = p

\* Nothing was told to the viewer in a frame without operations.
Silent ==
    ImagesFit /\ frame_open /\ ops = 0 =>
      /\ ahead.cache = viewer.cache
      /\ ~enc.overflow
      /\ enc.pos = Start

NoRoguesInv ==
    ImagesFit /\ ~spoiled /\ ~viewer.gap =>
      IF frame_open THEN ~enc.overflow => Known(blobs, ahead.cache)
                    ELSE Known(blobs, viewer.cache)

SentInv ==
    OwnPixels /\ ~spoiled /\ frames < IdMod =>
      Sent(blobs, enc, ahead) /\ Drawn(blobs, ops)

LruInv ==
    frames < IdMod => Dated(blobs) /\ evictedAt <= frames /\ EvictsOldest

FrameInv == frame_open => Started(enc, ops) /\ shown = NothingWrong

DrawInv ==
    /\ TypeInv
    /\ SlotsOK(blobs)
    /\ FrameInv
    /\ SentInv
    /\ NoBlank
    /\ Silent
    /\ NoRoguesInv
    /\ LruInv
    /\ FramesWhole

----------------------------------------------------------------------------
(* The buffer *)

\* r is e after a command was written, if there was room for it.
Writes(r, e, op, len, body) ==
    /\ r \in EncsOf(Cmds)
    /\ r.pos <= Cap
    /\ r.frame_open = e.frame_open
    /\ \/ e.overflow /\ r = e
       \/ ~e.overflow /\ ~Fits(e, len) /\ r.overflow /\ r.cmds = e.cmds
       \/ /\ ~e.overflow /\ Fits(e, len) /\ ~r.overflow
          /\ r.pos = e.pos + CMD_HDR_SIZE + len
          /\ r.cmds = Append(e.cmds, [op |-> op, off |-> e.pos, len |-> len,
                                      body |-> body])

LEMMA CasesWrite ==
    ASSUME NEW e \in EncsOf(Cmds), e.pos <= Cap, NEW op, NEW len \in Nat, NEW body,
           NEW r,
           IF e.overflow THEN r = e
           ELSE IF ~Fits(e, len) THEN Full(Cmds, r, e)
           ELSE Added(Cmds, r, e, op, len, body)
    PROVE  Writes(r, e, op, len, body)
<1>1. e.pos \in Nat /\ Cap \in Nat
  BY EncoderAssumption DEF EncsOf
<1>2. CASE e.overflow
  BY <1>2 DEF Writes
<1>3. CASE ~e.overflow /\ ~Fits(e, len)
  BY <1>3 DEF Writes, Full
<1>4. CASE ~e.overflow /\ Fits(e, len)
  <2>1. Added(Cmds, r, e, op, len, body)
    BY <1>4
  <2>2. r.pos <= Cap
    BY <1>1, <1>4, <2>1 DEF Fits, Added, CMD_HDR_SIZE
  <2> QED BY <1>4, <2>1, <2>2 DEF Writes, Added
<1> QED BY <1>2, <1>3, <1>4

LEMMA EncOpWrites ==
    ASSUME NEW e \in EncsOf(Cmds), e.pos <= Cap, NEW op \in DOMAIN PayloadLen,
           NEW body \in Bodies
    PROVE  Writes(EncOp(e, op, body), e, op, PayloadLen[op], body)
<1> DEFINE len == PayloadLen[op]
           r == EncOp(e, op, body)
<1> SUFFICES Writes(r, e, op, len, body)
  OBVIOUS
<1>1. len \in Nat
  BY DEF PayloadLen
<1>2. [op |-> op, off |-> e.pos, len |-> len, body |-> body] \in Cmds
  BY <1>1 DEF Cmds, EncsOf
<1>3. r = EncCmd(e, op, len, body)
  BY DEF EncOp
<1> HIDE DEF len, r
<1> QED BY <1>1, <1>2, <1>3, EncCmdCases, CasesWrite

\* An upload that is too long for its length field writes nothing.
LEMMA UploadWrites ==
    ASSUME NEW e \in EncsOf(Cmds), e.pos <= Cap, NEW data \in Nat,
           NEW body \in Bodies
    PROVE  LET r == EncBlobUpload(e, data, body) IN
           \/ ~UploadFits(e, data) /\ r = e
           \/ /\ Writes(r, e, "BLOB_UPLOAD", BLOB_HDR_SIZE + data, body)
              /\ r.overflow = ~UploadFits(e, data)
<1> DEFINE len == BLOB_HDR_SIZE + data
           r == EncBlobUpload(e, data, body)
<1>1. len \in Nat /\ data + BLOB_HDR_SIZE \in Nat /\ MaxPayload \in Nat
  BY EncoderAssumption DEF BLOB_HDR_SIZE
<1>2. [op |-> "BLOB_UPLOAD", off |-> e.pos, len |-> len, body |-> body] \in Cmds
  BY <1>1 DEF Cmds, EncsOf
<1>3. IF e.overflow \/ data + BLOB_HDR_SIZE > MaxPayload THEN r = e
      ELSE IF ~Fits(e, len) THEN Full(Cmds, r, e)
      ELSE Added(Cmds, r, e, "BLOB_UPLOAD", len, body)
  BY <1>2, EncBlobUploadCases
<1>4. UploadFits(e, data)
        <=> ~(e.overflow \/ data + BLOB_HDR_SIZE > MaxPayload) /\ Fits(e, len)
  BY <1>1 DEF UploadFits
<1> SUFFICES \/ ~UploadFits(e, data) /\ r = e
             \/ /\ Writes(r, e, "BLOB_UPLOAD", len, body)
                /\ r.overflow = ~UploadFits(e, data)
  OBVIOUS
<1> HIDE DEF len, r
<1>5. CASE e.overflow \/ data + BLOB_HDR_SIZE > MaxPayload
  BY <1>3, <1>4, <1>5
<1>6. CASE ~(e.overflow \/ data + BLOB_HDR_SIZE > MaxPayload)
  <2>1. Writes(r, e, "BLOB_UPLOAD", len, body)
    BY <1>1, <1>3, <1>6, CasesWrite
  <2>2. r.overflow \in BOOLEAN
    BY <2>1 DEF Writes, EncsOf
  <2> QED BY <1>4, <1>6, <2>1, <2>2 DEF Writes
<1> QED BY <1>5, <1>6

\* The commands already there keep their places.
LEMMA WritesCmds ==
    ASSUME NEW e \in EncsOf(Cmds), NEW r, NEW op, NEW len, NEW body,
           Writes(r, e, op, len, body), ~r.overflow
    PROVE  /\ ~e.overflow
           /\ Len(e.cmds) \in Nat
           /\ Len(r.cmds) = Len(e.cmds) + 1
           /\ \A k \in 1..Len(e.cmds) : r.cmds[k] = e.cmds[k]
           /\ r.cmds[Len(r.cmds)].op = op
           /\ r.cmds[Len(r.cmds)].body = body
           /\ r.cmds # <<>>
<1> DEFINE c == [op |-> op, off |-> e.pos, len |-> len, body |-> body]
<1>1. ~e.overflow /\ r.cmds = Append(e.cmds, c)
  BY DEF Writes
<1>2. e.cmds \in Seq(Cmds) /\ r.cmds \in Seq(Cmds)
  BY DEF Writes, EncsOf
<1>3. c.op = op /\ c.body = body
  OBVIOUS
<1> HIDE DEF c
<1>4. /\ Len(e.cmds) \in Nat /\ Len(r.cmds) = Len(e.cmds) + 1
      /\ \A k \in 1..Len(e.cmds) : r.cmds[k] = e.cmds[k]
      /\ r.cmds[Len(e.cmds) + 1] = c
  BY <1>1, <1>2
<1>5. r.cmds # <<>>
  BY <1>2, <1>4
<1> QED BY <1>1, <1>3, <1>4, <1>5

LEMMA WritesStarted ==
    ASSUME NEW e \in EncsOf(Cmds), NEW r, NEW op, NEW len, NEW body,
           Writes(r, e, op, len, body), NEW n \in Nat, Started(e, n)
    PROVE  /\ Started(r, n)
           /\ op \in Drawing => Started(r, n + 1)
<1> SUFFICES ASSUME ~r.overflow
             PROVE  /\ r.cmds # <<>> /\ r.cmds[1].op = "BEGIN_FRAME"
                    /\ op \in Drawing \/ n > 0 =>
                         \E k \in 1..Len(r.cmds) : r.cmds[k].op \in Drawing
  BY DEF Started
<1>1. /\ ~e.overflow
      /\ Len(e.cmds) \in Nat /\ Len(r.cmds) = Len(e.cmds) + 1
      /\ \A k \in 1..Len(e.cmds) : r.cmds[k] = e.cmds[k]
      /\ r.cmds[Len(r.cmds)].op = op
      /\ r.cmds # <<>>
  BY WritesCmds
<1>2. /\ e.cmds # <<>> /\ e.cmds[1].op = "BEGIN_FRAME"
      /\ n > 0 => \E k \in 1..Len(e.cmds) : e.cmds[k].op \in Drawing
  BY <1>1 DEF Started
<1>3. Len(e.cmds) > 0
  BY <1>2 DEF EncsOf
<1>4. 1 \in 1..Len(e.cmds) /\ Len(r.cmds) \in 1..Len(r.cmds)
  BY <1>1, <1>3
<1>5. r.cmds[1].op = "BEGIN_FRAME"
  BY <1>1, <1>2, <1>4
<1>6. CASE op \in Drawing
  BY <1>1, <1>4, <1>5, <1>6
<1>7. CASE n > 0
  <2>1. PICK k \in 1..Len(e.cmds) : e.cmds[k].op \in Drawing
    BY <1>2, <1>7
  <2>2. k \in 1..Len(r.cmds) /\ r.cmds[k].op \in Drawing
    BY <1>1, <2>1
  <2> QED BY <1>1, <1>5, <2>2
<1> QED BY <1>1, <1>5, <1>6, <1>7

----------------------------------------------------------------------------
(* The viewer *)

\* The viewer sees the command, if there is one more.
LEMMA WritesFollow ==
    ASSUME NEW e \in EncsOf(Cmds), NEW r, NEW op, NEW len, NEW body, NEW v,
           Writes(r, e, op, len, body)
    PROVE  /\ r.overflow => Follow(v, e, r) = v
           /\ ~r.overflow =>
                \E c : /\ c.op = op /\ c.body = body
                       /\ Follow(v, e, r) = Replay(v, c)
<1>1. CASE r.overflow
  <2>1. r.cmds = e.cmds
    BY <1>1 DEF Writes
  <2>2. Len(e.cmds) \in Nat
    BY DEF EncsOf
  <2> QED BY <1>1, <2>1, <2>2 DEF Follow
<1>2. CASE ~r.overflow
  <2>1. /\ Len(e.cmds) \in Nat /\ Len(r.cmds) = Len(e.cmds) + 1
        /\ r.cmds[Len(r.cmds)].op = op /\ r.cmds[Len(r.cmds)].body = body
    BY <1>2, WritesCmds
  <2>2. Len(r.cmds) > Len(e.cmds)
    BY <2>1
  <2>3. Follow(v, e, r) = Replay(v, r.cmds[Len(r.cmds)])
    BY <2>2 DEF Follow
  <2> QED BY <1>2, <2>1, <2>3
<1> QED BY <1>1, <1>2

\* Nothing written, nothing seen.
LEMMA FollowSame ==
    ASSUME NEW e \in EncsOf(Cmds), NEW v
    PROVE  Follow(v, e, e) = v
<1>1. Len(e.cmds) \in Nat
  BY DEF EncsOf
<1> QED BY <1>1 DEF Follow

LEMMA ReplayUpload ==
    ASSUME NEW v \in Viewers, NEW c, c.op = "BLOB_UPLOAD",
           c.body.id \in Pixels, c.body.pixels \in Pixels
    PROVE  /\ Replay(v, c) \in Viewers
           /\ Replay(v, c).blank = v.blank
           /\ Replay(v, c).cache[c.body.id] # None
           /\ \A p \in Pixels : p # c.body.id =>
                Replay(v, c).cache[p] = v.cache[p]
<1>1. CASE v.cache[c.body.id] = None
  <2>1. Replay(v, c) = [v EXCEPT !.cache[c.body.id] = c.body.pixels]
    BY <1>1 DEF Replay
  <2> QED BY <2>1, DrawAssumption DEF Viewers, Caches
<1>2. CASE v.cache[c.body.id] # None
  BY <1>2 DEF Replay
<1> QED BY <1>1, <1>2

LEMMA ReplayEvict ==
    ASSUME NEW v \in Viewers, NEW c, c.op = "BLOB_EVICT", c.body.id \in Pixels
    PROVE  /\ Replay(v, c) \in Viewers
           /\ Replay(v, c).blank = v.blank
           /\ Replay(v, c).cache[c.body.id] = None
           /\ \A p \in Pixels : p # c.body.id =>
                Replay(v, c).cache[p] = v.cache[p]
<1>1. Replay(v, c) = [v EXCEPT !.cache[c.body.id] = None]
  BY DEF Replay
<1> QED BY <1>1 DEF Viewers, Caches

LEMMA ReplayImage ==
    ASSUME NEW v \in Viewers, NEW c, c.op = "IMAGE", c.body.id \in Pixels
    PROVE  /\ Replay(v, c) \in Viewers
           /\ Replay(v, c).blank = (v.blank \/ v.cache[c.body.id] = None)
           /\ Replay(v, c).cache = v.cache
<1> DEFINE p == v.cache[c.body.id]
           b == v.blank \/ p = None
           t == v.stale \/ p \notin {None, c.body.pixels}
<1>1. Replay(v, c) = [v EXCEPT !.blank = b, !.stale = t]
  BY DEF Replay
<1>2. b \in BOOLEAN /\ t \in BOOLEAN
  BY DEF Viewers
<1> HIDE DEF b, t
<1>3. /\ Replay(v, c) \in Viewers
      /\ Replay(v, c).blank = b
      /\ Replay(v, c).cache = v.cache
  BY <1>1, <1>2 DEF Viewers
<1> QED BY <1>3 DEF b

----------------------------------------------------------------------------
(* The slots *)

\* A slot is found: the victim is free, or none is and it was used longest ago.
LEMMA VictimFound ==
    ASSUME TypeInv
    PROVE  /\ Victim \in Slots
           /\ FreeSlots # {} => Victim \in FreeSlots
           /\ FreeSlots = {} =>
                \A j \in Slots : blobs[Victim].last_used <= blobs[j].last_used
<1>1. Slots \subseteq Nat /\ Slots # {}
  BY DrawAssumption
<1>2. \A j \in Slots : blobs[j].last_used \in Nat
  BY DrawAssumption DEF TypeInv, DrawTypeOK, SlotType
<1>3. CASE FreeSlots # {}
  <2>1. FreeSlots \subseteq Nat /\ FreeSlots \subseteq Slots
    BY <1>1 DEF FreeSlots
  <2>2. \E i \in FreeSlots : \A j \in FreeSlots : i <= j
    BY <1>3, <2>1, LeastOf
  <2>3. Victim \in Slots /\ Victim \in FreeSlots
    BY <1>3, <2>1, <2>2 DEF Victim
  <2> QED BY <1>3, <2>3
<1>4. CASE FreeSlots = {}
  <2> DEFINE Used == {blobs[j].last_used : j \in Slots}
  <2>1. Used \subseteq Nat /\ Used # {}
    BY <1>1, <1>2
  <2>2. PICK m \in Used : \A n \in Used : m <= n
    BY <2>1, LeastOf
  <2> DEFINE Oldest == {j \in Slots : blobs[j].last_used = m}
  <2>3. Oldest \subseteq Nat /\ Oldest # {}
    BY <1>1
  <2>4. PICK i \in Oldest : \A j \in Oldest : i <= j
    BY <2>3, LeastOf
  <2>5. i \in Slots /\ blobs[i].last_used = m
    OBVIOUS
  <2>6. \A j \in Slots : \/ blobs[i].last_used < blobs[j].last_used
                         \/ blobs[i].last_used = blobs[j].last_used /\ i <= j
    <3> SUFFICES ASSUME NEW j \in Slots
                 PROVE  \/ blobs[i].last_used < blobs[j].last_used
                        \/ blobs[i].last_used = blobs[j].last_used /\ i <= j
      OBVIOUS
    <3>1. m <= blobs[j].last_used
      BY <2>2
    <3>2. CASE blobs[j].last_used = m
      BY <2>4, <2>5, <3>2
    <3>3. CASE blobs[j].last_used # m
      BY <1>2, <2>5, <3>1, <3>3
    <3> QED BY <3>2, <3>3
  <2>7. /\ Victim \in Slots
        /\ \A j \in Slots :
             \/ blobs[Victim].last_used < blobs[j].last_used
             \/ blobs[Victim].last_used = blobs[j].last_used /\ Victim <= j
    BY <1>4, <2>5, <2>6 DEF Victim
  <2>8. \A j \in Slots : blobs[Victim].last_used <= blobs[j].last_used
    BY <1>2, <2>7
  <2> QED BY <1>4, <2>7, <2>8
<1> QED BY <1>3, <1>4

\* The slot that has the source already, as it is after the task.
Hit(src, i, s) ==
    /\ i \in Slots
    /\ blobs[i].in_use /\ blobs[i].src = src
    /\ s = [blobs[i] EXCEPT !.last_used = frame_id, !.used_at = frames]

\* The slot it is given, when none has it.
Miss(src, p, i, s) ==
    /\ i \in Slots
    /\ \A j \in Slots : blobs[j].in_use => blobs[j].src # src
    /\ blobs[i].in_use =>
         \A j \in Slots : /\ blobs[j].in_use
                          /\ blobs[i].last_used <= blobs[j].last_used
    /\ s = Inserted(src, p)

\* The cache with the slot taken.
Taken(i, s) == [blobs EXCEPT ![i] = s]

LEMMA TakenTypes ==
    ASSUME TypeInv, SlotsOK(blobs), NEW src \in Sources, NEW p \in Shows[src],
           NEW i, NEW s, Hit(src, i, s) \/ Miss(src, p, i, s)
    PROVE  /\ i \in Slots
           /\ s \in SlotType /\ s.in_use /\ s.src = src
           /\ s.id \in Shows[src] /\ s.id \in Pixels /\ p \in Pixels
           /\ s.last_used = frame_id /\ s.used_at = frames
           /\ Taken(i, s) \in Slotted
           /\ Taken(i, s)[i] = s
           /\ \A j \in Slots \ {i} : Taken(i, s)[j] = blobs[j]
           /\ SlotsOK(Taken(i, s))
<1>1. /\ blobs \in Slotted /\ i \in Slots
      /\ frame_id \in 0..IdMod-1 /\ frames \in Nat /\ 0 \in 0..IdMod-1
      /\ Shows \in [Sources -> SUBSET Pixels]
  BY DrawAssumption DEF TypeInv, DrawTypeOK, Slotted, Hit, Miss
<1>2. p \in Pixels
  BY <1>1
<1>3. /\ s \in SlotType /\ s.in_use /\ s.src = src /\ s.id \in Shows[src]
      /\ s.last_used = frame_id /\ s.used_at = frames
  <2>1. CASE Hit(src, i, s)
    <3>1. blobs[i] \in SlotType
      BY <1>1 DEF Slotted
    <3>2. blobs[i].id \in Shows[src]
      BY <2>1 DEF Hit, SlotsOK
    <3> QED BY <1>1, <2>1, <3>1, <3>2 DEF Hit, SlotType
  <2>2. CASE Miss(src, p, i, s)
    BY <1>1, <1>2, <2>2 DEF Miss, Inserted, SlotType
  <2> QED BY <2>1, <2>2
<1>4. s.id \in Pixels
  BY <1>1, <1>3
<1>5. /\ Taken(i, s) \in Slotted
      /\ Taken(i, s)[i] = s
      /\ \A j \in Slots \ {i} : Taken(i, s)[j] = blobs[j]
  BY <1>1, <1>3 DEF Taken, Slotted
<1>6. \A j \in Slots \ {i} : ~(blobs[j].in_use /\ blobs[j].src = src)
  BY DEF Hit, Miss, SlotsOK
<1>7. SlotsOK(Taken(i, s))
  BY <1>1, <1>3, <1>5, <1>6 DEF SlotsOK
<1> QED BY <1>1, <1>2, <1>3, <1>4, <1>5, <1>7

----------------------------------------------------------------------------
(* What a command does to the buffer and the viewer *)

\* An eviction, if there is anything to evict.
LEMMA EvictDoes ==
    ASSUME TypeInv, SlotsOK(blobs), NEW i \in Slots
    PROVE  LET e == Evict(blobs[i])
               a == Follow(ahead, enc, e)
           IN
           /\ e \in EncsOf(Cmds) /\ e.pos <= Cap /\ a \in Viewers
           /\ enc.overflow => e.overflow
           /\ ~enc.overflow /\ Fits(enc, PayloadLen["BLOB_EVICT"]) =>
                /\ ~e.overflow
                /\ e.pos <= enc.pos + CMD_HDR_SIZE + PayloadLen["BLOB_EVICT"]
           /\ a.blank = ahead.blank
           /\ \A n \in Nat : Started(enc, n) => Started(e, n)
           /\ ~e.overflow => \A p \in Pixels :
                a.cache[p] = IF blobs[i].uploaded /\ p = blobs[i].id THEN None
                             ELSE ahead.cache[p]
<1> DEFINE s == blobs[i]
           e == Evict(s)
           a == Follow(ahead, enc, e)
           body == [id |-> s.id, pixels |-> None]
<1>1. enc \in EncsOf(Cmds) /\ enc.pos <= Cap /\ ahead \in Viewers
  BY EncoderAssumption DEF TypeInv, DrawTypeOK, Viewers, Caches
<1>2. CASE ~s.uploaded
  <2>1. e = enc
    BY <1>2 DEF Evict
  <2>2. a = ahead
    BY <1>1, <2>1, FollowSame
  <2>3. enc.pos <= enc.pos + CMD_HDR_SIZE + PayloadLen["BLOB_EVICT"]
    BY <1>1 DEF EncsOf, CMD_HDR_SIZE, PayloadLen
  <2> QED BY <1>1, <1>2, <2>1, <2>2, <2>3
<1>3. CASE s.uploaded
  <2>1. s.in_use /\ s.id \in Pixels
    BY <1>3, DrawAssumption DEF SlotsOK
  <2>2. e = EncOp(enc, "BLOB_EVICT", body)
    BY <1>3, <2>1 DEF Evict, EncBlobEvict
  <2>3. body \in Bodies /\ body.id = s.id
    BY <2>1 DEF Bodies, BlobBody
  <2>4. "BLOB_EVICT" \in DOMAIN PayloadLen /\ "BLOB_EVICT" \notin {"BEGIN_FRAME"}
    BY DEF PayloadLen
  <2> HIDE DEF body, e, s
  <2>5. Writes(e, enc, "BLOB_EVICT", PayloadLen["BLOB_EVICT"], body)
    BY <1>1, <2>2, <2>3, <2>4, EncOpWrites
  <2>6. /\ e \in EncsOf(Cmds) /\ e.pos <= Cap
        /\ enc.overflow => e.overflow
        /\ ~enc.overflow /\ Fits(enc, PayloadLen["BLOB_EVICT"]) =>
             /\ ~e.overflow
             /\ e.pos <= enc.pos + CMD_HDR_SIZE + PayloadLen["BLOB_EVICT"]
    BY <1>1, <2>5 DEF Writes, EncsOf
  <2>7. \A n \in Nat : Started(enc, n) => Started(e, n)
    BY <1>1, <2>5, WritesStarted
  <2>8. CASE e.overflow
    <3>1. a = ahead
      BY <1>1, <2>5, <2>8, WritesFollow
    <3> QED BY <1>1, <2>6, <2>7, <2>8, <3>1 DEF e, s
  <2>9. CASE ~e.overflow
    <3>1. PICK c : c.op = "BLOB_EVICT" /\ c.body = body /\ a = Replay(ahead, c)
      BY <1>1, <2>5, <2>9, WritesFollow
    <3>2. c.body.id = s.id
      BY <2>3, <3>1
    <3>3. /\ a \in Viewers /\ a.blank = ahead.blank
          /\ a.cache[s.id] = None
          /\ \A p \in Pixels : p # s.id => a.cache[p] = ahead.cache[p]
      <4> HIDE DEF a
      <4>1. /\ Replay(ahead, c) \in Viewers
            /\ Replay(ahead, c).blank = ahead.blank
            /\ Replay(ahead, c).cache[c.body.id] = None
            /\ \A p \in Pixels : p # c.body.id =>
                 Replay(ahead, c).cache[p] = ahead.cache[p]
        BY <1>1, <2>1, <3>1, <3>2, ReplayEvict
      <4> QED BY <3>1, <3>2, <4>1
    <3>4. \A p \in Pixels :
            a.cache[p] = IF s.uploaded /\ p = s.id THEN None ELSE ahead.cache[p]
      BY <1>3, <3>3
    <3> QED BY <1>1, <2>6, <2>7, <2>9, <3>3, <3>4 DEF e, s
  <2> QED BY <2>8, <2>9
<1> QED BY <1>2, <1>3

\* An upload.
LEMMA UploadDoes ==
    ASSUME NEW e \in EncsOf(Cmds), e.pos <= Cap, NEW a \in Viewers,
           NEW data \in Nat, NEW body \in BlobBody, body.pixels \in Pixels
    PROVE  LET r == EncBlobUpload(e, data, body)
               v == Follow(a, e, r)
           IN
           /\ r \in EncsOf(Cmds) /\ r.pos <= Cap /\ v \in Viewers
           /\ e.overflow => r.overflow
           /\ v.blank = a.blank
           /\ \A n \in Nat : Started(e, n) => Started(r, n)
           /\ UploadFits(e, data) =>
                /\ ~r.overflow
                /\ v.cache[body.id] # None
                /\ \A p \in Pixels : p # body.id => v.cache[p] = a.cache[p]
           /\ ~UploadFits(e, data) => v = a
<1> DEFINE r == EncBlobUpload(e, data, body)
           v == Follow(a, e, r)
           len == BLOB_HDR_SIZE + data
<1>1. body \in Bodies /\ body.id \in Pixels
  BY DEF Bodies, BlobBody
<1>2. \/ ~UploadFits(e, data) /\ r = e
      \/ /\ Writes(r, e, "BLOB_UPLOAD", len, body)
         /\ r.overflow = ~UploadFits(e, data)
  BY <1>1, UploadWrites
<1>3. CASE ~UploadFits(e, data) /\ r = e
  <2>1. v = a
    BY <1>3, FollowSame
  <2> QED BY <1>3, <2>1
<1>4. CASE /\ Writes(r, e, "BLOB_UPLOAD", len, body)
           /\ r.overflow = ~UploadFits(e, data)
  <2> HIDE DEF r, len
  <2>1. /\ r \in EncsOf(Cmds) /\ r.pos <= Cap
        /\ e.overflow => r.overflow
    BY <1>4 DEF Writes
  <2>2. \A n \in Nat : Started(e, n) => Started(r, n)
    BY <1>4, WritesStarted
  <2>3. CASE r.overflow
    <3>1. v = a
      BY <1>4, <2>3, WritesFollow
    <3> QED BY <1>4, <2>1, <2>2, <2>3, <3>1 DEF r
  <2>4. CASE ~r.overflow
    <3>1. PICK c : c.op = "BLOB_UPLOAD" /\ c.body = body /\ v = Replay(a, c)
      BY <1>4, <2>4, WritesFollow
    <3>2. /\ v \in Viewers /\ v.blank = a.blank
          /\ v.cache[body.id] # None
          /\ \A p \in Pixels : p # body.id => v.cache[p] = a.cache[p]
      <4> HIDE DEF v
      <4>1. /\ Replay(a, c) \in Viewers
            /\ Replay(a, c).blank = a.blank
            /\ Replay(a, c).cache[c.body.id] # None
            /\ \A p \in Pixels : p # c.body.id =>
                 Replay(a, c).cache[p] = a.cache[p]
        BY <1>1, <3>1, ReplayUpload
      <4> QED BY <3>1, <4>1
    <3> QED BY <1>4, <2>1, <2>2, <2>4, <3>2 DEF r
  <2> QED BY <2>3, <2>4
<1> QED BY <1>2, <1>3, <1>4

\* The image is drawn.
LEMMA ImageDoes ==
    ASSUME NEW e \in EncsOf(Cmds), e.pos <= Cap, NEW a \in Viewers,
           NEW body \in BlobBody
    PROVE  LET r == EncOp(e, "IMAGE", body)
               v == Follow(a, e, r)
           IN
           /\ r \in EncsOf(Cmds) /\ r.pos <= Cap /\ v \in Viewers
           /\ e.overflow => r.overflow
           /\ v.cache = a.cache
           /\ ~r.overflow => v.blank = (a.blank \/ a.cache[body.id] = None)
           /\ \A n \in Nat : Started(e, n) => Started(r, n + 1)
<1> DEFINE r == EncOp(e, "IMAGE", body)
           v == Follow(a, e, r)
<1>1. body \in Bodies /\ body.id \in Pixels
  BY DEF Bodies, BlobBody
<1>2. "IMAGE" \in DOMAIN PayloadLen /\ "IMAGE" \in Drawing
  BY DEF PayloadLen, Drawing
<1>3. Writes(r, e, "IMAGE", PayloadLen["IMAGE"], body)
  BY <1>1, <1>2, EncOpWrites
<1> HIDE DEF r
<1>4. /\ r \in EncsOf(Cmds) /\ r.pos <= Cap
      /\ e.overflow => r.overflow
  BY <1>3 DEF Writes
<1>5. \A n \in Nat : Started(e, n) => Started(r, n + 1)
  BY <1>2, <1>3, WritesStarted
<1>6. CASE r.overflow
  <2>1. v = a
    BY <1>3, <1>6, WritesFollow
  <2> QED BY <1>4, <1>5, <1>6, <2>1 DEF r
<1>7. CASE ~r.overflow
  <2>1. PICK c : c.op = "IMAGE" /\ c.body = body /\ v = Replay(a, c)
    BY <1>3, <1>7, WritesFollow
  <2>2. /\ v \in Viewers /\ v.cache = a.cache
        /\ v.blank = (a.blank \/ a.cache[body.id] = None)
    <3> HIDE DEF v
    <3> QED BY <1>1, <2>1, ReplayImage
  <2> QED BY <1>4, <1>5, <1>7, <2>2 DEF r
<1> QED BY <1>6, <1>7

----------------------------------------------------------------------------
(* What each part of the task does to the invariants *)

\* The slot was taken, and the blob it held was evicted.
Evicted(i, s, e, a) ==
    /\ enc.overflow => e.overflow
    /\ a.blank = ahead.blank
    /\ ~e.overflow => \A q \in Pixels :
         a.cache[q] = IF ~s.uploaded /\ blobs[i].uploaded /\ q = blobs[i].id
                      THEN None ELSE ahead.cache[q]

\* The blob of slot i was uploaded.
Sends(b, i, e, a, r, v) ==
    /\ ~r.overflow /\ ~e.overflow
    /\ v.blank = a.blank
    /\ v.cache[b[i].id] # None
    /\ \A q \in Pixels : q # b[i].id => v.cache[q] = a.cache[q]

LEMMA TakenSame ==
    ASSUME TypeInv, NEW src, NEW p, NEW i, NEW s,
           Hit(src, i, s) \/ Miss(src, p, i, s), s.uploaded
    PROVE  /\ blobs[i].uploaded
           /\ s.id = blobs[i].id
           /\ s.last_uploaded = blobs[i].last_uploaded
<1>1. Hit(src, i, s)
  BY DEF Miss, Inserted
<1>2. blobs[i] \in SlotType
  BY <1>1 DEF Hit, TypeInv, DrawTypeOK
<1> QED BY <1>1, <1>2 DEF Hit, SlotType

LEMMA TakenSent ==
    ASSUME TypeInv, SlotsOK(blobs), OwnPixels,
           NEW src \in Sources, NEW p \in Shows[src],
           NEW i, NEW s, Hit(src, i, s) \/ Miss(src, p, i, s),
           NEW e, NEW a, Evicted(i, s, e, a), Sent(blobs, enc, ahead)
    PROVE  Sent(Taken(i, s), e, a)
<1> DEFINE b == Taken(i, s)
<1>1. /\ i \in Slots /\ b[i] = s
      /\ \A j \in Slots \ {i} : b[j] = blobs[j]
  BY TakenTypes
<1> HIDE DEF b
<1>2. ASSUME NEW j \in Slots, b[j].uploaded
      PROVE  /\ b[j].last_uploaded <= frame_id
             /\ b[j].last_uploaded < frame_id
                  /\ frame_id - b[j].last_uploaded <= viewer.age
                  => viewer.cache[b[j].id] # None
             /\ frame_open /\ ~e.overflow
                  /\ frame_id - b[j].last_uploaded <= viewer.age
                  => a.cache[b[j].id] # None
  <2>1. /\ blobs[j].uploaded
        /\ b[j].id = blobs[j].id
        /\ b[j].last_uploaded = blobs[j].last_uploaded
    BY <1>1, <1>2, TakenSame
  <2>2. /\ blobs[j].last_uploaded <= frame_id
        /\ blobs[j].last_uploaded < frame_id
             /\ frame_id - blobs[j].last_uploaded <= viewer.age
             => viewer.cache[blobs[j].id] # None
        /\ frame_open /\ ~enc.overflow
             /\ frame_id - blobs[j].last_uploaded <= viewer.age
             => ahead.cache[blobs[j].id] # None
    BY <2>1 DEF Sent
  <2>3. blobs[j].in_use /\ blobs[j].src \in Sources
          /\ blobs[j].id \in Shows[blobs[j].src] /\ blobs[j].id \in Pixels
    BY <2>1, DrawAssumption DEF SlotsOK
  <2>4. ~(~s.uploaded /\ blobs[i].uploaded /\ blobs[j].id = blobs[i].id)
    <3> SUFFICES ASSUME ~s.uploaded, blobs[i].uploaded, blobs[j].id = blobs[i].id
                 PROVE  FALSE
      OBVIOUS
    <3>1. j # i
      BY <1>1, <1>2
    <3>2. blobs[i].in_use /\ blobs[i].src \in Sources
            /\ blobs[i].id \in Shows[blobs[i].src]
      BY <1>1 DEF SlotsOK
    <3>3. blobs[i].src # blobs[j].src
      BY <1>1, <2>3, <3>1, <3>2 DEF SlotsOK
    <3> QED BY <2>3, <3>2, <3>3 DEF OwnPixels
  <2>5. ~e.overflow => ~enc.overflow /\ a.cache[blobs[j].id] = ahead.cache[blobs[j].id]
    BY <2>3, <2>4 DEF Evicted
  <2> QED BY <2>1, <2>2, <2>5
<1>3. frame_open /\ ~e.overflow /\ a.blank => viewer.age < Period
  BY DEF Evicted, Sent
<1> QED BY <1>2, <1>3 DEF Sent, b

\* Whatever is written, a blob that was there stays, until it is evicted.
LEMMA LaterSent ==
    ASSUME NEW b, NEW e, NEW a, Sent(b, e, a), NEW r, e.overflow => r.overflow
    PROVE  Sent(b, r, a)
BY DEF Sent

LEMMA UploadedSent ==
    ASSUME TypeInv, NEW b, b \in Slotted, SlotsOK(b), NEW i \in Slots, b[i].in_use,
           NEW e, NEW a, NEW r, NEW v, Sends(b, i, e, a, r, v), Sent(b, e, a)
    PROVE  Sent([b EXCEPT ![i] = Uploaded(b[i])], r, v)
<1> DEFINE c == [b EXCEPT ![i] = Uploaded(b[i])]
<1>1. /\ c[i].id = b[i].id /\ c[i].last_uploaded = frame_id
      /\ \A j \in Slots \ {i} : c[j] = b[j]
  BY DEF Uploaded, Slotted, SlotType
<1>2. frame_id \in Int
  BY DrawAssumption DEF TypeInv, DrawTypeOK
<1> HIDE DEF c
<1>3. ASSUME NEW j \in Slots, c[j].uploaded
      PROVE  /\ c[j].last_uploaded <= frame_id
             /\ c[j].last_uploaded < frame_id
                  /\ frame_id - c[j].last_uploaded <= viewer.age
                  => viewer.cache[c[j].id] # None
             /\ frame_open /\ ~r.overflow
                  /\ frame_id - c[j].last_uploaded <= viewer.age
                  => v.cache[c[j].id] # None
  <2>1. CASE j = i
    BY <1>1, <1>2, <2>1 DEF Sends
  <2>2. CASE j # i
    <3>1. c[j] = b[j] /\ b[j].uploaded
      BY <1>1, <1>3, <2>2
    <3>2. b[j].id \in Pixels
      BY <3>1, DrawAssumption DEF SlotsOK
    <3>3. a.cache[b[j].id] # None => v.cache[b[j].id] # None
      BY <3>2 DEF Sends
    <3>4. /\ b[j].last_uploaded <= frame_id
          /\ b[j].last_uploaded < frame_id
               /\ frame_id - b[j].last_uploaded <= viewer.age
               => viewer.cache[b[j].id] # None
          /\ frame_open /\ ~e.overflow
               /\ frame_id - b[j].last_uploaded <= viewer.age
               => a.cache[b[j].id] # None
      BY <3>1 DEF Sent
    <3> QED BY <3>1, <3>3, <3>4 DEF Sends
  <2> QED BY <2>1, <2>2
<1>4. frame_open /\ ~r.overflow /\ v.blank => viewer.age < Period
  BY DEF Sends, Sent
<1> QED BY <1>3, <1>4 DEF Sent, c

\* A young blob was sent within the last Period frames: the ids tell the truth.
LEMMA YoungAge ==
    ASSUME TypeInv, NEW s \in SlotType, Young(s), s.last_uploaded <= frame_id
    PROVE  s.uploaded /\ frame_id - s.last_uploaded < Period
<1> DEFINE d == frame_id - s.last_uploaded
<1>1. d \in Nat /\ IdMod \in Nat \ {0} /\ d < IdMod
  BY DrawAssumption DEF TypeInv, DrawTypeOK, SlotType
<1>2. s.uploaded /\ d % IdMod < Period
  BY DEF Young
<1> HIDE DEF d
<1>3. d % IdMod = d
  BY <1>1
<1>4. d < Period
  BY <1>2, <1>3
<1> QED BY <1>2, <1>4 DEF d

\* An image is drawn whose blob a viewer without a gap has.
LEMMA DrawnSent ==
    ASSUME NEW b, NEW e, NEW a, Sent(b, e, a), NEW id,
           NEW r, NEW v, e.overflow => r.overflow,
           v.cache = a.cache,
           ~r.overflow => v.blank = (a.blank \/ a.cache[id] = None),
           frame_open /\ ~e.overflow /\ a.cache[id] = None => viewer.age < Period
    PROVE  Sent(b, r, v)
BY DEF Sent

LEMMA TakenKnown ==
    ASSUME TypeInv, SlotsOK(blobs), NEW src \in Sources, NEW p \in Shows[src],
           NEW i, NEW s, Hit(src, i, s) \/ Miss(src, p, i, s),
           NEW e, NEW a, Evicted(i, s, e, a),
           ~enc.overflow => Known(blobs, ahead.cache), ~e.overflow
    PROVE  Known(Taken(i, s), a.cache)
<1>1. /\ i \in Slots /\ Taken(i, s)[i] = s
      /\ \A j \in Slots \ {i} : Taken(i, s)[j] = blobs[j]
  BY TakenTypes
<1>2. SUFFICES ASSUME NEW q \in Pixels, a.cache[q] # None
               PROVE  \E j \in Slots : Taken(i, s)[j].uploaded /\ Taken(i, s)[j].id = q
  BY DEF Known
<1>3. /\ ahead.cache[q] # None
      /\ ~(~s.uploaded /\ blobs[i].uploaded /\ q = blobs[i].id)
  BY <1>2 DEF Evicted
<1>4. PICK j \in Slots : blobs[j].uploaded /\ blobs[j].id = q
  BY <1>3 DEF Evicted, Known
<1>5. CASE j = i
  <2>1. s.uploaded
    BY <1>3, <1>4, <1>5
  <2>2. s.id = blobs[i].id
    BY <2>1, TakenSame
  <2> QED BY <1>1, <1>4, <1>5, <2>1, <2>2
<1>6. CASE j # i
  BY <1>1, <1>4, <1>6
<1> QED BY <1>5, <1>6

LEMMA UploadedKnown ==
    ASSUME NEW b, b \in Slotted, NEW i \in Slots,
           NEW e, NEW a, NEW r, NEW v, Sends(b, i, e, a, r, v), Known(b, a.cache)
    PROVE  Known([b EXCEPT ![i] = Uploaded(b[i])], v.cache)
<1> DEFINE c == [b EXCEPT ![i] = Uploaded(b[i])]
<1>1. /\ c[i].id = b[i].id /\ c[i].uploaded
      /\ \A j \in Slots \ {i} : c[j] = b[j]
  BY DEF Uploaded, Slotted, SlotType
<1> HIDE DEF c
<1>2. ASSUME NEW q \in Pixels, v.cache[q] # None
      PROVE  \E j \in Slots : c[j].uploaded /\ c[j].id = q
  <2>1. CASE q = b[i].id
    BY <1>1, <2>1
  <2>2. CASE q # b[i].id
    <3>1. a.cache[q] # None
      BY <1>2, <2>2 DEF Sends
    <3>2. PICK j \in Slots : b[j].uploaded /\ b[j].id = q
      BY <3>1 DEF Known
    <3> QED BY <1>1, <2>2, <3>2
  <2> QED BY <2>1, <2>2
<1> QED BY <1>2 DEF Known, c

LEMMA TakenDated ==
    ASSUME TypeInv, SlotsOK(blobs), NEW src \in Sources, NEW p \in Shows[src],
           NEW i, NEW s, Hit(src, i, s) \/ Miss(src, p, i, s), Dated(blobs)
    PROVE  Dated(Taken(i, s))
<1>1. /\ i \in Slots /\ Taken(i, s)[i] = s
      /\ \A j \in Slots \ {i} : Taken(i, s)[j] = blobs[j]
  BY TakenTypes
<1>2. s.last_used = frame_id /\ s.used_at = frames
  BY TakenTypes
<1>3. frame_id \in Nat /\ frames \in Nat
  BY DrawAssumption DEF TypeInv, DrawTypeOK
<1>4. ASSUME NEW j \in Slots, Taken(i, s)[j].in_use
      PROVE  /\ Taken(i, s)[j].last_used <= frame_id
             /\ Taken(i, s)[j].used_at - Taken(i, s)[j].last_used
                  = frames - frame_id
  <2>1. CASE j = i
    BY <1>1, <1>2, <1>3, <2>1
  <2>2. CASE j # i
    BY <1>1, <1>4, <2>2 DEF Dated
  <2> QED BY <2>1, <2>2
<1> QED BY <1>4 DEF Dated

\* Only a slot used no later than any other is evicted.
LEMMA TakenOldest ==
    ASSUME TypeInv, SlotsOK(blobs), NEW src \in Sources, NEW p \in Shows[src],
           NEW i, NEW s, Hit(src, i, s) \/ Miss(src, p, i, s), Dated(blobs),
           evictedAt <= frames, EvictsOldest,
           evictedAt' = (IF Miss(src, p, i, s) /\ blobs[i].in_use
                         THEN blobs[i].used_at ELSE evictedAt)
    PROVE  /\ evictedAt' \in Nat /\ evictedAt' <= frames
           /\ \A j \in Slots : Taken(i, s)[j].in_use
                                 => evictedAt' <= Taken(i, s)[j].used_at
<1>1. /\ i \in Slots /\ Taken(i, s)[i] = s
      /\ \A j \in Slots \ {i} : Taken(i, s)[j] = blobs[j]
  BY TakenTypes
<1>2. \A j \in Slots : blobs[j] \in SlotType
  BY DEF TypeInv, DrawTypeOK
<1>3. s.used_at = frames
  BY TakenTypes
<1>4. frame_id \in Nat /\ frames \in Nat /\ evictedAt \in Nat
  BY DrawAssumption DEF TypeInv, DrawTypeOK
<1>5. \A j \in Slots : /\ blobs[j].used_at \in Nat
                       /\ blobs[j].last_used \in Nat
  BY <1>2, DrawAssumption DEF SlotType
<1>6. CASE Miss(src, p, i, s) /\ blobs[i].in_use
  <2>1. evictedAt' = blobs[i].used_at
    BY <1>6
  <2>2. ASSUME NEW j \in Slots PROVE blobs[i].used_at <= blobs[j].used_at
    <3>1. /\ blobs[j].in_use
          /\ blobs[i].last_used <= blobs[j].last_used
      BY <1>6 DEF Miss
    <3>2. /\ blobs[j].used_at - blobs[j].last_used = frames - frame_id
          /\ blobs[i].used_at - blobs[i].last_used = frames - frame_id
      BY <1>1, <1>6, <3>1 DEF Dated
    <3> QED BY <1>1, <1>4, <1>5, <3>1, <3>2
  <2>3. blobs[i].used_at <= frames
    <3>1. /\ blobs[i].used_at - blobs[i].last_used = frames - frame_id
          /\ blobs[i].last_used <= frame_id
      BY <1>1, <1>6 DEF Dated
    <3> QED BY <1>1, <1>4, <1>5, <3>1
  <2> QED BY <1>1, <1>3, <1>5, <2>1, <2>2, <2>3
<1>7. CASE ~(Miss(src, p, i, s) /\ blobs[i].in_use)
  <2>1. evictedAt' = evictedAt
    BY <1>7
  <2> QED BY <1>1, <1>3, <1>4, <2>1 DEF EvictsOldest
<1> QED BY <1>6, <1>7

----------------------------------------------------------------------------
(* An image task as a whole *)

\* What DispatchImage does once it has the slot i, to be s, and e in the buffer.
ImageWith(src, p, i, s, e) ==
    LET up   == ~Young(s)
        ok   == up => UploadFits(e, Size[src])
        body == [id |-> s.id, pixels |-> p]
        e2   == IF up THEN EncBlobUpload(e, Size[src], body) ELSE e
        e3   == IF ok THEN EncOp(e2, "IMAGE", body) ELSE e2
    IN
    /\ frame_open /\ Claimed(src)
    /\ blobs' = [blobs EXCEPT ![i] = IF up /\ ok THEN Uploaded(s) ELSE s]
    /\ enc' = e3
    /\ ops' = IF ok THEN ops + 1 ELSE ops
    /\ ahead' = Follow(Follow(Follow(ahead, enc, e), e, e2), e2, e3)
    /\ evictedAt' = IF Miss(src, p, i, s) /\ blobs[i].in_use
                    THEN blobs[i].used_at ELSE evictedAt
    /\ UNCHANGED <<frame_id, frame_open, viewer, shown, frames, spoiled>>

LEMMA ImageTakes ==
    ASSUME TypeInv, NEW src \in Sources, NEW p \in Shows[src],
           DispatchImage(src, p)
    PROVE  \E i, s, e : /\ \/ Hit(src, i, s) /\ e = enc
                           \/ Miss(src, p, i, s) /\ e = Evict(blobs[i])
                        /\ ImageWith(src, p, i, s, e)
<1> DEFINE hit == Holders(src) # {}
           i == IF hit THEN CHOOSE h \in Holders(src) :
                              \A j \in Holders(src) : h <= j
                ELSE Victim
           s == IF hit THEN [blobs[i] EXCEPT !.last_used = frame_id,
                                             !.used_at = frames]
                ELSE Inserted(src, p)
           e == IF hit THEN enc ELSE Evict(blobs[i])
<1>1. CASE hit
  <2>1. Holders(src) \subseteq Nat /\ Holders(src) \subseteq Slots
    BY DrawAssumption DEF Holders
  <2>2. \E h \in Holders(src) : \A j \in Holders(src) : h <= j
    BY <1>1, <2>1, LeastOf
  <2>3. i \in Holders(src)
    BY <1>1, <2>2
  <2> HIDE DEF i
  <2>4. Hit(src, i, s) /\ e = enc
    BY <1>1, <2>3 DEF Hit, Holders
  <2>5. ~Miss(src, p, i, s)
    BY <2>3 DEF Miss, Holders
  <2>6. ImageWith(src, p, i, s, e)
    BY <1>1, <2>5 DEF DispatchImage, ImageWith, i
  <2> QED BY <2>4, <2>6
<1>2. CASE ~hit
  <2>1. i = Victim /\ s = Inserted(src, p) /\ e = Evict(blobs[i])
    BY <1>2
  <2>2. Miss(src, p, i, s)
    <3>1. \A j \in Slots : blobs[j].in_use => blobs[j].src # src
      BY <1>2 DEF Holders
    <3>2. blobs[Victim].in_use => FreeSlots = {}
      BY VictimFound DEF FreeSlots
    <3>3. FreeSlots = {} => \A j \in Slots : blobs[j].in_use
      BY DEF FreeSlots
    <3> QED BY <2>1, <3>1, <3>2, <3>3, VictimFound DEF Miss
  <2>3. ImageWith(src, p, i, s, e)
    BY <1>2, <2>2 DEF DispatchImage, ImageWith
  <2> QED BY <2>1, <2>2, <2>3
<1> QED BY <1>1, <1>2

\* The task, part by part: e and a are the buffer and the viewer after the slot
\* was taken, r and v after an upload, if any.
ImageParts(src, p, i, s, e, a, r, v, up, ok) ==
    /\ Hit(src, i, s) \/ Miss(src, p, i, s)
    /\ Evicted(i, s, e, a)
    /\ ~up => Young(s)
    /\ IF up /\ ok
       THEN /\ Sends(Taken(i, s), i, e, a, r, v)
            /\ blobs' = [Taken(i, s) EXCEPT ![i] = Uploaded(Taken(i, s)[i])]
       ELSE /\ v = a
            /\ e.overflow => r.overflow
            /\ blobs' = Taken(i, s)
    /\ enc' \in EncsOf(Cmds) /\ enc'.pos <= Cap /\ ahead' \in Viewers
    /\ r.overflow => enc'.overflow
    /\ ahead'.cache = v.cache
    /\ IF ok THEN /\ ops' = ops + 1
                  /\ ~enc'.overflow =>
                       ahead'.blank = (v.blank \/ v.cache[s.id] = None)
             ELSE /\ ops' = ops
                  /\ ahead'.blank = v.blank
    /\ Started(enc, ops) => Started(enc', ops')
    /\ Silent => ops' # 0 \/ ~ImagesFit
    /\ evictedAt' = IF Miss(src, p, i, s) /\ blobs[i].in_use
                    THEN blobs[i].used_at ELSE evictedAt
    /\ frame_open
    /\ UNCHANGED <<frame_id, frame_open, viewer, shown, frames, spoiled>>

LEMMA ImageIsParts ==
    ASSUME TypeInv, SlotsOK(blobs), NEW src \in Sources, NEW p \in Shows[src],
           DispatchImage(src, p)
    PROVE  \E i, s, e, a, r, v, up, ok :
             ImageParts(src, p, i, s, e, a, r, v, up, ok)
<1>1. PICK i, s, e : /\ \/ Hit(src, i, s) /\ e = enc
                        \/ Miss(src, p, i, s) /\ e = Evict(blobs[i])
                     /\ ImageWith(src, p, i, s, e)
  BY ImageTakes
<1> DEFINE up   == ~Young(s)
           ok   == up => UploadFits(e, Size[src])
           body == [id |-> s.id, pixels |-> p]
           e2   == IF up THEN EncBlobUpload(e, Size[src], body) ELSE e
           e3   == IF ok THEN EncOp(e2, "IMAGE", body) ELSE e2
           a1   == Follow(ahead, enc, e)
           a2   == Follow(a1, e, e2)
           a3   == Follow(a2, e2, e3)
<1>2. /\ i \in Slots /\ s \in SlotType /\ s.id \in Pixels /\ p \in Pixels
      /\ Taken(i, s) \in Slotted /\ Taken(i, s)[i] = s
  BY <1>1, TakenTypes
<1>3. /\ enc \in EncsOf(Cmds) /\ enc.pos \in Nat /\ enc.pos <= Cap
      /\ ahead \in Viewers /\ ops \in Nat /\ Cap \in Nat /\ MaxPayload \in Nat
  BY EncoderAssumption DEF TypeInv, DrawTypeOK, Viewers, Caches
<1>4. Size[src] \in Nat
  BY DrawAssumption
<1>5. body \in BlobBody /\ body.pixels \in Pixels /\ body.id = s.id
  BY <1>2 DEF BlobBody
<1>6. /\ frame_open /\ Claimed(src)
      /\ blobs' = [blobs EXCEPT ![i] = IF up /\ ok THEN Uploaded(s) ELSE s]
      /\ enc' = e3
      /\ ops' = IF ok THEN ops + 1 ELSE ops
      /\ ahead' = a3
      /\ evictedAt' = IF Miss(src, p, i, s) /\ blobs[i].in_use
                      THEN blobs[i].used_at ELSE evictedAt
      /\ UNCHANGED <<frame_id, frame_open, viewer, shown, frames, spoiled>>
  BY <1>1 DEF ImageWith
<1>7. blobs' = IF up /\ ok THEN [Taken(i, s) EXCEPT ![i] = Uploaded(Taken(i, s)[i])]
                           ELSE Taken(i, s)
  BY <1>2, <1>6 DEF Taken, TypeInv, DrawTypeOK
<1> HIDE DEF body
<1>8. /\ e \in EncsOf(Cmds) /\ e.pos <= Cap /\ a1 \in Viewers
      /\ Evicted(i, s, e, a1)
      /\ \A n \in Nat : Started(enc, n) => Started(e, n)
      /\ ~enc.overflow /\ Fits(enc, PayloadLen["BLOB_EVICT"]) =>
           /\ ~e.overflow
           /\ e.pos <= enc.pos + CMD_HDR_SIZE + PayloadLen["BLOB_EVICT"]
  <2>1. CASE Hit(src, i, s) /\ e = enc
    <3>1. a1 = ahead
      BY <1>3, <2>1, FollowSame
    <3>2. s.uploaded = blobs[i].uploaded
      BY <2>1 DEF Hit, TypeInv, DrawTypeOK, SlotType
    <3>3. Evicted(i, s, e, a1)
      BY <2>1, <3>1, <3>2 DEF Evicted
    <3>4. enc.pos <= enc.pos + CMD_HDR_SIZE + PayloadLen["BLOB_EVICT"]
      BY <1>3 DEF CMD_HDR_SIZE, PayloadLen
    <3> QED BY <1>3, <2>1, <3>1, <3>3, <3>4
  <2>2. CASE Miss(src, p, i, s) /\ e = Evict(blobs[i])
    <3>1. ~s.uploaded
      BY <2>2 DEF Miss, Inserted
    <3>2. /\ e \in EncsOf(Cmds) /\ e.pos <= Cap /\ a1 \in Viewers
          /\ enc.overflow => e.overflow
          /\ ~enc.overflow /\ Fits(enc, PayloadLen["BLOB_EVICT"]) =>
               /\ ~e.overflow
               /\ e.pos <= enc.pos + CMD_HDR_SIZE + PayloadLen["BLOB_EVICT"]
          /\ a1.blank = ahead.blank
          /\ \A n \in Nat : Started(enc, n) => Started(e, n)
          /\ ~e.overflow => \A q \in Pixels :
               a1.cache[q] = IF blobs[i].uploaded /\ q = blobs[i].id THEN None
                             ELSE ahead.cache[q]
      BY <1>2, <2>2, EvictDoes
    <3>3. Evicted(i, s, e, a1)
      BY <3>1, <3>2 DEF Evicted
    <3> QED BY <3>2, <3>3
  <2> QED BY <1>1, <2>1, <2>2
<1> HIDE DEF a1
<1>9. /\ e2 \in EncsOf(Cmds) /\ e2.pos <= Cap /\ a2 \in Viewers
      /\ e.overflow => e2.overflow
      /\ \A n \in Nat : Started(e, n) => Started(e2, n)
      /\ up /\ ok => Sends(Taken(i, s), i, e, a1, e2, a2)
      /\ ~(up /\ ok) => a2 = a1
  <2>1. CASE up
    <3> DEFINE f == EncBlobUpload(e, Size[src], body)
               w == Follow(a1, e, f)
    <3>1. e2 = f /\ a2 = w
      BY <2>1
    <3>2. ok = UploadFits(e, Size[src])
      BY <2>1 DEF UploadFits
    <3> HIDE DEF ok, up, e2, a2
    <3>3. /\ f \in EncsOf(Cmds) /\ f.pos <= Cap /\ w \in Viewers
          /\ e.overflow => f.overflow
          /\ w.blank = a1.blank
          /\ \A n \in Nat : Started(e, n) => Started(f, n)
          /\ UploadFits(e, Size[src]) =>
               /\ ~f.overflow
               /\ w.cache[body.id] # None
               /\ \A q \in Pixels : q # body.id => w.cache[q] = a1.cache[q]
          /\ ~UploadFits(e, Size[src]) => w = a1
      BY <1>4, <1>5, <1>8, UploadDoes
    <3> HIDE DEF f, w
    <3>4. ok => Sends(Taken(i, s), i, e, a1, e2, a2)
      BY <1>2, <1>5, <3>1, <3>2, <3>3 DEF Sends
    <3> QED BY <2>1, <3>1, <3>2, <3>3, <3>4
  <2>2. CASE ~up
    <3>1. e2 = e
      BY <2>2
    <3>2. a2 = a1
      BY <1>8, <3>1, FollowSame
    <3> QED BY <1>8, <2>2, <3>1, <3>2
  <2> QED BY <2>1, <2>2
<1> HIDE DEF e2, a2
<1>10. /\ e3 \in EncsOf(Cmds) /\ e3.pos <= Cap /\ a3 \in Viewers
       /\ e2.overflow => e3.overflow
       /\ a3.cache = a2.cache
       /\ IF ok THEN /\ ~e3.overflow =>
                          a3.blank = (a2.blank \/ a2.cache[s.id] = None)
                     /\ Started(e2, ops) => Started(e3, ops + 1)
                ELSE /\ a3.blank = a2.blank
                     /\ Started(e2, ops) => Started(e3, ops)
  <2>1. CASE ok
    <3> DEFINE f == EncOp(e2, "IMAGE", body)
               w == Follow(a2, e2, f)
    <3>1. e3 = f /\ a3 = w
      BY <2>1
    <3> HIDE DEF ok, e3, a3
    <3>2. /\ f \in EncsOf(Cmds) /\ f.pos <= Cap /\ w \in Viewers
          /\ e2.overflow => f.overflow
          /\ w.cache = a2.cache
          /\ ~f.overflow => w.blank = (a2.blank \/ a2.cache[body.id] = None)
          /\ \A n \in Nat : Started(e2, n) => Started(f, n + 1)
      BY <1>5, <1>9, ImageDoes
    <3> HIDE DEF f, w
    <3> QED BY <1>3, <1>5, <2>1, <3>1, <3>2
  <2>2. CASE ~ok
    <3>1. e3 = e2
      BY <2>2
    <3>2. a3 = a2
      BY <1>9, <3>1, FollowSame
    <3> QED BY <1>9, <2>2, <3>1, <3>2
  <2> QED BY <2>1, <2>2
<1>11. Silent => ops' # 0 \/ ~ImagesFit
  <2> SUFFICES ASSUME Silent, ImagesFit, ops = 0 PROVE ok
    BY <1>3, <1>6
  <2> SUFFICES UploadFits(e, Size[src])
    OBVIOUS
  <2>1. ~enc.overflow /\ enc.pos = Start
    BY <1>6 DEF Silent
  <2>2. /\ Size[src] + BLOB_HDR_SIZE <= MaxPayload
        /\ Start + CMD_HDR_SIZE + PayloadLen["BLOB_EVICT"] + CMD_HDR_SIZE
             + BLOB_HDR_SIZE + Size[src] <= Cap
    BY <1>6 DEF ImagesFit, Start
  <2>3. Start = 12 /\ CMD_HDR_SIZE = 4 /\ PayloadLen["BLOB_EVICT"] = 4
          /\ BLOB_HDR_SIZE = 9
    BY DEF Start, CMD_HDR_SIZE, PayloadLen, BLOB_HDR_SIZE, FRAME_HDR_SIZE
  <2>4. Fits(enc, PayloadLen["BLOB_EVICT"])
    BY <1>3, <1>4, <2>1, <2>2, <2>3 DEF Fits
  <2>5. ~e.overflow /\ e.pos <= enc.pos + CMD_HDR_SIZE + PayloadLen["BLOB_EVICT"]
    BY <1>8, <2>1, <2>4
  <2>6. e.pos \in Nat
    BY <1>8 DEF EncsOf
  <2>7. Fits(e, BLOB_HDR_SIZE + Size[src])
    BY <1>3, <1>4, <2>1, <2>2, <2>3, <2>5, <2>6 DEF Fits
  <2> QED BY <2>2, <2>5, <2>7 DEF UploadFits
<1>12. ~up => Young(s)
  OBVIOUS
<1> HIDE DEF up, ok, e3, a3
<1>13. Started(enc, ops) => Started(enc', ops')
  BY <1>3, <1>6, <1>8, <1>9, <1>10
<1>14. ImageParts(src, p, i, s, e, a1, e2, a2, up, ok)
  BY <1>1, <1>6, <1>7, <1>8, <1>9, <1>10, <1>11, <1>12, <1>13
     DEF ImageParts
<1> QED BY <1>14

LEMMA ImageKeeps ==
    ASSUME DrawInv, NEW src \in Sources, NEW p \in Shows[src],
           DispatchImage(src, p)
    PROVE  DrawInv'
<1>1. TypeInv /\ SlotsOK(blobs)
  BY DEF DrawInv
<1>2. PICK i, s, e, a, r, v, up, ok : ImageParts(src, p, i, s, e, a, r, v, up, ok)
  BY <1>1, ImageIsParts
<1> DEFINE b == Taken(i, s)
<1>3. /\ i \in Slots /\ s \in SlotType /\ s.in_use
      /\ b \in Slotted /\ b[i] = s /\ SlotsOK(b)
  BY <1>1, <1>2, TakenTypes DEF ImageParts
<1> HIDE DEF b
<1>4. /\ Hit(src, i, s) \/ Miss(src, p, i, s)
      /\ Evicted(i, s, e, a)
      /\ ~up => Young(s)
      /\ IF up /\ ok THEN /\ Sends(b, i, e, a, r, v)
                          /\ blobs' = [b EXCEPT ![i] = Uploaded(b[i])]
         ELSE v = a /\ (e.overflow => r.overflow) /\ blobs' = b
      /\ r.overflow => enc'.overflow
      /\ ahead'.cache = v.cache
      /\ IF ok THEN /\ ops' = ops + 1
                    /\ ~enc'.overflow =>
                         ahead'.blank = (v.blank \/ v.cache[s.id] = None)
               ELSE /\ ops' = ops
                    /\ ahead'.blank = v.blank
      /\ frame_open /\ frame_open' = frame_open
      /\ frame_id' = frame_id /\ viewer' = viewer /\ shown' = shown
      /\ frames' = frames /\ spoiled' = spoiled
      /\ evictedAt' = IF Miss(src, p, i, s) /\ blobs[i].in_use
                      THEN blobs[i].used_at ELSE evictedAt
  BY <1>2 DEF ImageParts, b
<1>5. /\ enc' \in EncsOf(Cmds) /\ enc'.pos <= Cap /\ ahead' \in Viewers
      /\ Started(enc, ops) => Started(enc', ops')
      /\ Silent => ops' # 0 \/ ~ImagesFit
  BY <1>2 DEF ImageParts
<1>6. /\ frame_id \in Nat /\ frames \in Nat /\ ops \in Nat
      /\ enc'.pos \in 0..Cap /\ enc'.overflow \in BOOLEAN
  BY <1>1, <1>5, EncoderAssumption, DrawAssumption DEF TypeInv, DrawTypeOK, EncsOf
\* The slots in the end: as taken, but for what an upload records.
<1>7. /\ blobs' \in Slotted /\ SlotsOK(blobs')
      /\ \A j \in Slots : /\ blobs'[j].in_use = b[j].in_use
                          /\ blobs'[j].last_used = b[j].last_used
                          /\ blobs'[j].used_at = b[j].used_at
  <2>1. CASE blobs' = b
    BY <1>3, <2>1
  <2>2. CASE blobs' = [b EXCEPT ![i] = Uploaded(b[i])]
    <3>1. /\ Uploaded(s) \in SlotType
          /\ Uploaded(s).in_use = s.in_use /\ Uploaded(s).src = s.src
          /\ Uploaded(s).id = s.id /\ Uploaded(s).last_used = s.last_used
          /\ Uploaded(s).used_at = s.used_at
      BY <1>1, <1>3 DEF Uploaded, SlotType, TypeInv, DrawTypeOK
    <3>2. blobs'[i] = Uploaded(s) /\ \A j \in Slots \ {i} : blobs'[j] = b[j]
      BY <1>3, <2>2 DEF Slotted
    <3>3. blobs' \in Slotted
      BY <1>3, <2>2, <3>1 DEF Slotted
    <3>4. \A j \in Slots : /\ blobs'[j].in_use = b[j].in_use
                           /\ blobs'[j].src = b[j].src /\ blobs'[j].id = b[j].id
                           /\ blobs'[j].last_used = b[j].last_used
                           /\ blobs'[j].used_at = b[j].used_at
      BY <1>3, <3>1, <3>2
    <3>5. SlotsOK(blobs')
      BY <1>3, <3>2, <3>4 DEF SlotsOK
    <3> QED BY <3>3, <3>4, <3>5
  <2> QED BY <1>4, <2>1, <2>2
<1>8. TypeInv'
  <2>1. evictedAt' \in Nat
    BY <1>1, <1>3, <1>4 DEF TypeInv, DrawTypeOK, SlotType
  <2>2. ops' \in Nat
    BY <1>4, <1>6
  <2>3. DrawTypeOK'
    BY <1>1, <1>4, <1>5, <1>6, <1>7, <2>2
       DEF TypeInv, DrawTypeOK, Slotted, Viewers, Caches
  <2> QED BY <1>1, <1>4, <1>5, <2>1, <2>3 DEF TypeInv
<1>9. SentInv'
  <2> SUFFICES ASSUME OwnPixels, ~spoiled, frames < IdMod
               PROVE  Sent(blobs', enc', ahead') /\ Drawn(blobs', ops')
    BY <1>4 DEF SentInv, Sent, Drawn
  <2>1. Sent(blobs, enc, ahead) /\ Drawn(blobs, ops)
    BY DEF DrawInv, SentInv
  <2>2. Sent(b, e, a)
    BY <1>1, <1>4, <2>1, TakenSent DEF b
  <2>3. Sent(blobs', r, v) /\ (up /\ ok => v.cache[s.id] # None)
    <3>1. CASE up /\ ok
      BY <1>1, <1>3, <1>4, <2>2, <3>1, UploadedSent DEF Sends
    <3>2. CASE ~(up /\ ok)
      BY <1>4, <2>2, <3>2, LaterSent
    <3> QED BY <3>1, <3>2
  <2>4. Sent(blobs', enc', ahead')
    <3>1. CASE ok
      <4>1. ASSUME ~r.overflow, v.cache[s.id] = None
            PROVE  viewer.age < Period
        <5>1. ~up
          BY <2>3, <3>1, <4>1
        <5>2. Young(s) /\ s.uploaded
          BY <1>4, <5>1 DEF Young
        <5>3. s.last_uploaded <= frame_id
          BY <1>3, <2>2, <5>2 DEF Sent
        <5>4. frame_id - s.last_uploaded < Period
          BY <1>1, <1>3, <5>2, <5>3, YoungAge
        <5>5. ~(frame_id - s.last_uploaded <= viewer.age)
          BY <1>3, <1>4, <2>2, <4>1, <5>1, <5>2 DEF Sent
        <5>6. frame_id - s.last_uploaded \in Int /\ viewer.age \in Int /\ Period \in Int
          BY <1>1, <1>3, DrawAssumption DEF TypeInv, DrawTypeOK, SlotType
        <5> QED BY <5>4, <5>5, <5>6
      <4>2. /\ r.overflow => enc'.overflow
            /\ ahead'.cache = v.cache
            /\ ~enc'.overflow => ahead'.blank = (v.blank \/ v.cache[s.id] = None)
            /\ frame_open /\ ~r.overflow /\ v.cache[s.id] = None
                 => viewer.age < Period
        BY <1>4, <3>1, <4>1
      <4> QED BY <2>3, <4>2, DrawnSent
    <3>2. CASE ~ok
      BY <1>4, <2>3, <3>2 DEF Sent
    <3> QED BY <3>1, <3>2
  <2>5. Drawn(blobs', ops')
    <3>1. CASE ok
      BY <1>4, <1>6, <3>1 DEF Drawn
    <3>2. CASE ~ok
      <4> SUFFICES ASSUME NEW j \in Slots, b[j].uploaded,
                          b[j].last_uploaded = frame_id
                   PROVE  frame_open /\ ops > 0
        BY <1>4, <3>2 DEF Drawn
      <4>1. blobs[j].uploaded /\ blobs[j].last_uploaded = frame_id
        <5>1. CASE j = i
          BY <1>1, <1>3, <1>4, <5>1, TakenSame
        <5>2. CASE j # i
          BY <1>1, <1>4, <5>2, TakenTypes DEF b
        <5> QED BY <5>1, <5>2
      <4> QED BY <2>1, <4>1 DEF Drawn
    <3> QED BY <3>1, <3>2
  <2> QED BY <2>4, <2>5
<1>10. NoRoguesInv'
  <2> SUFFICES ASSUME ImagesFit, ~spoiled, ~viewer.gap, ~enc'.overflow
               PROVE  Known(blobs', ahead'.cache)
    BY <1>4 DEF NoRoguesInv, Known
  <2>1. ~enc.overflow => Known(blobs, ahead.cache)
    BY <1>4 DEF DrawInv, NoRoguesInv
  <2>2. ~e.overflow
    BY <1>4 DEF Sends
  <2>3. Known(b, a.cache)
    BY <1>1, <1>4, <2>1, <2>2, TakenKnown DEF b
  <2>4. CASE up /\ ok
    BY <1>3, <1>4, <2>3, <2>4, UploadedKnown
  <2>5. CASE ~(up /\ ok)
    BY <1>4, <2>3, <2>5
  <2> QED BY <2>4, <2>5
<1>11. LruInv'
  <2> SUFFICES ASSUME frames < IdMod
               PROVE  /\ Dated(blobs')
                      /\ evictedAt' <= frames
                      /\ \A j \in Slots : blobs'[j].in_use
                                            => evictedAt' <= blobs'[j].used_at
    BY <1>4 DEF LruInv, Dated, EvictsOldest
  <2>1. Dated(blobs) /\ evictedAt <= frames /\ EvictsOldest
    BY DEF DrawInv, LruInv
  <2>2. Dated(b)
    BY <1>1, <1>4, <2>1, TakenDated DEF b
  <2>3. /\ evictedAt' <= frames
        /\ \A j \in Slots : b[j].in_use => evictedAt' <= b[j].used_at
    BY <1>1, <1>4, <2>1, TakenOldest DEF b
  <2> QED BY <1>7, <2>2, <2>3 DEF Dated
<1>12. Silent'
  BY <1>4, <1>5 DEF DrawInv, Silent
<1>13. FrameInv'
  BY <1>4, <1>5 DEF DrawInv, FrameInv, Started
<1>14. NoBlank' /\ FramesWhole'
  BY <1>4 DEF DrawInv, NoBlank, NoWrap, FramesWhole
<1> QED
  BY <1>7, <1>8, <1>9, <1>10, <1>11, <1>12, <1>13, <1>14 DEF DrawInv, SlotsOK

----------------------------------------------------------------------------
(* The other tasks *)

\* r and n are the buffer and the operations after some commands were drawn.
Draws(r, n) ==
    /\ r \in EncsOf(Cmds) /\ r.pos <= Cap
    /\ enc.overflow => r.overflow
    /\ n \in Nat
    /\ Started(enc, ops) => Started(r, n)
    /\ n = 0 => ops = 0 /\ r = enc

LEMMA DrawsMore ==
    ASSUME TypeInv, NEW r, NEW n, Draws(r, n), NEW op \in Ops \cup LineOps
    PROVE  Draws(EncOp(r, op, NoBody), n + 1)
<1> DEFINE q == EncOp(r, op, NoBody)
<1>1. op \in DOMAIN PayloadLen /\ op \in Drawing /\ NoBody \in Bodies
  BY DrawAssumption DEF Drawing, Bodies
<1>2. r \in EncsOf(Cmds) /\ r.pos <= Cap /\ n \in Nat
  BY DEF Draws
<1>3. Writes(q, r, op, PayloadLen[op], NoBody)
  BY <1>1, <1>2, EncOpWrites
<1> HIDE DEF q
<1>4. Started(r, n) => Started(q, n + 1)
  BY <1>1, <1>2, <1>3, WritesStarted
<1>5. /\ q \in EncsOf(Cmds) /\ q.pos <= Cap
      /\ r.overflow => q.overflow
  BY <1>3 DEF Writes
<1>6. n + 1 \in Nat /\ n + 1 # 0
  BY <1>2
<1>7. Draws(q, n + 1)
  BY <1>4, <1>5, <1>6 DEF Draws
<1> QED BY <1>7 DEF q

LEMMA DrawsNothing ==
    ASSUME TypeInv
    PROVE  Draws(enc, ops)
BY EncoderAssumption DEF TypeInv, DrawTypeOK, Draws

LEMMA DrawsKeep ==
    ASSUME DrawInv, Draws(enc', ops'), frame_open,
           UNCHANGED <<frame_id, frame_open, blobs, ghostVars>>
    PROVE  DrawInv'
<1>1. /\ frame_id' = frame_id /\ frame_open' = frame_open /\ blobs' = blobs
      /\ viewer' = viewer /\ ahead' = ahead /\ shown' = shown
      /\ frames' = frames /\ spoiled' = spoiled /\ evictedAt' = evictedAt
  BY DEF ghostVars
<1>2. TypeInv /\ ops \in Nat /\ Cap \in Nat
  BY EncoderAssumption DEF DrawInv, TypeInv, DrawTypeOK
<1>3. TypeInv'
  <2>1. enc'.pos \in 0..Cap /\ enc'.overflow \in BOOLEAN /\ ops' \in Nat
    BY <1>2 DEF Draws, EncsOf
  <2>2. DrawTypeOK'
    BY <1>1, <1>2, <2>1 DEF TypeInv, DrawTypeOK
  <2> QED BY <1>1, <1>2, <2>2 DEF TypeInv, Draws
<1>4. FrameInv'
  BY <1>1 DEF DrawInv, FrameInv, Draws, Started
<1>5. SentInv'
  <2> SUFFICES ASSUME OwnPixels, ~spoiled, frames < IdMod
               PROVE  Sent(blobs, enc', ahead) /\ Drawn(blobs, ops')
    BY <1>1 DEF SentInv, Sent, Drawn
  <2>1. Sent(blobs, enc, ahead) /\ Drawn(blobs, ops)
    BY DEF DrawInv, SentInv
  <2>2. Sent(blobs, enc', ahead)
    BY <2>1, LaterSent DEF Draws
  <2>3. ops > 0 => ops' > 0
    BY <1>2 DEF Draws
  <2> QED BY <2>1, <2>2, <2>3 DEF Drawn
<1>6. Silent'
  BY <1>1 DEF DrawInv, Silent, Draws
<1>7. NoRoguesInv'
  BY <1>1 DEF DrawInv, NoRoguesInv, Known, Draws
<1>8. LruInv' /\ SlotsOK(blobs')
  BY <1>1 DEF DrawInv, LruInv, Dated, EvictsOldest, SlotsOK
<1>9. NoBlank' /\ FramesWhole'
  BY <1>1 DEF DrawInv, NoBlank, NoWrap, FramesWhole
<1> QED
  BY <1>3, <1>4, <1>5, <1>6, <1>7, <1>8, <1>9 DEF DrawInv, SlotsOK

\* f[k] is the buffer and the operations after k segments, for k up to n.
Lines(f, op, n) ==
    f = [k \in 0..n |-> IF k = 0 THEN [enc |-> enc, ops |-> ops]
                        ELSE Segment(f[k-1], k, op)]

LEMMA LinesFacts ==
    ASSUME NEW op, NEW n \in Nat, NEW f, Lines(f, op, n)
    PROVE  /\ f[0] = [enc |-> enc, ops |-> ops]
           /\ \A k \in 1..n : f[k] = Segment(f[k-1], k, op)
<1> DEFINE F(k) == IF k = 0 THEN [enc |-> enc, ops |-> ops]
                   ELSE Segment(f[k-1], k, op)
<1>1. f = [k \in 0..n |-> F(k)]
  BY DEF Lines
<1> HIDE DEF F
<1>2. \A k \in 0..n : f[k] = F(k)
  BY <1>1
<1> QED BY <1>2 DEF F

LEMMA LinesBuild ==
    ASSUME NEW op, NEW n \in Nat, NEW f, DefinedOn(f, n),
           f[0] = [enc |-> enc, ops |-> ops],
           \A k \in 1..n : f[k] = Segment(f[k-1], k, op)
    PROVE  Lines(f, op, n)
<1> DEFINE F(k) == IF k = 0 THEN [enc |-> enc, ops |-> ops]
                   ELSE Segment(f[k-1], k, op)
<1>1. ASSUME NEW k \in 0..n PROVE f[k] = F(k)
  <2>1. CASE k = 0
    BY <2>1
  <2>2. CASE k # 0
    <3>1. k \in 1..n
      BY <2>2
    <3> QED BY <2>2, <3>1
  <2> QED BY <2>1, <2>2
<1> HIDE DEF F
<1>2. f = [k \in 0..n |-> F(k)]
  BY <1>1, Zenon DEF DefinedOn
<1> QED BY <1>2 DEF F, Lines

\* The loop ends, whatever the segments do to the buffer.
LEMMA LinesExist ==
    ASSUME NEW op, NEW n \in Nat
    PROVE  \E f : Lines(f, op, n)
<1> DEFINE S == {m \in Nat : \E f : Lines(f, op, m)}
<1>1. 0 \in S
  <2> DEFINE f == [k \in 0..0 |-> [enc |-> enc, ops |-> ops]]
  <2>1. f[0] = [enc |-> enc, ops |-> ops] /\ DefinedOn(f, 0)
    BY DEF DefinedOn
  <2> HIDE DEF f
  <2>2. \A k \in 1..0 : f[k] = Segment(f[k-1], k, op)
    OBVIOUS
  <2>3. Lines(f, op, 0)
    BY <2>1, <2>2, LinesBuild
  <2> QED BY <2>3
<1>2. ASSUME NEW m \in 0..n-1, m \in S PROVE m + 1 \in S
  <2>1. PICK g : Lines(g, op, m)
    BY <1>2
  <2>2. /\ g[0] = [enc |-> enc, ops |-> ops]
        /\ \A k \in 1..m : g[k] = Segment(g[k-1], k, op)
    BY <2>1, LinesFacts
  <2> DEFINE f == [k \in 0..m+1 |->
                     IF k = m + 1 THEN Segment(g[m], m + 1, op) ELSE g[k]]
  <2>3. DefinedOn(f, m+1)
    BY DEF DefinedOn
  <2>4. \A k \in 0..m : f[k] = g[k]
    OBVIOUS
  <2>5. f[m+1] = Segment(g[m], m + 1, op)
    OBVIOUS
  <2> HIDE DEF f
  <2>6. f[0] = [enc |-> enc, ops |-> ops]
    BY <2>2, <2>4
  <2>7. ASSUME NEW k \in 1..m+1 PROVE f[k] = Segment(f[k-1], k, op)
    <3>1. CASE k = m + 1
      <4>1. k - 1 = m /\ m \in 0..m
        BY <3>1
      <4> QED BY <2>4, <2>5, <3>1, <4>1
    <3>2. CASE k # m + 1
      <4>1. k \in 1..m /\ k \in 0..m /\ k - 1 \in 0..m
        BY <3>2
      <4> QED BY <2>2, <2>4, <4>1
    <3> QED BY <3>1, <3>2
  <2>8. Lines(f, op, m+1)
    BY <2>3, <2>6, <2>7, LinesBuild
  <2> QED BY <2>8
<1> HIDE DEF S
<1>3. n \in 0..n /\ 0..n \subseteq S
  BY <1>1, <1>2, UpTo
<1> QED BY <1>3 DEF S

\* A line, of any number of segments.
LEMMA LineKeeps ==
    ASSUME DrawInv, NEW op \in LineOps, NEW n \in Nat, DispatchLine(op, n)
    PROVE  DrawInv'
<1> DEFINE segment == CHOOSE f : Lines(f, op, n)
<1>1. /\ frame_open
      /\ enc' = segment[n].enc /\ ops' = segment[n].ops
      /\ UNCHANGED <<frame_id, frame_open, blobs, ghostVars>>
  BY Zenon DEF DispatchLine, Lines
<1>2. Lines(segment, op, n)
  BY LinesExist, Zenon
<1> HIDE DEF segment
<1>3. /\ segment[0] = [enc |-> enc, ops |-> ops]
      /\ \A k \in 1..n : segment[k] = Segment(segment[k-1], k, op)
  BY <1>2, LinesFacts
<1> DEFINE S == {k \in Nat : k \in 0..n => Draws(segment[k].enc, segment[k].ops)}
<1>4. 0 \in S
  BY <1>3, DrawsNothing DEF DrawInv
<1>5. ASSUME NEW k \in 0..n-1, k \in S PROVE k + 1 \in S
  <2>1. k \in 0..n /\ k + 1 \in 1..n /\ (k + 1) - 1 = k /\ k + 1 \in Nat
    OBVIOUS
  <2>2. segment[k+1] = Segment(segment[k], k + 1, op)
    BY <1>3, <2>1
  <2>3. Draws(segment[k].enc, segment[k].ops)
    BY <1>5, <2>1
  <2>4. TypeInv
    BY DEF DrawInv
  <2>5. Draws(segment[k+1].enc, segment[k+1].ops)
    <3>1. CASE segment[k+1] = segment[k]
      BY <2>3, <3>1
    <3>2. CASE segment[k+1] = [enc |-> EncOp(segment[k].enc, op, NoBody),
                               ops |-> segment[k].ops + 1]
      BY <2>3, <2>4, <3>2, DrawsMore
    <3> QED BY <2>2, <3>1, <3>2 DEF Segment
  <2> QED BY <2>1, <2>5
<1> HIDE DEF S
<1>6. n \in 0..n /\ 0..n \subseteq S
  BY <1>4, <1>5, UpTo
<1>7. Draws(enc', ops')
  BY <1>1, <1>6 DEF S
<1> QED BY <1>1, <1>7, DrawsKeep

LEMMA OpKeeps ==
    ASSUME DrawInv, NEW op \in Ops, DispatchOp(op)
    PROVE  DrawInv'
<1>1. Draws(enc', ops')
  BY DrawsNothing, DrawsMore DEF DispatchOp, DrawInv
<1> QED BY <1>1, DrawsKeep DEF DispatchOp

----------------------------------------------------------------------------
(* The frame around the tasks *)

\* The frame a refresh cycle begins with: BEGIN_FRAME, or not even that.
LEMMA BegunFrame ==
    LET e == EncBeginFrame(EncInit) IN
    /\ e \in EncsOf(Cmds) /\ e.pos <= Cap
    /\ Started(e, 0)
    /\ Start <= Cap => ~e.overflow /\ e.pos = Start
<1> DEFINE e == EncBeginFrame(EncInit)
           z == [EncInit EXCEPT !.pos = FRAME_HDR_SIZE, !.cmd_count = 0,
                                !.cmds = <<>>, !.frame_open = TRUE]
<1>1. /\ Cap \in Nat /\ CountMod \in Nat \ {0} /\ FRAME_HDR_SIZE = 4
      /\ CMD_HDR_SIZE = 4 /\ PayloadLen["BEGIN_FRAME"] = 4
      /\ "BEGIN_FRAME" \in DOMAIN PayloadLen
  BY EncoderAssumption DEF FRAME_HDR_SIZE, CMD_HDR_SIZE, PayloadLen
<1>2. EncInit \in EncsOf(Cmds) /\ EncInit.pos = 0 /\ ~EncInit.overflow
  BY <1>1 DEF EncInit, EncsOf
<1>3. CASE Cap < FRAME_HDR_SIZE
  <2>1. e = [EncInit EXCEPT !.overflow = TRUE]
    BY <1>3 DEF EncBeginFrame
  <2>2. /\ e \in EncsOf(Cmds) /\ e.pos = 0 /\ e.overflow
    BY <1>2, <2>1 DEF EncsOf
  <2> QED BY <1>1, <1>3, <2>2 DEF Started, Start
<1>4. CASE ~(Cap < FRAME_HDR_SIZE)
  <2>1. e = EncOp(z, "BEGIN_FRAME", NoBody)
    BY <1>4 DEF EncBeginFrame
  <2>2. /\ z \in EncsOf(Cmds) /\ z.pos = 4 /\ z.cmds = <<>> /\ ~z.overflow
    <3>1. 0 \in 0..CountMod-1
      BY <1>1
    <3>2. z.cmds = <<>> /\ z.pos = 4 /\ ~z.overflow
      BY <1>1, <1>2 DEF EncsOf
    <3>3. z \in EncsOf(Cmds)
      <4>1. FRAME_HDR_SIZE \in Nat /\ <<>> \in Seq(Cmds)
        BY <1>1
      <4> QED BY <1>2, <3>1, <4>1 DEF EncsOf
    <3> QED BY <3>2, <3>3
  <2> HIDE DEF z, e
  <2>3. Writes(e, z, "BEGIN_FRAME", PayloadLen["BEGIN_FRAME"], NoBody)
    BY <1>1, <1>4, <2>1, <2>2, EncOpWrites DEF Bodies
  <2>4. e \in EncsOf(Cmds) /\ e.pos <= Cap
    BY <2>3 DEF Writes
  <2>5. ASSUME ~e.overflow
        PROVE  e.cmds # <<>> /\ e.cmds[1].op = "BEGIN_FRAME"
    <3>1. z \in EncsOf(Cmds)
      BY <2>2
    <3>2. /\ Len(e.cmds) = Len(z.cmds) + 1
          /\ e.cmds[Len(e.cmds)].op = "BEGIN_FRAME"
          /\ e.cmds # <<>>
      BY <2>3, <2>5, <3>1, WritesCmds
    <3>3. Len(e.cmds) = 1
      BY <2>2, <3>2
    <3> QED BY <3>2, <3>3
  <2>6. Start <= Cap => ~e.overflow /\ e.pos = Start
    BY <1>1, <2>2, <2>3 DEF Start, Fits, Writes
  <2>7. Started(e, 0)
    BY <2>5 DEF Started
  <2> QED BY <2>4, <2>6, <2>7 DEF e
<1> QED BY <1>3, <1>4

\* The frame as it is closed.
LEMMA EndedFrame ==
    ASSUME TypeInv
    PROVE  LET e == EncEndFrame(enc) IN
           /\ e \in EncsOf(Cmds) /\ e.pos <= Cap
           /\ enc.overflow => e.overflow
           /\ EncFinalize(e) # 0 => ~e.overflow
           /\ ~e.overflow /\ Started(enc, ops) /\ ops > 0 => Whole(e.cmds)
<1> DEFINE r == EncOp(enc, "END_FRAME", NoBody)
           e == EncEndFrame(enc)
<1>1. e = [r EXCEPT !.frame_open = FALSE]
  BY DEF EncEndFrame
<1>2. /\ enc \in EncsOf(Cmds) /\ enc.pos <= Cap /\ NoBody \in Bodies
      /\ "END_FRAME" \in DOMAIN PayloadLen /\ ops \in Nat
  BY EncoderAssumption DEF TypeInv, DrawTypeOK, Bodies, PayloadLen
<1>3. Writes(r, enc, "END_FRAME", PayloadLen["END_FRAME"], NoBody)
  BY <1>2, EncOpWrites
<1> HIDE DEF r, e
<1>4. /\ r \in EncsOf(Cmds) /\ r.pos <= Cap /\ (enc.overflow => r.overflow)
  BY <1>3 DEF Writes
<1>5. /\ e \in EncsOf(Cmds) /\ e.pos = r.pos /\ e.cmds = r.cmds
      /\ e.overflow = r.overflow
  BY <1>1, <1>4 DEF EncsOf
<1>6. EncFinalize(e) # 0 => ~e.overflow
  BY DEF EncFinalize
<1>7. ASSUME ~r.overflow, Started(enc, ops), ops > 0
      PROVE  Whole(r.cmds)
  <2>1. Started(r, ops)
    BY <1>2, <1>3, <1>7, WritesStarted
  <2>2. r.cmds[Len(r.cmds)].op = "END_FRAME"
    BY <1>2, <1>3, <1>7, WritesCmds
  <2> QED BY <1>7, <2>1, <2>2 DEF Started, Whole, Drawing
<1> QED BY <1>4, <1>5, <1>6, <1>7 DEF e

LEMMA BeginKeeps == DrawInv /\ BeginFrame => DrawInv'
<1> SUFFICES ASSUME DrawInv, BeginFrame PROVE DrawInv'
  OBVIOUS
<1>1. /\ ~frame_open /\ frame_open' = TRUE
      /\ enc' = EncBeginFrame(EncInit) /\ ops' = 0
      /\ ahead' = [Fresh EXCEPT !.cache = viewer.cache]
      /\ shown' = NothingWrong /\ evictedAt' = 0
      /\ frame_id' = frame_id /\ blobs' = blobs /\ viewer' = viewer
      /\ frames' = frames /\ spoiled' = spoiled
  BY DEF BeginFrame
<1>2. /\ enc' \in EncsOf(Cmds) /\ enc'.pos <= Cap
      /\ Started(enc', 0)
      /\ Start <= Cap => ~enc'.overflow /\ enc'.pos = Start
  BY <1>1, BegunFrame
<1>3. /\ viewer.cache \in Caches
      /\ ahead' \in Viewers /\ ahead'.cache = viewer.cache /\ ~ahead'.blank
  <2>1. viewer.cache \in Caches
    BY DEF DrawInv, TypeInv, DrawTypeOK, Caches
  <2> QED BY <1>1, <2>1 DEF Fresh, Viewers
<1>4. TypeInv'
  <2>1. enc'.pos \in 0..Cap /\ enc'.overflow \in BOOLEAN
    BY <1>2, EncoderAssumption DEF EncsOf
  <2>2. DrawTypeOK'
    BY <1>1, <1>3, <2>1 DEF DrawInv, TypeInv, DrawTypeOK, Viewers, Caches
  <2> QED BY <1>1, <1>2, <2>2 DEF DrawInv, TypeInv
<1>5. FrameInv'
  BY <1>1, <1>2 DEF FrameInv
<1>6. SentInv'
  <2> SUFFICES ASSUME OwnPixels, ~spoiled, frames < IdMod
               PROVE  /\ \A i \in Slots : blobs[i].uploaded =>
                           /\ blobs[i].last_uploaded < frame_id
                           /\ frame_id - blobs[i].last_uploaded <= viewer.age
                                => viewer.cache[blobs[i].id] # None
    BY <1>1, <1>3, <1>4 DEF SentInv, Sent, Drawn, TypeInv, DrawTypeOK, SlotType
  <2>1. Sent(blobs, enc, ahead) /\ Drawn(blobs, ops)
    BY DEF DrawInv, SentInv
  <2> SUFFICES ASSUME NEW i \in Slots, blobs[i].uploaded
               PROVE  /\ blobs[i].last_uploaded < frame_id
                      /\ frame_id - blobs[i].last_uploaded <= viewer.age
                           => viewer.cache[blobs[i].id] # None
    OBVIOUS
  <2>2. blobs[i].last_uploaded <= frame_id /\ blobs[i].last_uploaded # frame_id
    BY <1>1, <2>1 DEF Sent, Drawn
  <2>3. blobs[i].last_uploaded \in Int /\ frame_id \in Int
    BY DrawAssumption DEF DrawInv, TypeInv, DrawTypeOK, SlotType
  <2>4. blobs[i].last_uploaded < frame_id
    BY <2>2, <2>3
  <2> QED BY <2>1, <2>4 DEF Sent
<1>7. NoBlank'
  BY <1>1, DrawAssumption DEF NoBlank, NothingWrong
<1>8. Silent'
  BY <1>1, <1>2, <1>3 DEF Silent, ImagesFit, Start
<1>9. NoRoguesInv'
  BY <1>1, <1>3 DEF DrawInv, NoRoguesInv, Known
<1>10. LruInv'
  <2>1. frames \in Nat /\ \A i \in Slots : blobs[i].used_at \in Nat
    BY DEF DrawInv, TypeInv, DrawTypeOK, SlotType
  <2> QED BY <1>1, <2>1 DEF DrawInv, LruInv, Dated, EvictsOldest
<1>11. FramesWhole' /\ SlotsOK(blobs')
  BY <1>1 DEF DrawInv, FramesWhole, NothingWrong, SlotsOK
<1> QED
  BY <1>4, <1>5, <1>6, <1>7, <1>8, <1>9, <1>10, <1>11 DEF DrawInv, SlotsOK

\* A frame is closed and not broadcast.
LEMMA DroppedKeeps == DrawInv /\ (FlushEmpty \/ FlushOverflow) => DrawInv'
<1> SUFFICES ASSUME DrawInv, FlushEmpty \/ FlushOverflow PROVE DrawInv'
  OBVIOUS
<1>1. /\ frame_open /\ frame_open' = FALSE /\ ahead' = Fresh
      /\ ops' = ops /\ frame_id' = frame_id /\ blobs' = blobs
      /\ viewer' = viewer /\ shown' = shown
      /\ frames' = frames /\ evictedAt' = evictedAt
      /\ \/ ~HasOps /\ enc' = enc /\ spoiled' = spoiled
         \/ enc' = EncEndFrame(enc) /\ spoiled' = TRUE
  BY DEF FlushEmpty, FlushOverflow
<1>2. enc' \in EncsOf(Cmds) /\ enc'.pos <= Cap
  BY <1>1, EndedFrame, EncoderAssumption DEF DrawInv, TypeInv, DrawTypeOK
<1>3. Fresh \in Viewers
  BY DEF Fresh, Viewers, Caches
<1>4. TypeInv'
  <2>1. enc'.pos \in 0..Cap /\ enc'.overflow \in BOOLEAN
    BY <1>2, EncoderAssumption DEF EncsOf
  <2>2. DrawTypeOK'
    BY <1>1, <1>3, <2>1 DEF DrawInv, TypeInv, DrawTypeOK, Viewers, Caches
  <2> QED BY <1>1, <1>2, <2>2 DEF DrawInv, TypeInv
<1>5. FrameInv' /\ Silent'
  BY <1>1 DEF FrameInv, Silent
<1>6. SentInv'
  <2> SUFFICES ASSUME OwnPixels, ~spoiled', frames < IdMod
               PROVE  \A i \in Slots : blobs[i].uploaded =>
                        /\ blobs[i].last_uploaded <= frame_id
                        /\ blobs[i].last_uploaded < frame_id
                             /\ frame_id - blobs[i].last_uploaded <= viewer.age
                             => viewer.cache[blobs[i].id] # None
                        /\ blobs[i].last_uploaded # frame_id
    BY <1>1 DEF SentInv, Sent, Drawn
  <2>1. Sent(blobs, enc, ahead) /\ Drawn(blobs, ops) /\ ~HasOps
    BY <1>1 DEF DrawInv, SentInv
  <2> QED BY <2>1 DEF Sent, Drawn, HasOps
<1>7. NoBlank'
  <2>1. shown = NothingWrong
    BY <1>1 DEF DrawInv, FrameInv
  <2> QED BY <1>1, <2>1, DrawAssumption DEF NoBlank, NothingWrong
<1>8. NoRoguesInv'
  <2> SUFFICES ASSUME ImagesFit, ~spoiled', ~viewer.gap
               PROVE  Known(blobs, viewer.cache)
    BY <1>1 DEF NoRoguesInv, Known
  <2>1. ~spoiled /\ ops = 0
    BY <1>1 DEF HasOps, DrawInv, TypeInv, DrawTypeOK
  <2> QED BY <1>1, <2>1 DEF DrawInv, NoRoguesInv, Silent
<1>9. LruInv' /\ FramesWhole' /\ SlotsOK(blobs')
  BY <1>1 DEF DrawInv, LruInv, Dated, EvictsOldest, FramesWhole, SlotsOK
<1> QED
  BY <1>4, <1>5, <1>6, <1>7, <1>8, <1>9 DEF DrawInv, SlotsOK

\* The frame is broadcast; whether the viewer gets it or not, it has what it has
\* been sent, or has a gap.
LEMMA BroadcastKeeps == DrawInv /\ (Flush \/ FlushMissed) => DrawInv'
<1> SUFFICES ASSUME DrawInv, Flush \/ FlushMissed PROVE DrawInv'
  OBVIOUS
<1>1. /\ frame_open /\ HasOps /\ frame_open' = FALSE /\ ahead' = Fresh
      /\ enc' = EncEndFrame(enc) /\ EncFinalize(enc') # 0
      /\ frame_id' = (frame_id + 1) % IdMod /\ frames' = frames + 1
      /\ ops' = ops /\ blobs' = blobs
      /\ spoiled' = spoiled /\ evictedAt' = evictedAt
  BY DEF Flush, FlushMissed, Broadcast
<1>2. \/ /\ viewer' = [viewer EXCEPT !.age = IF @ < Period THEN @ + 1 ELSE Period,
                                     !.cache = ahead.cache]
         /\ shown' = [age |-> viewer.age, blank |-> ahead.blank,
                      stale |-> ahead.stale, whole |-> Whole(enc'.cmds)]
      \/ /\ viewer' = [viewer EXCEPT !.age = 0, !.gap = TRUE]
         /\ shown' = shown
  BY DEF Flush, FlushMissed
<1>3. /\ enc' \in EncsOf(Cmds) /\ enc'.pos <= Cap /\ ~enc.overflow
      /\ Whole(enc'.cmds)
  BY <1>1, EndedFrame DEF DrawInv, FrameInv, HasOps, TypeInv, DrawTypeOK
<1>4. /\ frame_id \in 0..IdMod-1 /\ frames \in Nat /\ IdMod \in Nat \ {0}
      /\ Period \in Nat \ {0} /\ viewer.age \in 0..Period
      /\ shown = NothingWrong
  BY <1>1, DrawAssumption DEF DrawInv, TypeInv, DrawTypeOK, FrameInv
<1>5. /\ viewer.cache \in Caches /\ ahead.cache \in Caches /\ Fresh \in Viewers
      /\ viewer \in [age : 0..Period, cache : Caches, gap : BOOLEAN]
  BY DEF DrawInv, TypeInv, DrawTypeOK, Caches, Fresh, Viewers
<1>6. viewer' \in [age : 0..Period, cache : Caches, gap : BOOLEAN]
  <2>1. (IF viewer.age < Period THEN viewer.age + 1 ELSE Period) \in 0..Period
    BY <1>4
  <2>2. 0 \in 0..Period
    BY <1>4
  <2> QED BY <1>2, <1>5, <2>1, <2>2
<1>7. frame_id' \in 0..IdMod-1 /\ frames' \in Nat
  BY <1>1, <1>4
<1>8. TypeInv'
  <2>1. enc'.pos \in 0..Cap /\ enc'.overflow \in BOOLEAN
    BY <1>3, EncoderAssumption DEF EncsOf
  <2>2. DrawTypeOK'
    BY <1>1, <1>5, <1>6, <1>7, <2>1 DEF DrawInv, TypeInv, DrawTypeOK, Viewers, Caches
  <2> QED BY <1>1, <1>3, <1>7, <2>2 DEF DrawInv, TypeInv
<1>9. FrameInv' /\ Silent'
  BY <1>1 DEF FrameInv, Silent
<1>10. frames' < IdMod /\ frame_id <= frames => frame_id' = frame_id + 1
  <2> SUFFICES ASSUME frames + 1 < IdMod, frame_id <= frames
               PROVE  (frame_id + 1) % IdMod = frame_id + 1
    BY <1>1
  <2>1. frame_id + 1 \in Nat /\ frame_id + 1 < IdMod
    BY <1>4
  <2> QED BY <1>4, <2>1
<1>11. SentInv'
  <2> SUFFICES ASSUME OwnPixels, ~spoiled, frames + 1 < IdMod
               PROVE  \A i \in Slots : blobs[i].uploaded =>
                        /\ blobs[i].last_uploaded < frame_id'
                        /\ frame_id' - blobs[i].last_uploaded <= viewer'.age
                             => viewer'.cache[blobs[i].id] # None
    BY <1>1, <1>8 DEF SentInv, Sent, Drawn, TypeInv, DrawTypeOK, SlotType
  <2> SUFFICES ASSUME NEW i \in Slots, blobs[i].uploaded
               PROVE  /\ blobs[i].last_uploaded < frame_id'
                      /\ frame_id' - blobs[i].last_uploaded <= viewer'.age
                           => viewer'.cache[blobs[i].id] # None
    OBVIOUS
  <2>1. frames < IdMod /\ frames' < IdMod
    BY <1>1, <1>4
  <2>2. frame_id' = frame_id + 1
    BY <1>10, <2>1 DEF DrawInv, LruInv, Dated
  <2>3. Sent(blobs, enc, ahead)
    BY <2>1 DEF DrawInv, SentInv
  <2>4. /\ blobs[i].last_uploaded \in Nat
        /\ blobs[i].last_uploaded <= frame_id
        /\ frame_id - blobs[i].last_uploaded <= viewer.age
             => ahead.cache[blobs[i].id] # None
    <3>1. blobs[i].last_uploaded \in Nat
      BY DrawAssumption DEF DrawInv, TypeInv, DrawTypeOK, SlotType
    <3> QED BY <1>1, <1>3, <2>3, <3>1 DEF Sent
  <2> DEFINE lu == blobs[i].last_uploaded
  <2>5. lu < frame_id'
    BY <1>4, <2>2, <2>4
  <2>6. CASE viewer' = [viewer EXCEPT !.age = 0, !.gap = TRUE]
    <3>1. viewer'.age = 0
      BY <1>5, <2>6
    <3> QED BY <1>4, <2>2, <2>4, <2>5, <3>1
  <2>7. CASE viewer' = [viewer EXCEPT !.age = IF @ < Period THEN @ + 1 ELSE Period,
                                      !.cache = ahead.cache]
    <3>1. /\ viewer'.age = (IF viewer.age < Period THEN viewer.age + 1 ELSE Period)
          /\ viewer'.cache = ahead.cache
      BY <1>5, <2>7
    <3>2. viewer'.age <= viewer.age + 1
      BY <1>4, <3>1
    <3>3. viewer'.age \in Int /\ viewer.age \in Int /\ frame_id \in Int
      BY <1>4, <3>1
    <3>4. frame_id' - lu <= viewer'.age => frame_id - lu <= viewer.age
      BY <2>2, <2>4, <3>2, <3>3
    <3> QED BY <2>4, <2>5, <3>1, <3>4
  <2> QED BY <1>2, <2>6, <2>7
<1>12. NoBlank'
  <2>1. CASE shown' = shown
    BY <1>4, <2>1, DrawAssumption DEF NoBlank, NothingWrong
  <2>2. CASE shown' = [age |-> viewer.age, blank |-> ahead.blank,
                       stale |-> ahead.stale, whole |-> Whole(enc'.cmds)]
    <3> SUFFICES ASSUME OwnPixels, ~spoiled, frames' <= IdMod, ahead.blank
                 PROVE  ~(viewer.age >= Period)
      BY <1>1, <1>7, <2>2 DEF NoBlank, NoWrap
    <3>1. frames < IdMod
      BY <1>1, <1>4
    <3>2. viewer.age < Period
      BY <1>1, <1>3, <3>1 DEF DrawInv, SentInv, Sent
    <3> QED BY <1>4, <3>2
  <2> QED BY <1>2, <2>1, <2>2
<1>13. NoRoguesInv'
  <2> SUFFICES ASSUME ImagesFit, ~spoiled, ~viewer'.gap
               PROVE  Known(blobs, viewer'.cache)
    BY <1>1 DEF NoRoguesInv, Known
  <2>1. viewer'.gap = viewer.gap /\ viewer'.cache = ahead.cache
    BY <1>2, <1>5
  <2> QED BY <1>1, <1>3, <2>1 DEF DrawInv, NoRoguesInv
<1>14. LruInv'
  <2> SUFFICES ASSUME frames + 1 < IdMod
               PROVE  /\ frame_id' <= frames + 1
                      /\ \A i \in Slots : blobs[i].in_use =>
                           /\ blobs[i].last_used <= frame_id'
                           /\ blobs[i].used_at - blobs[i].last_used
                                = (frames + 1) - frame_id'
                      /\ evictedAt <= frames + 1 /\ EvictsOldest
    BY <1>1 DEF LruInv, Dated, EvictsOldest
  <2>1. frames < IdMod /\ frames' < IdMod
    BY <1>1, <1>4
  <2>2. Dated(blobs) /\ evictedAt <= frames /\ EvictsOldest
    BY <2>1 DEF DrawInv, LruInv
  <2>3. frame_id' = frame_id + 1
    BY <1>10, <2>1, <2>2 DEF Dated
  <2>4. \A i \in Slots : blobs[i].last_used \in Int /\ blobs[i].used_at \in Int
    BY DrawAssumption DEF DrawInv, TypeInv, DrawTypeOK, SlotType
  <2>5. evictedAt \in Int
    BY DEF DrawInv, TypeInv
  <2> QED BY <1>4, <2>2, <2>3, <2>4, <2>5 DEF Dated
<1>15. FramesWhole' /\ SlotsOK(blobs')
  BY <1>1, <1>2, <1>3 DEF DrawInv, FramesWhole, SlotsOK
<1> QED
  BY <1>8, <1>9, <1>11, <1>12, <1>13, <1>14, <1>15 DEF DrawInv, SlotsOK

\* The page is reloaded, or the program is started again.
LEMMA AnewKeeps == DrawInv /\ (Reload \/ Restart) => DrawInv'
<1> SUFFICES ASSUME DrawInv, Reload \/ Restart PROVE DrawInv'
  OBVIOUS
<1>1. /\ ~frame_open /\ frame_open' = FALSE /\ ahead' = ahead
      /\ shown' = shown /\ frames' = frames /\ spoiled' = spoiled
      /\ evictedAt' = evictedAt
      /\ \/ /\ viewer' = [age |-> 0, cache |-> Fresh.cache, gap |-> FALSE]
            /\ frame_id' = frame_id /\ enc' = enc /\ ops' = ops /\ blobs' = blobs
         \/ /\ viewer' = [viewer EXCEPT !.age = 0, !.gap = TRUE]
            /\ frame_id' = 0 /\ enc' = EncInit /\ ops' = 0
            /\ blobs' = [i \in Slots |-> EmptySlot]
  BY DEF Reload, Restart, frameVars
<1>2. viewer' \in [age : 0..Period, cache : Caches, gap : BOOLEAN] /\ viewer'.age = 0
  <2>1. /\ 0 \in 0..Period /\ Fresh.cache \in Caches
        /\ viewer \in [age : 0..Period, cache : Caches, gap : BOOLEAN]
    BY DrawAssumption DEF DrawInv, TypeInv, DrawTypeOK, Caches, Fresh
  <2>2. CASE viewer' = [age |-> 0, cache |-> Fresh.cache, gap |-> FALSE]
    BY <2>1, <2>2
  <2>3. CASE viewer' = [viewer EXCEPT !.age = 0, !.gap = TRUE]
    BY <2>1, <2>3
  <2> QED BY <1>1, <2>2, <2>3
<1>3. EncInit \in EncsOf(Cmds) /\ EncInit.pos \in 0..Cap /\ EncInit.overflow \in BOOLEAN
  BY EncoderAssumption DEF EncInit, EncsOf
<1>4. EmptySlot \in SlotType /\ ~EmptySlot.uploaded /\ ~EmptySlot.in_use /\ 0 \in 0..IdMod-1
  BY DrawAssumption DEF EmptySlot, SlotType
<1>5. TypeInv'
  <2>1. DrawTypeOK /\ enc \in EncsOf(Cmds)
    BY DEF DrawInv, TypeInv
  <2>2. /\ frame_id' \in 0..IdMod-1 /\ ops' \in Nat
        /\ enc'.pos \in 0..Cap /\ enc'.overflow \in BOOLEAN
        /\ enc' \in EncsOf(Cmds)
    BY <1>1, <1>3, <1>4, <2>1 DEF DrawTypeOK
  <2>3. blobs' \in [Slots -> SlotType]
    BY <1>1, <1>4, <2>1 DEF DrawTypeOK
  <2>4. DrawTypeOK'
    BY <1>1, <1>2, <2>1, <2>2, <2>3 DEF DrawTypeOK, Caches
  <2> QED BY <1>1, <2>2, <2>4 DEF DrawInv, TypeInv
<1>6. FrameInv' /\ Silent'
  BY <1>1 DEF FrameInv, Silent
<1>7. SentInv'
  <2> SUFFICES ASSUME OwnPixels, ~spoiled, frames < IdMod
               PROVE  \A i \in Slots : blobs'[i].uploaded =>
                        /\ blobs'[i].last_uploaded < frame_id'
    BY <1>1, <1>2, <1>5 DEF SentInv, Sent, Drawn, TypeInv, DrawTypeOK, SlotType
  <2>1. CASE blobs' = [i \in Slots |-> EmptySlot]
    BY <1>4, <2>1
  <2>2. CASE blobs' = blobs /\ frame_id' = frame_id
    <3> SUFFICES ASSUME NEW i \in Slots, blobs[i].uploaded
                 PROVE  blobs[i].last_uploaded < frame_id
      BY <2>2
    <3>1. blobs[i].last_uploaded <= frame_id /\ blobs[i].last_uploaded # frame_id
      BY <1>1 DEF DrawInv, SentInv, Sent, Drawn
    <3>2. blobs[i].last_uploaded \in Int /\ frame_id \in Int
      BY DrawAssumption DEF DrawInv, TypeInv, DrawTypeOK, SlotType
    <3> QED BY <3>1, <3>2
  <2> QED BY <1>1, <2>1, <2>2
<1>8. NoBlank' /\ FramesWhole'
  BY <1>1 DEF DrawInv, NoBlank, NoWrap, FramesWhole
<1>9. NoRoguesInv'
  <2> SUFFICES ASSUME ~viewer'.gap PROVE \A p \in Pixels : viewer'.cache[p] = None
    BY <1>1 DEF NoRoguesInv, Known
  <2>1. viewer' = [age |-> 0, cache |-> Fresh.cache, gap |-> FALSE]
    BY <1>1 DEF DrawInv, TypeInv, DrawTypeOK
  <2> QED BY <2>1 DEF Fresh
<1>10. SlotsOK(blobs') /\ LruInv'
  <2>1. CASE blobs' = blobs /\ frame_id' = frame_id
    BY <1>1, <2>1 DEF DrawInv, SlotsOK, LruInv, Dated, EvictsOldest
  <2>2. CASE blobs' = [i \in Slots |-> EmptySlot] /\ frame_id' = 0
    <3>1. \A i \in Slots : ~blobs'[i].uploaded /\ ~blobs'[i].in_use
      BY <1>4, <2>2
    <3>2. frames < IdMod => evictedAt <= frames
      BY DEF DrawInv, LruInv
    <3>3. 0 <= frames
      BY DEF DrawInv, TypeInv
    <3> QED BY <1>1, <2>2, <3>1, <3>2, <3>3 DEF SlotsOK, LruInv, Dated, EvictsOldest
  <2> QED BY <1>1, <2>1, <2>2
<1> QED BY <1>5, <1>6, <1>7, <1>8, <1>9, <1>10 DEF DrawInv, SlotsOK

----------------------------------------------------------------------------
(* The theorems *)

LEMMA DrawInitInv == DrawInit => DrawInv
<1> SUFFICES ASSUME DrawInit PROVE DrawInv
  OBVIOUS
<1>1. /\ frame_id = 0 /\ frame_open = FALSE /\ enc = EncInit /\ ops = 0
      /\ blobs = [i \in Slots |-> EmptySlot]
      /\ viewer = [age |-> Period, cache |-> Fresh.cache, gap |-> FALSE]
      /\ ahead = Fresh /\ shown = NothingWrong /\ frames = 0
      /\ spoiled = FALSE /\ evictedAt = 0
  BY DEF DrawInit
<1>2. Period \in Nat \ {0} /\ IdMod \in Nat /\ IdMod > Period
  BY DrawAssumption
<1>3. EncInit \in EncsOf(Cmds) /\ EncInit.pos \in 0..Cap /\ EncInit.overflow \in BOOLEAN
  BY EncoderAssumption DEF EncInit, EncsOf
<1>4. EmptySlot \in SlotType /\ ~EmptySlot.uploaded /\ ~EmptySlot.in_use
  BY <1>2 DEF EmptySlot, SlotType
<1>5. \A i \in Slots : ~blobs[i].uploaded /\ ~blobs[i].in_use
  BY <1>1, <1>4
<1>6. TypeInv
  <2>1. Fresh \in Viewers /\ viewer \in [age : 0..Period, cache : Caches, gap : BOOLEAN]
    BY <1>1, <1>2 DEF Fresh, Viewers, Caches
  <2>2. frame_id \in 0..IdMod-1
    BY <1>1, <1>2
  <2>3. DrawTypeOK
    BY <1>1, <1>3, <1>4, <2>1, <2>2 DEF DrawTypeOK, Viewers, Caches
  <2> QED BY <1>1, <1>3, <2>3 DEF TypeInv
<1>7. SlotsOK(blobs)
  BY <1>5 DEF SlotsOK
<1>8. FrameInv /\ Silent
  BY <1>1 DEF FrameInv, Silent
<1>9. SentInv
  BY <1>1, <1>5 DEF SentInv, Sent, Drawn
<1>10. NoBlank /\ FramesWhole
  BY <1>1 DEF NoBlank, FramesWhole, NothingWrong
<1>11. NoRoguesInv
  BY <1>1 DEF NoRoguesInv, Known, Fresh
<1>12. LruInv
  BY <1>1, <1>5 DEF LruInv, Dated, EvictsOldest
<1> QED BY <1>6, <1>7, <1>8, <1>9, <1>10, <1>11, <1>12 DEF DrawInv

LEMMA StutterKeeps == DrawInv /\ UNCHANGED drawVars => DrawInv'
<1> SUFFICES ASSUME DrawInv, UNCHANGED drawVars PROVE DrawInv'
  OBVIOUS
<1>1. /\ frame_id' = frame_id /\ frame_open' = frame_open /\ enc' = enc
      /\ ops' = ops /\ blobs' = blobs /\ viewer' = viewer /\ ahead' = ahead
      /\ shown' = shown /\ frames' = frames /\ spoiled' = spoiled
      /\ evictedAt' = evictedAt
  BY DEF drawVars, frameVars, ghostVars
<1>2. TypeInv' /\ SlotsOK(blobs')
  BY <1>1 DEF DrawInv, TypeInv, DrawTypeOK, SlotsOK
<1>3. FrameInv' /\ Silent' /\ SentInv' /\ NoRoguesInv'
  BY <1>1 DEF DrawInv, FrameInv, Started, Silent, SentInv, Sent, Drawn,
              NoRoguesInv, Known
<1>4. NoBlank' /\ LruInv' /\ FramesWhole'
  BY <1>1 DEF DrawInv, NoBlank, NoWrap, LruInv, Dated, EvictsOldest, FramesWhole
<1> QED BY <1>2, <1>3, <1>4 DEF DrawInv, SlotsOK

\* Every state of the draw unit and its viewer satisfies the invariant.
THEOREM DrawInvariant == DrawSpec => []DrawInv
<1>1. ASSUME DrawInv, [DrawNext]_drawVars PROVE DrawInv'
  <2>1. CASE BeginFrame
    BY <1>1, <2>1, BeginKeeps
  <2>2. CASE FlushEmpty \/ FlushOverflow
    BY <1>1, <2>2, DroppedKeeps
  <2>3. CASE Flush \/ FlushMissed
    BY <1>1, <2>3, BroadcastKeeps
  <2>4. CASE Reload \/ Restart
    BY <1>1, <2>4, AnewKeeps
  <2>5. ASSUME NEW op \in Ops, DispatchOp(op) PROVE DrawInv'
    BY <1>1, <2>5, OpKeeps
  <2>6. ASSUME NEW op \in LineOps, NEW n \in 0..MaxSegments, DispatchLine(op, n)
        PROVE  DrawInv'
    BY <1>1, <2>6, LineKeeps, DrawAssumption
  <2>7. ASSUME NEW src \in Sources, NEW p \in Shows[src], DispatchImage(src, p)
        PROVE  DrawInv'
    BY <1>1, <2>7, ImageKeeps
  <2>8. CASE UNCHANGED drawVars
    BY <1>1, <2>8, StutterKeeps
  <2> QED BY <1>1, <2>1, <2>2, <2>3, <2>4, <2>5, <2>6, <2>7, <2>8 DEF DrawNext
<1> QED BY DrawInitInv, <1>1, PTL DEF DrawSpec

\* The draw unit's state keeps its type, and the buffer its bound.
THEOREM DrawTypeCorrect == DrawSpec => []DrawTypeOK
<1>1. DrawInv => DrawTypeOK
  BY DEF DrawInv, TypeInv
<1> QED BY <1>1, DrawInvariant, PTL

\* Whatever tasks come, in any order and number, and whatever overflows: a
\* broadcast frame begins, draws and ends as it should.
THEOREM DrawFramesWhole == DrawSpec => []FramesWhole
<1>1. DrawInv => FramesWhole
  BY DEF DrawInv
<1> QED BY <1>1, DrawInvariant, PTL

\* For any number of slots and any refresh period, a viewer that has had Period
\* frames without a gap is never sent an image whose blob it has not.
THEOREM DrawNoBlank == DrawSpec => []NoBlank
<1>1. DrawInv => NoBlank
  BY DEF DrawInv
<1> QED BY <1>1, DrawInvariant, PTL

\* And it keeps no blob the server has forgotten.
THEOREM DrawNoLeak == DrawSpec => []NoLeak
<1>1. DrawInv => NoLeak
  <2> SUFFICES ASSUME DrawInv, ImagesFit, ~spoiled, ~viewer.gap,
                      ~(frame_open /\ enc.overflow)
               PROVE  LET cache == IF frame_open THEN ahead.cache ELSE viewer.cache
                      IN  \A p \in Pixels : cache[p] # None =>
                            \E i \in Slots : blobs[i].in_use /\ blobs[i].uploaded
                                                             /\ blobs[i].id = p
    BY DEF NoLeak
  <2>1. Known(blobs, IF frame_open THEN ahead.cache ELSE viewer.cache)
    BY DEF DrawInv, NoRoguesInv
  <2>2. \A i \in Slots : blobs[i].uploaded => blobs[i].in_use
    BY DEF DrawInv, SlotsOK
  <2> QED BY <2>1, <2>2 DEF Known
<1> QED BY <1>1, DrawInvariant, PTL

\* Until frame ids are used again, only the slot used longest ago is evicted.
\* After that it may be another (DrawUnitLru.cfg).
THEOREM DrawEvictsOldest == DrawSpec => [](frames < IdMod => EvictsOldest)
<1>1. DrawInv => (frames < IdMod => EvictsOldest)
  BY DEF DrawInv, LruInv
<1> QED BY <1>1, DrawInvariant, PTL
=============================================================================
