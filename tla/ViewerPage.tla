----------------------------- MODULE ViewerPage -----------------------------
(***************************************************************************)
(* web/viewer.js: the page's blob cache beside its connection. Every       *)
(* message of the open socket is a frame, whose commands are carried out   *)
(* in one handler. The browser makes the bitmap of an image later, in an   *)
(* order of its own, when the blob may be gone or stored again, and the    *)
(* page may have been connected again to a server that has started anew.   *)
(*                                                                         *)
(* An object is an ImageData, whose identity is all that matters of it; a  *)
(* bitmap is named by the object it was made from. Objects nobody refers   *)
(* to are used again.                                                      *)
(*                                                                         *)
(* An operator named Faulty... is a plausible mistake in the definition    *)
(* that follows it.                                                        *)
(***************************************************************************)
EXTENDS ViewerConn, Sequences

CONSTANTS
    Ids,       \* blob ids
    Objects,   \* bound: ImageData objects alive at a time
    None,      \* no object
    MaxCmds    \* bound: blob commands in a frame

ASSUME PageAssumption ==
    /\ None \notin Objects
    /\ IsFiniteSet(Objects)
    /\ MaxCmds \in Nat

VARIABLES
    blobCache,  \* blobCache[id]: imageData and bitmap, each an object or None
    promises    \* calls of createImageBitmap not answered yet

blobVars == <<blobCache, promises>>
allVars  == <<connVars, blobVars>>

Missing == [imageData |-> None, bitmap |-> None]

PageInit ==
    /\ ConnInit
    /\ blobCache = [id \in Ids |-> Missing]
    /\ promises = {}

----------------------------------------------------------------------------
(* The commands, on the cache and the promises *)

Page == [cache |-> blobCache, promises |-> promises]

Unused(p) ==
    Objects \ ({p.cache[id].imageData : id \in Ids} \cup
               {p.cache[id].bitmap : id \in Ids} \cup {q.object : q \in p.promises})

FaultyStoreBlob(p, id) ==
    LET o == CHOOSE o \in Unused(p) : TRUE
    IN  [cache    |-> [p.cache EXCEPT ![id] = [imageData |-> o, bitmap |-> None]],
         promises |-> p.promises \cup {[id |-> id, object |-> o]}]

\* storeBlob keeps what it has under this id.
StoreBlob(p, id) ==
    LET o == CHOOSE o \in Unused(p) : TRUE
    IN  IF p.cache[id] # Missing THEN p
        ELSE [cache    |-> [p.cache EXCEPT ![id] = [imageData |-> o, bitmap |-> None]],
              promises |-> p.promises \cup {[id |-> id, object |-> o]}]

FaultyEvictBlob(p, id) == [p EXCEPT !.cache[id].imageData = None]

EvictBlob(p, id) == [p EXCEPT !.cache[id] = Missing]

IsUpload(c) == c.op = "BLOB_UPLOAD"

\* One command of a frame.
CarryOut(p, c) == IF IsUpload(c) THEN StoreBlob(p, c.id) ELSE EvictBlob(p, c.id)

\* renderFrame, as far as blobs go.
Replay(frame) ==
    LET after[k \in 0..Len(frame)] ==
          IF k = 0 THEN Page ELSE CarryOut(after[k-1], frame[k])
    IN  after[Len(frame)]

Uploads(frame) == {k \in 1..Len(frame) : IsUpload(frame[k])}

----------------------------------------------------------------------------
\* handleMessage, with enough objects left for the frame; a socket that is not
\* open has no more messages.
Message(frame) ==
    /\ ws # NoSocket
    /\ ready[ws] = "open"
    /\ Cardinality(Unused(Page)) >= Cardinality(Uploads(frame))
    /\ blobCache' = Replay(frame).cache
    /\ promises' = Replay(frame).promises
    /\ UNCHANGED connVars

FaultyResolves(q) ==
    /\ promises' = promises \ {q}
    /\ blobCache' = IF blobCache[q.id] # Missing
                    THEN [blobCache EXCEPT ![q.id].bitmap = q.object]
                    ELSE blobCache
    /\ UNCHANGED connVars

\* createImageBitmap(imageData).then
Resolves(q) ==
    /\ promises' = promises \ {q}
    /\ blobCache' = IF blobCache[q.id].imageData = q.object
                    THEN [blobCache EXCEPT ![q.id].bitmap = q.object]
                    ELSE blobCache
    /\ UNCHANGED connVars

\* createImageBitmap(imageData).catch
Rejects(q) ==
    /\ promises' = promises \ {q}
    /\ UNCHANGED <<connVars, blobCache>>

Commands == [op : {"BLOB_UPLOAD", "BLOB_EVICT"}, id : Ids]

Frames == UNION {[1..n -> Commands] : n \in 1..MaxCmds}

PageNext ==
    \/ ConnNext /\ UNCHANGED blobVars
    \/ \E frame \in Frames : Message(frame)
    \/ \E q \in promises : Resolves(q) \/ Rejects(q)

PageSpec == PageInit /\ [][PageNext]_allVars

PageFairSpec == PageSpec /\ ConnFairness

----------------------------------------------------------------------------
(* Properties *)

PageTypeOK ==
    /\ blobCache \in [Ids -> {Missing} \cup
                             [imageData : Objects, bitmap : Objects \cup {None}]]
    /\ promises \subseteq [id : Ids, object : Objects]

\* The bitmap of a blob was made from the very image that is cached for it:
\* answers of createImageBitmap that come after the blob was evicted, or evicted
\* and uploaded again, are left out (viewer.js:66-69).
BitmapCurrent ==
    \A id \in Ids : blobCache[id].bitmap \in {None, blobCache[id].imageData}

\* A blob that is drawn from its bitmap is drawn so until the server evicts it:
\* re-uploads, reconnects and late answers never take it back to putImageData,
\* which would flicker (viewer.js:54-58).
NoToggle ==
    [][\A id \in Ids :
         \/ blobCache[id].bitmap = None
         \/ blobCache'[id] = blobCache[id]
         \/ \E frame \in Frames :
              /\ Message(frame)
              /\ \E k \in 1..Len(frame) : frame[k] = [op |-> "BLOB_EVICT", id |-> id]]_allVars
=============================================================================
