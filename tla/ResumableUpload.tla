-------------------------- MODULE ResumableUpload --------------------------
(***************************************************************************)
(* uploadResumable (apps/web/lib/media-utils.js): one window sends a file  *)
(* in chunks over the server's HEAD and PATCH.  A request or its answer    *)
(* may be lost, a request that was given up may still arrive, a broken     *)
(* connection leaves the part of a chunk that came through.  Every attempt *)
(* of executeUpload has an upload of its own, so there is one sender.      *)
(***************************************************************************)
EXTENDS Naturals, Sequences

CONSTANTS
  Size,        \* of the file
  ChunkSize,
  MaxRetries,  \* of one chunk
  MaxRefusals  \* bound: answers 5xx, which are not counted as retries

ASSUME SizesAssumption ==
  Size \in Nat /\ ChunkSize \in Nat \ {0} /\ MaxRetries \in Nat /\ MaxRefusals \in Nat

VARIABLES
  stored,    \* the server's file, as positions of the file that is sent
  sending,   \* what the window has under way
  lost,      \* requests given up that may still arrive
  refusals   \* 5xx answers so far

uploadVars == <<stored, sending, lost, refusals>>

Lesser(a, b) == IF a < b THEN a ELSE b

\* a PATCH: the Upload-Offset it claims, and the slice it carries
ChunkOfStart(o) ==  \* mutant: the slice does not move with the offset
  [at |-> o, from |-> 0, upto |-> Lesser(ChunkSize, Size)]
Chunk(o) == [at |-> o, from |-> o, upto |-> Lesser(o + ChunkSize, Size)]
Chunks   == {Chunk(o) : o \in 0..Size}
Bytes(p, n) == [i \in 1..n |-> p.from + i]

\* HEAD is asked at first, after a refusal, or after an error
Asking == {"head", "head after refusal", "head after error"}
Places == Asking \cup {"patch", "answered", "done", "failed"}

UploadInit ==
  /\ stored = <<>> /\ lost = {} /\ refusals = 0
  /\ sending = [at |-> "head", chunk |-> Chunk(0), attempt |-> 0]

Goes(place) == sending' = [sending EXCEPT !.at = place]

\* the head of the outer loop; each turn counts its attempts anew
Loops(o) ==
  sending' = [at |-> IF o < Size THEN "patch" ELSE "done", chunk |-> Chunk(o), attempt |-> 0]

\* catch: the attempts are counted, then HEAD tells whether anything arrived
Catches ==
  IF sending.attempt >= MaxRetries THEN Goes("failed")
  ELSE sending' = [sending EXCEPT !.at = "head after error", !.attempt = @ + 1]

HeadAnswered ==
  /\ sending.at \in Asking
  /\ IF sending.at = "head after error" /\ Len(stored) = sending.chunk.at
     THEN Goes("patch")
     ELSE Loops(Len(stored))
  /\ UNCHANGED <<stored, lost, refusals>>

\* only the HEAD after a refusal is inside the try
HeadFails ==
  /\ sending.at \in Asking
  /\ IF sending.at = "head after refusal" THEN Catches ELSE Goes("failed")
  /\ UNCHANGED <<stored, lost, refusals>>

\* the server appends n bytes of p; it compares offsets under the upload's lock
Appends(p, n) ==
  /\ p.at = Len(stored) /\ n <= p.upto - p.from
  /\ stored' = stored \o Bytes(p, n)

PatchStored ==
  /\ sending.at = "patch"
  /\ Appends(sending.chunk, sending.chunk.upto - sending.chunk.from)
  /\ Goes("answered")
  /\ UNCHANGED <<lost, refusals>>

\* the answer must be the end of the chunk
PatchAnswered ==
  /\ sending.at = "answered"
  /\ Loops(sending.chunk.upto)
  /\ UNCHANGED <<stored, lost, refusals>>

\* 409: a request given up has arrived, or a part of it
PatchConflicts ==
  /\ sending.at = "patch" /\ sending.chunk.at # Len(stored)
  /\ Goes("head after refusal")
  /\ UNCHANGED <<stored, lost, refusals>>

\* 408 and 5xx: nothing is written, or all of it
PatchRefused ==
  /\ sending.at \in {"patch", "answered"} /\ refusals < MaxRefusals
  /\ refusals' = refusals + 1
  /\ Goes("head after refusal")
  /\ UNCHANGED <<stored, lost>>

\* the connection breaks with the request on its way, with a part of the chunk
\* written, or with the answer on its way; or the status is another one
PatchFails ==
  /\ \/ sending.at = "patch" /\ lost' = lost \cup {sending.chunk} /\ UNCHANGED stored
     \/ /\ sending.at = "patch" /\ \E n \in 0..ChunkSize : Appends(sending.chunk, n)
        /\ UNCHANGED lost
     \/ sending.at = "answered" /\ UNCHANGED <<stored, lost>>
  /\ Catches
  /\ UNCHANGED refusals

LostArrives ==
  /\ \E p \in lost :
       /\ \E n \in 0..ChunkSize : Appends(p, n)
       /\ lost' = lost \ {p}
  /\ UNCHANGED <<sending, refusals>>

\* the signal: whatever is asked from now on rejects at once
Aborts ==
  /\ sending.at \notin {"done", "failed"}
  /\ Goes("failed")
  /\ lost' = IF sending.at = "patch" THEN lost \cup {sending.chunk} ELSE lost
  /\ UNCHANGED <<stored, refusals>>

UploadNext ==
  \/ HeadAnswered \/ HeadFails \/ PatchStored \/ PatchAnswered \/ PatchConflicts
  \/ PatchRefused \/ PatchFails \/ LostArrives \/ Aborts

UploadSpec == UploadInit /\ [][UploadNext]_uploadVars

-----------------------------------------------------------------------------
UploadTypeOK ==
  /\ stored \in Seq(Nat) /\ refusals \in Nat /\ lost \subseteq Chunks
  /\ sending \in [at : Places, chunk : Chunks, attempt : Nat]

\* However often a chunk is sent, lost or late, each byte of the file is on the
\* server once and in its place ("a chunk that was committed server-side is
\* never appended twice").
EachByteOnce == \A i \in 1..Len(stored) : stored[i] = i

\* The upload is reported as complete, and then finalized, only when all of the
\* file is on the server.
DoneIsWhole == sending.at = "done" => Len(stored) = Size

\* Both: a large file arrives whole and undamaged, or the upload says it failed.
UploadIsWhole == EachByteOnce /\ DoneIsWhole
=============================================================================
