------------------------- MODULE WebContent_proofs -------------------------
(***************************************************************************)
(* Theorems about the parts of the web client that the content is written  *)
(* and read with: the transfer of files, the attachments, the editor's     *)
(* text, the calendar, the public lists, the offline cache, the tags and   *)
(* the protected Markdown. Each part has its inductive invariant and a     *)
(* lemma for each of its actions; the other parts leave its variables      *)
(* alone.                                                                  *)
(***************************************************************************)
EXTENDS WebClient, WellFoundedInduction, TLAPS

-----------------------------------------------------------------------------
(* Numbers *)

\* A set of natural numbers has a least one.
LEMMA LeastNatural == ASSUME NEW T \in SUBSET Nat, T # {} PROVE \E m \in T : \A n \in T : m <= n
  <1> DEFINE R == {ss \in Nat \X Nat : ss[1] < ss[2]}
  <1>1. IsWellFoundedOn(R, Nat)
    BY NatLessThanWellFounded, Zenon DEF OpToRel
  <1> HIDE DEF R
  <1>2. PICK m \in T : \A n \in T : ~(<<n, m>> \in R)
    BY <1>1, WFMin, Zenon
  <1>3. \A n \in T : ~(n < m)
    BY <1>2 DEF R
  <1> QED
    BY <1>3

\* What is true of 0 and of each number that follows one for which it is true, is
\* true of all: a set of numbers that has 0 and the next of each of its numbers.
LEMMA UpTo ==
  ASSUME NEW n \in Nat, NEW T, 0 \in T, \A m \in 0..n : m > 0 /\ m - 1 \in T => m \in T
  PROVE  0..n \subseteq T
  <1> DEFINE U == {m \in 0..n : m \notin T}
  <1>1. SUFFICES ASSUME U # {} PROVE FALSE
    OBVIOUS
  <1>2. PICK m \in U : \A k \in U : m <= k
    <2>1. U \in SUBSET Nat
      OBVIOUS
    <2> QED
      BY <1>1, <2>1, LeastNatural
  <1>3. m \in 0..n /\ m # 0
    BY <1>2
  <1>4. m - 1 \in 0..n /\ m - 1 \notin U
    BY <1>2, <1>3
  <1> QED
    BY <1>2, <1>3, <1>4

-----------------------------------------------------------------------------
(* The transfer of a file (ResumableUpload) *)

\* What is under way is a slice of the file that begins at the offset it claims;
\* the server never has more than the file; an answered chunk is there.
Slices ==
  /\ Len(stored) <= Size
  /\ sending.at \notin {"head", "done", "failed"} => sending.chunk.at < Size
  /\ sending.at = "answered" => Len(stored) >= sending.chunk.upto

UInv == UploadTypeOK /\ EachByteOnce /\ Slices /\ DoneIsWhole

\* A chunk of the file is not empty before the end of the file and not beyond it.
LEMMA ChunkBounds ==
  ASSUME NEW o \in 0..Size
  PROVE  /\ Chunk(o).at = o /\ Chunk(o).from = o /\ Chunk(o).upto \in 0..Size
         /\ Chunk(o).upto >= o
         /\ Chunk(o) \in Chunks
<1>1. /\ Chunk(o).at = o /\ Chunk(o).from = o
      /\ Chunk(o).upto = IF o + ChunkSize < Size THEN o + ChunkSize ELSE Size
  BY DEF Chunk, Lesser
<1>2. Chunk(o) \in Chunks
  BY DEF Chunks
<1> QED BY <1>1, <1>2, SizesAssumption

\* What a chunk in flight is known to be.
LEMMA ChunkFields ==
  ASSUME NEW p \in Chunks
  PROVE  /\ p.at \in 0..Size /\ p.from = p.at /\ p.upto \in 0..Size /\ p.upto >= p.at
<1>1. PICK o \in 0..Size : p = Chunk(o)
  BY DEF Chunks
<1> QED BY <1>1, ChunkBounds, SizesAssumption

\* Appending a part of a chunk at its own offset extends the file by its next
\* bytes.
LEMMA AppendsNext ==
  ASSUME UploadTypeOK, EachByteOnce, Slices, NEW p \in Chunks, NEW n \in Nat, Appends(p, n)
  PROVE  /\ stored' \in Seq(Nat)
         /\ Len(stored') = p.at + n /\ Len(stored') <= Size
         /\ \A i \in 1..Len(stored') : stored'[i] = i
<1>1. /\ stored \in Seq(Nat) /\ p.at = Len(stored) /\ p.from = p.at /\ p.upto <= Size
      /\ n <= p.upto - p.from /\ stored' = stored \o Bytes(p, n) /\ Len(stored) \in Nat
  BY ChunkFields, SizesAssumption DEF UploadTypeOK, Appends
<1>2. Bytes(p, n) \in Seq(Nat) /\ Len(Bytes(p, n)) = n
      /\ \A i \in 1..n : Bytes(p, n)[i] = Len(stored) + i
  BY <1>1 DEF Bytes
<1>3. stored' \in Seq(Nat) /\ Len(stored') = Len(stored) + n
  <2>1. stored \in Seq(Nat) /\ Bytes(p, n) \in Seq(Nat) /\ stored' = stored \o Bytes(p, n)
    BY <1>1, <1>2
  <2> QED BY <2>1, <1>2
<1>4. ASSUME NEW i \in 1..Len(stored') PROVE stored'[i] = i
  <2>1. CASE i <= Len(stored)
    BY <1>1, <1>2, <1>3, <2>1 DEF EachByteOnce
  <2>2. CASE i > Len(stored)
    <3>1. stored'[i] = Bytes(p, n)[i - Len(stored)]
      BY <1>1, <1>2, <1>3, <2>2
    <3>2. i - Len(stored) \in 1..n
      BY <1>1, <1>3, <2>2
    <3> QED BY <1>1, <1>2, <3>1, <3>2
  <2> QED BY <1>1, <1>3, <2>1, <2>2
<1>5. Len(stored') <= Size
  BY <1>1, <1>3, ChunkFields, SizesAssumption
<1> QED BY <1>1, <1>3, <1>4, <1>5

\* The loop goes on at an offset of the file, or has come to its end.
LEMMA LoopsOn ==
  ASSUME NEW o \in 0..Size, Loops(o)
  PROVE  /\ sending' \in [at : Places, chunk : Chunks, attempt : Nat]
         /\ sending'.at \in {"patch", "done"} /\ sending'.chunk.at = o
         /\ sending'.at = "patch" => o < Size
         /\ sending'.at = "done" => o = Size
BY ChunkBounds, SizesAssumption DEF Loops, Places

\* A failed attempt leaves the chunk as it is and neither sends nor completes.
LEMMA CatchesOn ==
  ASSUME UploadTypeOK, Catches
  PROVE  /\ sending' \in [at : Places, chunk : Chunks, attempt : Nat]
         /\ sending'.at \in {"failed", "head after error"} /\ sending'.chunk = sending.chunk
<1>1. /\ sending \in [at : Places, chunk : Chunks, attempt : Nat]
      /\ {"failed", "head after error"} \subseteq Places
  BY DEF UploadTypeOK, Places, Asking
<1>2. CASE Goes("failed")
  BY <1>1, <1>2 DEF Goes
<1>3. CASE sending' = [sending EXCEPT !.at = "head after error", !.attempt = @ + 1]
  <2> DEFINE next == [at |-> "head after error", chunk |-> sending.chunk,
                      attempt |-> sending.attempt + 1]
  <2>1. sending' = next
    BY <1>1, <1>3
  <2>a. "head after error" \in Places /\ sending.chunk \in Chunks
    BY <1>1
  <2>b. sending.attempt \in Nat
    BY <1>1
  <2>2. next \in [at : Places, chunk : Chunks, attempt : Nat]
    <3>1. sending.attempt + 1 \in Nat
      BY <2>b
    <3> QED BY <3>1, <2>a, Zenon
  <2> QED BY <2>1, <2>2
<1> QED BY <1>2, <1>3 DEF Catches

LEMMA InitUInv == UploadInit => UInv
<1> SUFFICES ASSUME UploadInit PROVE UInv
  OBVIOUS
<1>1. Chunk(0) \in Chunks
  BY ChunkBounds, SizesAssumption
<1> QED BY <1>1, SizesAssumption
        DEF UploadInit, UInv, UploadTypeOK, EachByteOnce, Slices, DoneIsWhole, Places, Asking

LEMMA NextUInv == UInv /\ [UploadNext]_uploadVars => UInv'
<1> SUFFICES ASSUME UInv, [UploadNext]_uploadVars PROVE UInv'
  OBVIOUS
<1> USE DEF UInv
<1>t. /\ stored \in Seq(Nat) /\ Len(stored) \in 0..Size /\ refusals \in Nat
      /\ sending \in [at : Places, chunk : Chunks, attempt : Nat] /\ lost \subseteq Chunks
      /\ sending.chunk \in Chunks
  BY SizesAssumption DEF UploadTypeOK, Slices
<1>g. ASSUME NEW x \in Places, Goes(x)
      PROVE  /\ sending' \in [at : Places, chunk : Chunks, attempt : Nat]
             /\ sending'.at = x /\ sending'.chunk = sending.chunk
  BY <1>t, <1>g DEF Goes
<1>p. {"patch", "answered", "done", "failed", "head after refusal"} \subseteq Places
  BY DEF Places, Asking
<1>1. CASE HeadAnswered
  <2>1. CASE Loops(Len(stored))
    BY <1>1, <1>t, <2>1, LoopsOn
    DEF HeadAnswered, UploadTypeOK, EachByteOnce, Slices, DoneIsWhole
  <2>2. CASE sending.at = "head after error" /\ Goes("patch")
    BY <1>1, <1>t, <1>g, <1>p, <2>2
    DEF HeadAnswered, UploadTypeOK, EachByteOnce, Slices, DoneIsWhole
  <2> QED BY <1>1, <2>1, <2>2 DEF HeadAnswered
<1>2. CASE HeadFails
  <2>1. CASE Catches /\ sending.at = "head after refusal"
    BY <1>2, <1>t, <2>1, CatchesOn
    DEF HeadFails, UploadTypeOK, EachByteOnce, Slices, DoneIsWhole
  <2>2. CASE Goes("failed")
    BY <1>2, <1>t, <1>g, <1>p, <2>2
    DEF HeadFails, UploadTypeOK, EachByteOnce, Slices, DoneIsWhole
  <2> QED BY <1>2, <2>1, <2>2 DEF HeadFails
<1>3. CASE PatchStored
  <2> DEFINE c == sending.chunk
  <2>1. c \in Chunks /\ c.upto - c.from \in Nat /\ c.upto = c.at + (c.upto - c.from)
    BY <1>t, ChunkFields, SizesAssumption
  <2>2. /\ stored' \in Seq(Nat) /\ Len(stored') = c.upto /\ Len(stored') <= Size
        /\ \A i \in 1..Len(stored') : stored'[i] = i
    BY <1>3, <2>1, AppendsNext DEF PatchStored
  <2>3. /\ sending' \in [at : Places, chunk : Chunks, attempt : Nat]
        /\ sending'.at = "answered" /\ sending'.chunk = c
    BY <1>3, <1>g, <1>p DEF PatchStored
  <2> QED BY <1>3, <1>t, <2>2, <2>3
          DEF PatchStored, UploadTypeOK, EachByteOnce, Slices, DoneIsWhole
<1>4. CASE PatchAnswered
  <2>1. sending.chunk.upto \in 0..Size /\ Len(stored) >= sending.chunk.upto
    BY <1>4, <1>t, ChunkFields DEF PatchAnswered, Slices
  <2> QED BY <1>4, <1>t, <2>1, LoopsOn, SizesAssumption
          DEF PatchAnswered, UploadTypeOK, EachByteOnce, Slices, DoneIsWhole
<1>5. CASE PatchConflicts
  BY <1>5, <1>t, <1>g, <1>p
  DEF PatchConflicts, UploadTypeOK, EachByteOnce, Slices, DoneIsWhole
<1>6. CASE PatchRefused
  <2>a. refusals' = refusals + 1 /\ stored' = stored /\ lost' = lost
    BY <1>6 DEF PatchRefused
  <2>1. refusals' \in Nat /\ stored' = stored /\ lost' = lost
    BY <2>a, <1>t
  <2>2. /\ sending' \in [at : Places, chunk : Chunks, attempt : Nat]
        /\ sending'.at = "head after refusal" /\ sending'.chunk = sending.chunk
        /\ sending.at \in {"patch", "answered"}
    BY <1>6, <1>g, <1>p DEF PatchRefused
  <2>3. UploadTypeOK' /\ EachByteOnce'
    BY <1>t, <2>1, <2>2 DEF UploadTypeOK, EachByteOnce
  <2> QED BY <2>1, <2>2, <2>3 DEF Slices, DoneIsWhole
<1>7. CASE PatchFails
  <2> DEFINE c == sending.chunk
  <2>1. /\ sending' \in [at : Places, chunk : Chunks, attempt : Nat] /\ sending'.chunk = c
        /\ sending'.at \in {"failed", "head after error"} /\ sending.at \in {"patch", "answered"}
    BY <1>7, CatchesOn DEF PatchFails
  <2>2. CASE UNCHANGED stored
    BY <1>7, <1>t, <2>1, <2>2
    DEF PatchFails, UploadTypeOK, EachByteOnce, Slices, DoneIsWhole
  <2>3. CASE \E n \in 0..ChunkSize : Appends(c, n)
    <3>1. PICK n \in 0..ChunkSize : Appends(c, n)
      BY <2>3
    <3>2. /\ stored' \in Seq(Nat) /\ Len(stored') <= Size
          /\ \A i \in 1..Len(stored') : stored'[i] = i
      BY <1>t, <3>1, AppendsNext, SizesAssumption
    <3> QED BY <1>7, <1>t, <2>1, <3>2
            DEF PatchFails, UploadTypeOK, EachByteOnce, Slices, DoneIsWhole
  <2> QED BY <1>7, <2>2, <2>3 DEF PatchFails
<1>8. CASE LostArrives
  <2>1. PICK p \in lost, n \in 0..ChunkSize : Appends(p, n)
    BY <1>8 DEF LostArrives
  <2>2. p \in Chunks /\ n \in Nat /\ p.at = Len(stored)
    BY <1>t, <2>1, SizesAssumption DEF Appends
  <2>3. /\ stored' \in Seq(Nat) /\ Len(stored') = Len(stored) + n /\ Len(stored') <= Size
        /\ \A i \in 1..Len(stored') : stored'[i] = i
    BY <2>1, <2>2, AppendsNext
  <2>4. lost' \subseteq Chunks /\ sending' = sending /\ refusals' = refusals
    BY <1>8, <1>t DEF LostArrives
  <2>5. UploadTypeOK' /\ EachByteOnce'
    BY <1>t, <2>3, <2>4 DEF UploadTypeOK, EachByteOnce
  <2>6. Len(stored') >= Len(stored) /\ Len(stored') \in 0..Size
    BY <1>t, <2>2, <2>3, SizesAssumption
  <2>7. Slices' /\ DoneIsWhole'
    <3>1. sending.chunk.upto \in 0..Size
      BY <1>t, ChunkFields
    <3> QED BY <1>t, <2>4, <2>6, <3>1, SizesAssumption DEF Slices, DoneIsWhole
  <2> QED BY <2>5, <2>7
<1>9. CASE Aborts
  BY <1>9, <1>t, <1>g, <1>p DEF Aborts, UploadTypeOK, EachByteOnce, Slices, DoneIsWhole
<1>10. CASE UNCHANGED uploadVars
  BY <1>10 DEF uploadVars, UploadTypeOK, EachByteOnce, Slices, DoneIsWhole
<1> QED BY <1>1, <1>2, <1>3, <1>4, <1>5, <1>6, <1>7, <1>8, <1>9, <1>10 DEF UploadNext

\* The inductive invariant holds in every behavior.
THEOREM UploadInductive == UploadSpec => []UInv
BY InitUInv, NextUInv, PTL DEF UploadSpec

\* For every file, chunk size and number of retries, each byte of the file is on
\* the server once and in its place, and an upload that is reported as complete
\* is whole (media-utils.js, uploadResumable).
THEOREM UploadsAreWhole == UploadSpec => []UploadIsWhole
<1>1. UInv => UploadIsWhole
  BY DEF UInv, UploadIsWhole
<1> QED BY <1>1, UploadInductive, PTL

\* The same for the upload as a part of the web client.
THEOREM UploadPromise == WebSpec => []UploadIsWhole
<1>1. WebInit => UInv
  BY InitUInv DEF WebInit
<1>2. UInv /\ [WebNext]_web => UInv'
  <2>1. [WebNext]_web => [UploadNext]_uploadVars
    BY DEF WebNext, web, Rest13, Rest11, Rest10, Rest9, Rest6
  <2> QED
    BY <2>1, NextUInv
<1>3. UInv => UploadIsWhole
  BY DEF UInv, UploadIsWhole
<1> QED
  BY <1>1, <1>2, <1>3, PTL DEF WebSpec

-----------------------------------------------------------------------------
(* The attachments (MediaUploads) *)

\* The values of the attachments: items and records, jobs, what the user did, writes,
\* and the recovery.
Statuses == {"none", "queued", "uploading", "ready", "failed"}

AnyItem == [status : Statuses, media : Items \cup {None}]

AnyRecord == [status : Statuses, media : Items \cup {None}, file : BOOLEAN]

AnyJob == [at : {"off", "ticket", "transfer", "answered"}, media : Items \cup {None}]

AnyUser == [moves : Nat, chosen : SUBSET Uploads, gone : SUBSET Uploads]

AnyOp == [op : {"put", "delete"}, status : Statuses, media : Items \cup {None}, file : BOOLEAN]

AnyRecovery == [stage : {"off", "wait", "read"}, ran : SUBSET Uploads, need : [Uploads -> Nat],
                read : [Uploads -> AnyRecord]]

\* What the variables hold.
MediaTypes ==
  LET texts == v1  shown == v2  list == v3  job == v4  cancelled == v5  chain == v6
      queue == v7  rec == v8  media == v10  deletes == v11  user == v12
  IN  /\ texts \in [1..2 -> [Media!Refs -> Nat]] /\ shown \in 1..2
      /\ list \in [Uploads -> AnyItem]
      /\ job \in [Uploads -> AnyJob]
      /\ chain \in [Uploads -> Seq(AnyOp)] /\ queue \in [Uploads -> AnyRecord]
      /\ rec \in AnyRecovery
      /\ media \in [Items -> {"none", "uploading", "ready", "deleted"}]
      /\ deletes \subseteq Items
      /\ user \in AnyUser

\* What is written is an upload's state, and what is ready has its item.
OpIsWhole(o) == o = Media!Delete \/ (o.op = "put" /\ o.status # "none")

IsWhole(x) ==
  /\ x.status = "none" => x.media = None
  /\ x.status = "ready" => x.media # None

ItemsAreWhole ==
  LET list == v3  chain == v6  queue == v7  rec == v8
  IN  \A u \in Uploads :
        /\ IsWhole(list[u]) /\ IsWhole(queue[u]) /\ IsWhole(rec.read[u])
        /\ \A i \in DOMAIN chain[u] : OpIsWhole(chain[u][i]) /\ IsWhole(chain[u][i])
        /\ rec.stage # "read" => rec.read[u] = Media!NoRecord

\* An upload under way is shown and its item is not asked to be deleted; a recovery
\* knows of it; a finished one is not under way.
JobsHold ==
  LET list == v3  job == v4  cancelled == v5  rec == v8  media == v10  deletes == v11
  IN  \A u \in Uploads :
        /\ job[u].at \in {"off", "ticket"} <=> job[u].media = None
        /\ job[u].at # "off" /\ u \notin cancelled =>
             /\ list[u].status \in Media!Busy
             /\ job[u].media \notin deletes
             /\ job[u].at = "answered" => media[job[u].media] = "ready"
        /\ job[u].at # "off" /\ rec.stage # "off" => u \in rec.ran
        /\ list[u].status \in {"ready", "failed"} => job[u].at = "off"

\* What was not chosen is nowhere.
ChosenHolds ==
  LET list == v3  job == v4  chain == v6  queue == v7  rec == v8  user == v12
  IN  \A u \in Uploads \ user.chosen :
        /\ list[u] = Media!NoItem /\ job[u].at = "off" /\ chain[u] = <<>>
        /\ queue[u].status = "none" /\ rec.read[u].status = "none"

\* What was taken away is not shown and not under way, and its last write deletes it,
\* or it is deleted already and no recovery has read it.
GoneHolds ==
  LET list == v3  job == v4  cancelled == v5  chain == v6  queue == v7  rec == v8  user == v12
  IN  \A u \in user.gone :
        /\ list[u] = Media!NoItem /\ u \in user.chosen
        /\ job[u].at = "off" \/ u \in cancelled
        /\ IF chain[u] = <<>>
           THEN queue[u] = Media!NoRecord /\ rec.read[u].status = "none"
           ELSE chain[u][Len(chain[u])].op = "delete"

\* What the store did not lose is in the store or about to be written to it.
BackedHolds ==
  LET texts == v1  list == v3  chain == v6  queue == v7  excused == v13
  IN  \A u \in Uploads \ excused :
        /\ ~Media!Deleting(u)
        /\ (\E i \in 1..2 : texts[i][u] > 0) \/ list[u] # Media!NoItem =>
             queue[u] # Media!NoRecord \/ chain[u] # <<>>

\* An item belongs to one upload.
Names(u, m) ==
  LET list == v3  job == v4  chain == v6  queue == v7  rec == v8
  IN  \/ list[u].media = m \/ job[u].media = m \/ queue[u].media = m \/ rec.read[u].media = m
      \/ \E i \in DOMAIN chain[u] : chain[u][i].media = m

OwnersHold ==
  LET media == v10  deletes == v11
  IN  \A m \in Items :
        /\ media[m] = "none" => m \notin deletes /\ \A u \in Uploads : ~Names(u, m)
        /\ \A u, w \in Uploads : Names(u, m) /\ Names(w, m) => u = w

\* The item m is in a text, or an upload that finished will put it there.
Ready(x, m) == x.status = "ready" /\ x.media = m

Waiting(x, m) == x.status # "ready" /\ x.media = m

Uses(m) ==
  LET texts == v1  list == v3  chain == v6  queue == v7  rec == v8
  IN  \/ \E i \in 1..2 : texts[i][m] > 0
      \/ \E u \in Uploads : \/ Ready(list[u], m) \/ Ready(queue[u], m) \/ Ready(rec.read[u], m)
                            \/ \E i \in DOMAIN chain[u] : Ready(chain[u][i], m)

\* What says otherwise of it is overwritten, or the recovery that read it lets it be.
Written(u, m) ==
  LET list == v3  job == v4  chain == v6  queue == v7  rec == v8
  IN  /\ job[u].media # m /\ ~Waiting(list[u], m)
      /\ \A i \in DOMAIN chain[u] : Waiting(chain[u][i], m) =>
           \E j \in DOMAIN chain[u] : i < j /\ Ready(chain[u][j], m)
      /\ Waiting(queue[u], m) => \E j \in DOMAIN chain[u] : Ready(chain[u][j], m)
      /\ Waiting(rec.read[u], m) =>
           Media!Deleting(u) \/ (u \in rec.ran /\ list[u].media = m)

\* An item that is used is ready, is not asked to be deleted, and is taken by no
\* upload for one that did not finish.
UsedHolds ==
  LET media == v10  deletes == v11  excused == v13
  IN  \A m \in Items \ excused : Uses(m) =>
        media[m] = "ready" /\ m \notin deletes /\ \A u \in Uploads : Written(u, m)

\* A recovery that waits knows the uploads whose writes it does not wait for.
PendingHolds ==
  LET list == v3  chain == v6  rec == v8  excused == v13
  IN  rec.stage = "wait" =>
        \A u \in Uploads : \A j \in DOMAIN chain[u] : j > rec.need[u] /\ chain[u][j].op = "put" =>
          /\ u \in rec.ran
          /\ \/ chain[u][j].status # "ready" \/ chain[u][j].media \in excused
             \/ list[u].media = chain[u][j].media
             \/ \E k \in DOMAIN chain[u] : k > j /\ chain[u][k].op = "delete"

\* The inductive invariant of the attachments.
MediaInv ==
  /\ MediaTypes /\ ItemsAreWhole /\ JobsHold /\ ChosenHolds /\ GoneHolds /\ BackedHolds
  /\ OwnersHold /\ UsedHolds /\ PendingHolds

MediaPart == part = "media" => MediaInv

\* The empty values.
LEMMA MediaValues ==
  /\ Media!NoItem \in AnyItem /\ Media!NoItem.status = "none" /\ Media!NoItem.media = None
  /\ Media!NoRecord \in AnyRecord /\ Media!NoRecord.status = "none" /\ Media!NoRecord.media = None
  /\ Media!Delete \in AnyOp /\ Media!Delete.op = "delete" /\ Media!Delete.status = "none"
  /\ Media!Delete.media = None
  /\ Media!NoJob \in AnyJob /\ Media!NoJob.at = "off" /\ Media!NoJob.media = None
  /\ Media!NoRecovery \in AnyRecovery /\ Media!NoRecovery.stage = "off"
  /\ Media!NoRecovery.ran = {}
  /\ Media!NoRecovery.read = [u \in Uploads |-> Media!NoRecord]
  /\ None \notin Items /\ None \notin Uploads /\ Uploads \cap Items = {}
  BY UploadsAssumption DEF Media!NoItem, Media!NoRecord, Media!Delete, Media!NoJob,
     Media!NoRecovery, AnyItem, AnyRecord, AnyJob, AnyOp, AnyRecovery, Statuses

\* A write of an item.
LEMMA PutIs ==
  ASSUME NEW i \in AnyItem, NEW f \in BOOLEAN
  PROVE  LET o == Media!Put(i, f)
         IN  /\ o \in AnyOp /\ o.op = "put" /\ o.status = i.status /\ o.media = i.media
             /\ o # Media!Delete
             /\ i.status # "none" => OpIsWhole(o)
             /\ IsWhole(i) => IsWhole(o)
  BY DEF Media!Put, AnyOp, AnyItem, OpIsWhole, IsWhole, Media!Delete

\* A chain of writes with one more, without its first, and without any.
LEMMA ChainGrows ==
  ASSUME NEW c \in Seq(AnyOp), NEW o \in AnyOp
  PROVE  /\ Append(c, o) \in Seq(AnyOp) /\ Append(c, o) # <<>>
         /\ Len(c) \in Nat /\ Len(Append(c, o)) = Len(c) + 1
         /\ DOMAIN c = 1..Len(c) /\ DOMAIN Append(c, o) = 1..(Len(c) + 1)
         /\ Append(c, o)[Len(c) + 1] = o
         /\ \A i \in DOMAIN c : i \in DOMAIN Append(c, o) /\ Append(c, o)[i] = c[i]
         /\ \A i \in DOMAIN Append(c, o) : i \in DOMAIN c \/ i = Len(c) + 1
  OBVIOUS

\* a chain of writes without its first
LEMMA ChainShrinks ==
  ASSUME NEW c \in Seq(AnyOp), c # <<>>
  PROVE  /\ Tail(c) \in Seq(AnyOp) /\ Len(c) \in Nat \ {0} /\ Len(Tail(c)) = Len(c) - 1
         /\ DOMAIN c = 1..Len(c) /\ DOMAIN Tail(c) = 1..(Len(c) - 1)
         /\ Head(c) = c[1] /\ c[1] \in AnyOp
         /\ \A i \in DOMAIN Tail(c) : i + 1 \in DOMAIN c /\ Tail(c)[i] = c[i + 1]
         /\ \A i \in DOMAIN c : i = 1 \/ (i - 1 \in DOMAIN Tail(c) /\ Tail(c)[i - 1] = c[i])
  OBVIOUS

LEMMA EmptyChain ==
  ASSUME NEW c \in Seq(AnyOp) PROVE c = <<>> <=> Len(c) = 0
  OBVIOUS

\* The upload u goes on: the item i is shown, j is under way, o is to be written.
UploadGoesOn(u, i, j, o) ==
  /\ v3' = [v3 EXCEPT ![u] = i] /\ v4' = [v4 EXCEPT ![u] = j]
  /\ v6' = [v6 EXCEPT ![u] = Append(@, o)] /\ v7' = v7
  /\ v8' = v8 \/ v8' = [v8 EXCEPT !.ran = @ \cup {u}]

\* What that leaves alone.
LEMMA GoingOn ==
  ASSUME MediaTypes, NEW u \in Uploads, NEW i \in AnyItem, NEW o \in AnyOp,
         NEW j \in AnyJob,
         UploadGoesOn(u, i, j, o)
  PROVE  /\ v3' \in [Uploads -> AnyItem] /\ v7' \in [Uploads -> AnyRecord]
         /\ v4' \in [Uploads -> AnyJob]
         /\ v6' \in [Uploads -> Seq(AnyOp)] /\ v8' \in AnyRecovery
         /\ v3'[u] = i /\ v4'[u] = j /\ v6'[u] = Append(v6[u], o) /\ v7' = v7
         /\ \A w \in Uploads : w # u => v3'[w] = v3[w] /\ v4'[w] = v4[w] /\ v6'[w] = v6[w]
         /\ v8'.stage = v8.stage /\ v8'.need = v8.need /\ v8'.read = v8.read
         /\ v8'.ran = v8.ran \/ v8'.ran = v8.ran \cup {u}
         /\ v6[u] \in Seq(AnyOp)
  <1>1. /\ v3 \in [Uploads -> AnyItem] /\ v6 \in [Uploads -> Seq(AnyOp)] /\ v8 \in AnyRecovery
        /\ v4 \in [Uploads -> AnyJob]
        /\ v7 \in [Uploads -> AnyRecord]
    BY DEF MediaTypes
  <1>2. v6[u] \in Seq(AnyOp) /\ Append(v6[u], o) \in Seq(AnyOp)
    BY <1>1
  <1>3. /\ v3' \in [Uploads -> AnyItem] /\ v3'[u] = i
        /\ \A w \in Uploads : w # u => v3'[w] = v3[w]
    BY <1>1 DEF UploadGoesOn
  <1>4. /\ v4' \in [Uploads -> AnyJob]
        /\ v4'[u] = j /\ \A w \in Uploads : w # u => v4'[w] = v4[w]
    BY <1>1 DEF UploadGoesOn
  <1>5. /\ v6' \in [Uploads -> Seq(AnyOp)] /\ v6'[u] = Append(v6[u], o)
        /\ \A w \in Uploads : w # u => v6'[w] = v6[w]
    BY <1>1, <1>2 DEF UploadGoesOn
  <1>6. /\ v8' \in AnyRecovery /\ v8'.stage = v8.stage /\ v8'.need = v8.need
        /\ v8'.read = v8.read /\ (v8'.ran = v8.ran \/ v8'.ran = v8.ran \cup {u})
    <2> DEFINE r == [v8 EXCEPT !.ran = @ \cup {u}]
    <2>1. /\ r \in AnyRecovery /\ r.stage = v8.stage /\ r.need = v8.need
          /\ r.read = v8.read /\ r.ran = v8.ran \cup {u}
      BY <1>1 DEF AnyRecovery
    <2>2. v8' = v8 \/ v8' = r
      BY DEF UploadGoesOn
    <2> HIDE DEF r
    <2>3. CASE v8' = v8
      BY <1>1, <2>3
    <2>4. CASE v8' = r
      BY <2>1, <2>4
    <2> QED
      BY <2>2, <2>3, <2>4
  <1> QED
    BY <1>1, <1>2, <1>3, <1>4, <1>5, <1>6 DEF UploadGoesOn

\* What is shown and written is whole.
LEMMA GoingOnIsWhole ==
  ASSUME MediaTypes, ItemsAreWhole, NEW u \in Uploads, NEW i \in AnyItem, NEW o \in AnyOp,
         NEW j \in AnyJob,
         UploadGoesOn(u, i, j, o), IsWhole(i), OpIsWhole(o), IsWhole(o)
  PROVE  ItemsAreWhole'
  <1>1. ASSUME NEW w \in Uploads, w # u
        PROVE  /\ IsWhole(v3'[w]) /\ IsWhole(v7'[w]) /\ IsWhole(v8'.read[w])
               /\ \A k \in DOMAIN v6'[w] : OpIsWhole(v6'[w][k]) /\ IsWhole(v6'[w][k])
               /\ v8'.stage # "read" => v8'.read[w] = Media!NoRecord
    BY <1>1, GoingOn DEF ItemsAreWhole, UploadGoesOn
  <1>2. /\ IsWhole(v3'[u]) /\ IsWhole(v7'[u]) /\ IsWhole(v8'.read[u])
        /\ v8'.stage # "read" => v8'.read[u] = Media!NoRecord
    BY GoingOn DEF ItemsAreWhole, UploadGoesOn
  <1>3. \A k \in DOMAIN v6'[u] : OpIsWhole(v6'[u][k]) /\ IsWhole(v6'[u][k])
    BY GoingOn, ChainGrows DEF ItemsAreWhole, UploadGoesOn
  <1> QED
    BY <1>1, <1>2, <1>3 DEF ItemsAreWhole

\* The items an upload names are those it named and those it goes on with.
LEMMA GoingOnNames ==
  ASSUME MediaTypes, NEW u \in Uploads, NEW i \in AnyItem, NEW o \in AnyOp,
         NEW j \in AnyJob,
         UploadGoesOn(u, i, j, o), NEW m \in Items, NEW w \in Uploads
  PROVE  Names(w, m)' => Names(w, m) \/ (w = u /\ m \in {i.media, j.media, o.media})
  <1>1. CASE w # u
    BY <1>1, GoingOn DEF Names, UploadGoesOn
  <1>2. CASE w = u
    <2>1. (\E k \in DOMAIN v6'[u] : v6'[u][k].media = m) =>
            (\E k \in DOMAIN v6[u] : v6[u][k].media = m) \/ o.media = m
      BY GoingOn, ChainGrows DEF UploadGoesOn
    <2> QED
      BY <1>2, <2>1, GoingOn DEF Names, UploadGoesOn
  <1> QED
    BY <1>1, <1>2

\* The items in use are those that were, and the one it is ready with.
LEMMA GoingOnUses ==
  ASSUME MediaTypes, NEW u \in Uploads, NEW i \in AnyItem, NEW o \in AnyOp,
         NEW j \in AnyJob,
         UploadGoesOn(u, i, j, o), NEW m \in Items,
         \A k \in 1..2 : v1'[k][m] > 0 => v1[k][m] > 0 \/ Ready(i, m)
  PROVE  Uses(m)' => Uses(m) \/ Ready(i, m) \/ Ready(o, m)
  <1>1. ASSUME NEW w \in Uploads, w # u,
               \/ Ready(v3'[w], m) \/ Ready(v7'[w], m) \/ Ready(v8'.read[w], m)
               \/ \E k \in DOMAIN v6'[w] : Ready(v6'[w][k], m)
        PROVE  Uses(m)
    <2>1. v3'[w] = v3[w] /\ v7'[w] = v7[w] /\ v8'.read[w] = v8.read[w] /\ v6'[w] = v6[w]
      BY <1>1, GoingOn DEF UploadGoesOn
    <2> QED
      BY <1>1, <2>1 DEF Uses
  <1>2. ASSUME \/ Ready(v3'[u], m) \/ Ready(v7'[u], m) \/ Ready(v8'.read[u], m)
               \/ \E k \in DOMAIN v6'[u] : Ready(v6'[u][k], m)
        PROVE  Uses(m) \/ Ready(i, m) \/ Ready(o, m)
    <2>1. CASE Ready(v3'[u], m) \/ Ready(v7'[u], m) \/ Ready(v8'.read[u], m)
      BY <2>1, GoingOn DEF Uses, UploadGoesOn
    <2>2. ASSUME NEW k \in DOMAIN v6'[u], Ready(v6'[u][k], m)
          PROVE  Uses(m) \/ Ready(o, m)
      BY <2>2, GoingOn, ChainGrows DEF Uses, UploadGoesOn
    <2> QED
      BY <1>2, <2>1, <2>2
  <1> QED
    BY <1>1, <1>2 DEF Uses

\* What was said of an item in use is still overwritten, by this upload and by the others.
LEMMA GoingOnWrites ==
  ASSUME MediaTypes, NEW u \in Uploads, NEW i \in AnyItem, NEW o \in AnyOp, NEW j \in AnyJob,
         UploadGoesOn(u, i, j, o), NEW m \in Items, Written(u, m),
         j.media # m, ~Waiting(i, m), ~Waiting(o, m), v3[u].status # "ready" \/ o.op = "delete"
  PROVE  Written(u, m)'
  <1> DEFINE n == Len(v6[u]) + 1
  <1>1. /\ v6[u] \in Seq(AnyOp) /\ v6'[u] = Append(v6[u], o) /\ v3'[u] = i /\ v4'[u] = j
        /\ v7'[u] = v7[u] /\ v8'.read[u] = v8.read[u] /\ v8.ran \subseteq v8'.ran
    BY GoingOn DEF UploadGoesOn
  <1>2. /\ n \in DOMAIN v6'[u] /\ v6'[u][n] = o
        /\ \A k \in DOMAIN v6[u] : k \in DOMAIN v6'[u] /\ v6'[u][k] = v6[u][k]
        /\ \A k \in DOMAIN v6'[u] : k \in DOMAIN v6[u] \/ k = n
    BY <1>1, ChainGrows
  <1> HIDE DEF n
  <1>3. j.media # m /\ ~Waiting(i, m) /\ ~Waiting(o, m)
    OBVIOUS
  <1>4. \A k \in DOMAIN v6'[u] : Waiting(v6'[u][k], m) =>
          \E l \in DOMAIN v6'[u] : k < l /\ Ready(v6'[u][l], m)
    BY <1>2, <1>3 DEF Written
  <1>5. Waiting(v7'[u], m) => \E l \in DOMAIN v6'[u] : Ready(v6'[u][l], m)
    BY <1>1, <1>2 DEF Written
  <1>6. Waiting(v8'.read[u], m) => Media!Deleting(u)' \/ (u \in v8'.ran /\ v3'[u].media = m)
    <2> SUFFICES ASSUME Waiting(v8.read[u], m), ~Media!Deleting(u)' PROVE FALSE
      BY <1>1
    <2>1. ~Media!Deleting(u) /\ o.op # "delete"
      BY <1>2 DEF Media!Deleting
    <2>2. v3[u].media = m /\ ~Waiting(v3[u], m)
      BY <2>1 DEF Written
    <2>3. v3[u].status = "ready"
      BY <2>2 DEF Waiting
    <2> QED
      BY <2>1, <2>3
  <1> QED
    BY <1>1, <1>3, <1>4, <1>5, <1>6 DEF Written

LEMMA OthersWrite ==
  ASSUME MediaTypes, NEW u \in Uploads, NEW i \in AnyItem, NEW o \in AnyOp, NEW j \in AnyJob,
         UploadGoesOn(u, i, j, o), NEW m \in Items, NEW w \in Uploads, w # u, Written(w, m)
  PROVE  Written(w, m)'
  <1>1. /\ v3'[w] = v3[w] /\ v4'[w] = v4[w] /\ v6'[w] = v6[w] /\ v7'[w] = v7[w]
        /\ v8'.read[w] = v8.read[w] /\ v8.ran \subseteq v8'.ran
    BY GoingOn DEF UploadGoesOn
  <1> QED
    BY <1>1 DEF Written, Media!Deleting

\* Each part of the invariant, when an upload goes on.
LEMMA GoingOnJobs ==
  ASSUME MediaTypes, NEW u \in Uploads, NEW i \in AnyItem, NEW o \in AnyOp, NEW j \in AnyJob,
         UploadGoesOn(u, i, j, o), JobsHold, OwnersHold,
         \A w \in Uploads : w # u => (w \in v5' <=> w \in v5),
         \A m \in Items : v10[m] = "none" \/ v10'[m] = v10[m],
         v11' \subseteq Items, \A m \in v11' : m \in v11 \/ Waiting(v3[u], m),
         j.at \in {"off", "ticket"} <=> j.media = None,
         j.at # "off" /\ u \notin v5' =>
           i.status \in Media!Busy /\ j.media \notin v11' /\ (j.at = "answered" => v10'[j.media] = "ready"),
         j.at # "off" /\ v8.stage # "off" => u \in v8'.ran,
         i.status \in {"ready", "failed"} => j.at = "off"
  PROVE  JobsHold'
  <1>1. ASSUME NEW w \in Uploads
        PROVE  /\ v4'[w].at \in {"off", "ticket"} <=> v4'[w].media = None
               /\ v4'[w].at # "off" /\ w \notin v5' =>
                    /\ v3'[w].status \in Media!Busy
                    /\ v4'[w].media \notin v11'
                    /\ v4'[w].at = "answered" => v10'[v4'[w].media] = "ready"
               /\ v4'[w].at # "off" /\ v8'.stage # "off" => w \in v8'.ran
               /\ v3'[w].status \in {"ready", "failed"} => v4'[w].at = "off"
    <2>1. CASE w = u
      <3>1. v3'[u] = i /\ v4'[u] = j /\ v8'.stage = v8.stage
        BY GoingOn DEF UploadGoesOn
      <3> QED
        BY <2>1, <3>1
    <2>2. CASE w # u
      <3>1. v3'[w] = v3[w] /\ v4'[w] = v4[w] /\ v8'.stage = v8.stage /\ v8.ran \subseteq v8'.ran
        BY <2>2, GoingOn DEF UploadGoesOn
      <3>2. /\ v4[w].at \in {"off", "ticket"} <=> v4[w].media = None
            /\ v4[w].at # "off" /\ w \notin v5 =>
                 /\ v3[w].status \in Media!Busy
                 /\ v4[w].media \notin v11
                 /\ v4[w].at = "answered" => v10[v4[w].media] = "ready"
            /\ v4[w].at # "off" /\ v8.stage # "off" => w \in v8.ran
            /\ v3[w].status \in {"ready", "failed"} => v4[w].at = "off"
        BY DEF JobsHold
      <3>3. v4[w].media \in Items \cup {None} /\ v4[w].at \in {"off", "ticket", "transfer", "answered"}
        BY DEF MediaTypes, AnyJob
      <3>4. ASSUME v4[w].at # "off", w \notin v5, v4[w].media \in v11' PROVE FALSE
        <4>1. v4[w].media \in Items /\ v3[u].media = v4[w].media
          BY <3>2, <3>4 DEF Waiting
        <4> QED
          BY <2>2, <4>1 DEF OwnersHold, Names
      <3>5. ASSUME v4[w].at = "answered", w \notin v5 PROVE v10'[v4[w].media] = "ready"
        <4>1. v4[w].media \in Items /\ v10[v4[w].media] = "ready"
          BY <3>2, <3>3, <3>5
        <4> QED
          BY <4>1
      <3>6. w \in v5' <=> w \in v5
        BY <2>2
      <3> QED
        BY <3>1, <3>2, <3>4, <3>5, <3>6
    <2> QED
      BY <2>1, <2>2
  <1> QED
    BY <1>1 DEF JobsHold

\* what was not chosen is nowhere, and what was taken away is being deleted
LEMMA GoingOnChosen ==
  ASSUME MediaTypes, NEW u \in Uploads, NEW i \in AnyItem, NEW o \in AnyOp, NEW j \in AnyJob,
         UploadGoesOn(u, i, j, o), ChosenHolds,
         v12.chosen \subseteq v12'.chosen, u \in v12'.chosen
  PROVE  ChosenHolds'
  <1>1. ASSUME NEW w \in Uploads \ v12'.chosen
        PROVE  /\ v3'[w] = Media!NoItem /\ v4'[w].at = "off" /\ v6'[w] = <<>>
               /\ v7'[w].status = "none" /\ v8'.read[w].status = "none"
    <2>1. w \in Uploads \ v12.chosen /\ w # u
      OBVIOUS
    <2>2. v3'[w] = v3[w] /\ v4'[w] = v4[w] /\ v6'[w] = v6[w] /\ v7'[w] = v7[w] /\ v8'.read[w] = v8.read[w]
      BY <2>1, GoingOn DEF UploadGoesOn
    <2> QED
      BY <2>1, <2>2 DEF ChosenHolds
  <1> QED
    BY <1>1 DEF ChosenHolds

LEMMA GoingOnGone ==
  ASSUME MediaTypes, NEW u \in Uploads, NEW i \in AnyItem, NEW o \in AnyOp, NEW j \in AnyJob,
         UploadGoesOn(u, i, j, o), GoneHolds, v12'.gone \subseteq Uploads,
         \A w \in Uploads : w # u => (w \in v5' <=> w \in v5),
         v12.chosen \subseteq v12'.chosen, u \in v12'.chosen,
         \A w \in v12'.gone : w \in v12.gone \/ w = u,
         u \in v12'.gone => i = Media!NoItem /\ o.op = "delete" /\ (j.at = "off" \/ u \in v5')
  PROVE  GoneHolds'
  <1>1. ASSUME NEW w \in v12'.gone
        PROVE  /\ v3'[w] = Media!NoItem /\ w \in v12'.chosen
               /\ v4'[w].at = "off" \/ w \in v5'
               /\ v6'[w] = <<>> => v7'[w] = Media!NoRecord /\ v8'.read[w].status = "none"
               /\ v6'[w] # <<>> => v6'[w][Len(v6'[w])].op = "delete"
    <2>1. CASE w = u
      <3>1. v3'[u] = i /\ v4'[u] = j /\ v6'[u] = Append(v6[u], o) /\ v6[u] \in Seq(AnyOp)
        BY GoingOn DEF UploadGoesOn
      <3>2. v6'[u] # <<>> /\ v6'[u][Len(v6'[u])] = o
        BY <3>1, ChainGrows
      <3> QED
        BY <2>1, <3>1, <3>2
    <2>2. CASE w # u
      <3>1. w \in v12.gone /\ w \in Uploads
        BY <2>2
      <3>2. /\ v3'[w] = v3[w] /\ v4'[w] = v4[w] /\ v6'[w] = v6[w] /\ v7'[w] = v7[w]
            /\ v8'.read[w] = v8.read[w] /\ (w \in v5' <=> w \in v5)
        BY <2>2, <3>1, GoingOn DEF UploadGoesOn
      <3>3. /\ v3[w] = Media!NoItem /\ w \in v12.chosen
            /\ v4[w].at = "off" \/ w \in v5
            /\ v6[w] = <<>> => v7[w] = Media!NoRecord /\ v8.read[w].status = "none"
            /\ v6[w] # <<>> => v6[w][Len(v6[w])].op = "delete"
        BY <3>1 DEF GoneHolds
      <3> QED
        BY <3>1, <3>2, <3>3
    <2> QED
      BY <2>1, <2>2
  <1> QED
    BY <1>1 DEF GoneHolds

\* what the store did not lose will be in it
LEMMA GoingOnBacked ==
  ASSUME MediaTypes, NEW u \in Uploads, NEW i \in AnyItem, NEW o \in AnyOp, NEW j \in AnyJob,
         UploadGoesOn(u, i, j, o), BackedHolds, v13 \subseteq v13', u \in v13' \/ o.op # "delete",
         \A k \in 1..2 : \A w \in Uploads : w # u /\ v1'[k][w] > 0 => v1[k][w] > 0
  PROVE  BackedHolds'
  <1>1. ASSUME NEW w \in Uploads \ v13'
        PROVE  /\ ~Media!Deleting(w)'
               /\ (\E k \in 1..2 : v1'[k][w] > 0) \/ v3'[w] # Media!NoItem =>
                    v7'[w] # Media!NoRecord \/ v6'[w] # <<>>
    <2>0. /\ ~Media!Deleting(w)
          /\ (\E k \in 1..2 : v1[k][w] > 0) \/ v3[w] # Media!NoItem =>
               v7[w] # Media!NoRecord \/ v6[w] # <<>>
      BY DEF BackedHolds
    <2>1. CASE w = u
      <3>1. v6'[u] = Append(v6[u], o) /\ v6[u] \in Seq(AnyOp) /\ o.op # "delete"
        BY <2>1, GoingOn DEF UploadGoesOn
      <3>2. v6'[u] # <<>> /\ \A k \in DOMAIN v6'[u] : v6'[u][k].op # "delete"
        BY <2>0, <2>1, <3>1, ChainGrows DEF Media!Deleting
      <3> QED
        BY <2>1, <3>2 DEF Media!Deleting
    <2>2. CASE w # u
      <3>1. v3'[w] = v3[w] /\ v6'[w] = v6[w] /\ v7'[w] = v7[w]
        BY <2>2, GoingOn DEF UploadGoesOn
      <3> QED
        BY <2>0, <2>2, <3>1 DEF Media!Deleting
    <2> QED
      BY <2>1, <2>2
  <1> QED
    BY <1>1 DEF BackedHolds

\* an item still belongs to one upload
LEMMA GoingOnOwners ==
  ASSUME MediaTypes, NEW u \in Uploads, NEW i \in AnyItem, NEW o \in AnyOp, NEW j \in AnyJob,
         UploadGoesOn(u, i, j, o), OwnersHold,
         \A m \in Items : v10'[m] = "none" => v10[m] = "none",
         \A m \in v11' : m \in v11 \/ Waiting(v3[u], m),
         \A m \in Items : m \in {i.media, j.media, o.media} =>
           Names(u, m) \/ (v10[m] = "none" /\ v10'[m] # "none")
  PROVE  OwnersHold'
  <1>1. ASSUME NEW m \in Items
        PROVE  /\ v10'[m] = "none" => m \notin v11' /\ \A w \in Uploads : ~Names(w, m)'
               /\ \A x, w \in Uploads : Names(x, m)' /\ Names(w, m)' => x = w
    <2>1. \A w \in Uploads : Names(w, m)' => Names(w, m) \/ (w = u /\ v10[m] = "none" /\ v10'[m] # "none")
      <3> TAKE w \in Uploads
      <3>1. Names(w, m)' => Names(w, m) \/ (w = u /\ m \in {i.media, j.media, o.media})
        BY GoingOnNames DEF UploadGoesOn
      <3> QED
        BY <3>1
    <2>2. /\ v10[m] = "none" => m \notin v11 /\ \A w \in Uploads : ~Names(w, m)
          /\ \A x, w \in Uploads : Names(x, m) /\ Names(w, m) => x = w
      BY DEF OwnersHold
    <2>3. Waiting(v3[u], m) => Names(u, m)
      BY DEF Waiting, Names
    <2> QED
      BY <2>1, <2>2, <2>3
  <1> QED
    BY <1>1 DEF OwnersHold

\* what is used stays so
LEMMA GoingOnUsesIt ==
  ASSUME MediaTypes, NEW u \in Uploads, NEW i \in AnyItem, NEW o \in AnyOp, NEW j \in AnyJob,
         UploadGoesOn(u, i, j, o), UsedHolds, NEW m \in Items, m \notin v13,
         v10[m] = "none" \/ v10'[m] = v10[m], m \in v11' => m \in v11 \/ Waiting(v3[u], m),
         v3[u].status # "ready" \/ o.op = "delete", ~Ready(i, m), ~Ready(o, m),
         v10[m] = "ready" /\ Written(u, m) => j.media # m /\ ~Waiting(i, m) /\ ~Waiting(o, m),
         \A k \in 1..2 : v1'[k][m] > 0 => v1[k][m] > 0
  PROVE  Uses(m)' => v10'[m] = "ready" /\ m \notin v11' /\ \A w \in Uploads : Written(w, m)'
  <1> SUFFICES ASSUME Uses(m)'
               PROVE  v10'[m] = "ready" /\ m \notin v11' /\ \A w \in Uploads : Written(w, m)'
    OBVIOUS
  <1>1. Uses(m)' => Uses(m) \/ Ready(i, m) \/ Ready(o, m)
    <2>1. \A k \in 1..2 : v1'[k][m] > 0 => v1[k][m] > 0 \/ Ready(i, m)
      OBVIOUS
    <2> QED
      BY <2>1, GoingOnUses DEF UploadGoesOn
  <1>2. v10[m] = "ready" /\ m \notin v11 /\ \A w \in Uploads : Written(w, m)
    BY <1>1 DEF UsedHolds
  <1>3. m \notin v11'
    BY <1>2 DEF Written
  <1>4. Written(u, m)'
    <2>1. /\ Written(u, m) /\ j.media # m /\ ~Waiting(i, m) /\ ~Waiting(o, m)
          /\ v3[u].status # "ready" \/ o.op = "delete"
      BY <1>2
    <2> QED
      BY <2>1, GoingOnWrites DEF UploadGoesOn
  <1>5. ASSUME NEW w \in Uploads, w # u PROVE Written(w, m)'
    BY <1>2, <1>5, OthersWrite DEF UploadGoesOn
  <1> QED
    BY <1>2, <1>3, <1>4, <1>5

LEMMA GoingOnUsed ==
  ASSUME MediaTypes, NEW u \in Uploads, NEW i \in AnyItem, NEW o \in AnyOp, NEW j \in AnyJob,
         UploadGoesOn(u, i, j, o), UsedHolds, v13 \subseteq v13',
         \A m \in Items : v10[m] = "none" \/ v10'[m] = v10[m],
         \A m \in v11' : m \in v11 \/ Waiting(v3[u], m),
         v3[u].status # "ready" \/ o.op = "delete",
         i.status # "ready", o.status # "ready",
         \A m \in Items : v10[m] = "ready" /\ Written(u, m) =>
           j.media # m /\ ~Waiting(i, m) /\ ~Waiting(o, m),
         \A k \in 1..2 : \A m \in Items : v1'[k][m] > 0 => v1[k][m] > 0
  PROVE  UsedHolds'
  <1>1. ASSUME NEW m \in Items \ v13'
        PROVE  Uses(m)' => v10'[m] = "ready" /\ m \notin v11' /\ \A w \in Uploads : Written(w, m)'
    <2>1. /\ m \in Items /\ m \notin v13 /\ ~Ready(i, m) /\ ~Ready(o, m)
          /\ v10[m] = "none" \/ v10'[m] = v10[m]
          /\ m \in v11' => m \in v11 \/ Waiting(v3[u], m)
          /\ v10[m] = "ready" /\ Written(u, m) => j.media # m /\ ~Waiting(i, m) /\ ~Waiting(o, m)
          /\ \A k \in 1..2 : v1'[k][m] > 0 => v1[k][m] > 0
      BY DEF Ready
    <2> QED
      BY <2>1, GoingOnUsesIt DEF UploadGoesOn
  <1> QED
    BY <1>1 DEF UsedHolds

\* a waiting recovery knows the upload
LEMMA GoingOnPending ==
  ASSUME MediaTypes, NEW u \in Uploads, NEW i \in AnyItem, NEW o \in AnyOp, NEW j \in AnyJob,
         UploadGoesOn(u, i, j, o), UsedHolds, PendingHolds, ItemsAreWhole, v13 \subseteq v13',
         v3[u].status # "ready" \/ o.op = "delete",
         o.op = "put" /\ v8.stage = "wait" =>
           u \in v8'.ran /\ (o.status # "ready" \/ i.media = o.media)
  PROVE  PendingHolds'
  <1>1. ASSUME v8'.stage = "wait", NEW w \in Uploads, NEW k \in DOMAIN v6'[w],
               k > v8'.need[w], v6'[w][k].op = "put"
        PROVE  /\ w \in v8'.ran
               /\ \/ v6'[w][k].status # "ready" \/ v6'[w][k].media \in v13'
                  \/ v3'[w].media = v6'[w][k].media
                  \/ \E l \in DOMAIN v6'[w] : l > k /\ v6'[w][l].op = "delete"
    <2>0. v8.stage = "wait" /\ v8'.need = v8.need /\ v8.ran \subseteq v8'.ran
      BY <1>1, GoingOn DEF UploadGoesOn
    <2>1. CASE w # u
      <3>1. v3'[w] = v3[w] /\ v6'[w] = v6[w]
        BY <2>1, GoingOn DEF UploadGoesOn
      <3> QED
        BY <1>1, <2>0, <3>1 DEF PendingHolds
    <2>2. CASE w = u
      <3> DEFINE n == Len(v6[u]) + 1
      <3>1. v6[u] \in Seq(AnyOp) /\ v6'[u] = Append(v6[u], o) /\ v3'[u] = i
        BY GoingOn DEF UploadGoesOn
      <3>2. /\ n \in DOMAIN v6'[u] /\ v6'[u][n] = o /\ n \in Nat
            /\ \A l \in DOMAIN v6[u] : l \in DOMAIN v6'[u] /\ v6'[u][l] = v6[u][l] /\ l < n
            /\ \A l \in DOMAIN v6'[u] : l \in DOMAIN v6[u] \/ l = n
        BY <3>1, ChainGrows
      <3> HIDE DEF n
      <3>3. CASE k = n
        BY <1>1, <2>0, <2>2, <3>1, <3>2, <3>3
      <3>4. CASE k \in DOMAIN v6[u]
        <4>0. v6'[u][k] = v6[u][k] /\ k < n
          BY <3>2, <3>4
        <4>1. /\ u \in v8.ran
              /\ \/ v6[u][k].status # "ready" \/ v6[u][k].media \in v13
                 \/ v3[u].media = v6[u][k].media
                 \/ \E l \in DOMAIN v6[u] : l > k /\ v6[u][l].op = "delete"
          BY <1>1, <2>0, <2>2, <3>4, <4>0 DEF PendingHolds
        <4>2. CASE o.op = "delete"
          BY <2>0, <2>2, <3>2, <4>0, <4>1, <4>2
        <4>3. CASE \E l \in DOMAIN v6[u] : l > k /\ v6[u][l].op = "delete"
          BY <2>0, <2>2, <3>2, <4>0, <4>1, <4>3
        <4>4. CASE v6[u][k].status # "ready" \/ v6[u][k].media \in v13
          BY <2>0, <2>2, <4>0, <4>1, <4>4
        <4>5. CASE /\ o.op # "delete" /\ v6[u][k].status = "ready" /\ v6[u][k].media \notin v13
                   /\ v3[u].media = v6[u][k].media
          <5> DEFINE m == v6[u][k].media
          <5>1. m \in Items \ v13
            <6>1. v6[u][k] \in AnyOp
              BY <3>1, <3>4
            <6>2. IsWhole(v6[u][k])
              BY <3>4 DEF ItemsAreWhole
            <6> QED
              BY <4>5, <6>1, <6>2 DEF IsWhole, AnyOp
          <5>2. Uses(m)
            BY <3>4, <4>5 DEF Uses, Ready
          <5>3. Written(u, m)
            BY <5>1, <5>2 DEF UsedHolds
          <5> QED
            BY <4>5, <5>3 DEF Written, Waiting
        <4> QED
          BY <4>1, <4>2, <4>3, <4>4, <4>5
      <3> QED
        BY <3>2, <2>2, <3>3, <3>4
    <2> QED
      BY <2>1, <2>2
  <1> QED
    BY <1>1 DEF PendingHolds

\* A text is written.
LEMMA TextIsWritten ==
  ASSUME MediaTypes, NEW t \in [Media!Refs -> Nat], Media!Writes(t)
  PROVE  /\ v1' \in [1..2 -> [Media!Refs -> Nat]]
         /\ \A k \in 1..2 : v1'[k] = t \/ v1'[k] = v1[k]
         /\ v2 \in 1..2 /\ v1[v2] \in [Media!Refs -> Nat] /\ v1'[v2] = t
         /\ \A k \in 1..2 : k # v2 => v1'[k] = v1[k]
  BY DEF MediaTypes, Media!Writes

\* Each action of MediaUploads keeps the invariant.
\* An upload begins, or begins again.
LEMMA MediaAfterBegins ==
  ASSUME MediaInv, NEW u \in Uploads, Media!Begins(u), v3[u].status \in {"none", "failed"},
         v2' = v2, v7' = v7, v10' = v10, v11' = v11, v13' = v13, u \notin v12.gone,
         v12' \in AnyUser,
         v12'.gone = v12.gone, v12.chosen \subseteq v12'.chosen, u \in v12'.chosen
  PROVE  MediaInv'
  <1> DEFINE i == Media!Queued
             o == Media!Put(i, TRUE)
             j == [Media!NoJob EXCEPT !.at = "ticket"]
  <1>1. /\ MediaTypes /\ ItemsAreWhole /\ JobsHold /\ ChosenHolds /\ GoneHolds /\ BackedHolds
        /\ OwnersHold /\ UsedHolds /\ PendingHolds
    BY DEF MediaInv
  <1>2. i \in AnyItem /\ i.status = "queued" /\ i.media = None /\ IsWhole(i)
    BY DEF Media!Queued, AnyItem, Statuses, IsWhole
  <1>3. o \in AnyOp /\ o.op = "put" /\ o.status = "queued" /\ o.media = None /\ OpIsWhole(o) /\ IsWhole(o)
    BY <1>2, PutIs
  <1>4. j \in AnyJob /\ j.at = "ticket" /\ j.media = None
    BY MediaValues DEF AnyJob, Media!NoJob
  <1>5. UploadGoesOn(u, i, j, o)
    BY DEF Media!Begins, Media!Queues, UploadGoesOn
  <1>6. v5' = v5 \ {u} /\ (v8.stage # "off" => u \in v8'.ran)
    <2>1. CASE v8.stage = "off"
      BY <2>1 DEF Media!Begins
    <2>2. CASE v8.stage # "off"
      <3>1. v8' = [v8 EXCEPT !.ran = @ \cup {u}]
        BY <2>2 DEF Media!Begins
      <3> QED
        BY <1>1, <3>1 DEF Media!Begins, MediaTypes, AnyRecovery
    <2> QED
      BY <2>1, <2>2 DEF Media!Begins
  <1>7. /\ v1' \in [1..2 -> [Media!Refs -> Nat]]
        /\ \A k \in 1..2 : \A r \in Media!Refs : r # u /\ v1'[k][r] > 0 => v1[k][r] > 0
    <2> DEFINE t == Media!Inserted(v1[v2], u)
    <2>1. v1[v2] \in [Media!Refs -> Nat] /\ u \in Media!Refs
      BY <1>1 DEF MediaTypes, Media!Refs
    <2>2. t \in [Media!Refs -> Nat] /\ \A r \in Media!Refs : r # u => t[r] = v1[v2][r]
      BY <2>1 DEF Media!Inserted
    <2>3. Media!Writes(t)
      BY DEF Media!Begins, Media!text
    <2> HIDE DEF t
    <2>4. /\ v1' \in [1..2 -> [Media!Refs -> Nat]] /\ v1'[v2] = t
          /\ \A k \in 1..2 : k # v2 => v1'[k] = v1[k]
      BY <1>1, <2>2, <2>3, TextIsWritten DEF Media!Writes
    <2> QED
      BY <2>2, <2>4
  <1> HIDE DEF i, j, o
  <1>8. u \in Media!Refs /\ Items \subseteq Media!Refs /\ Uploads \subseteq Media!Refs /\ u \notin Items
    BY MediaValues DEF Media!Refs
  <1>9. MediaTypes'
    <2>1. /\ v3' \in [Uploads -> AnyItem] /\ v4' \in [Uploads -> AnyJob]
          /\ v6' \in [Uploads -> Seq(AnyOp)] /\ v8' \in AnyRecovery
      BY <1>1, <1>2, <1>3, <1>4, <1>5, GoingOn DEF UploadGoesOn
    <2> QED
      BY <1>1, <1>7, <2>1 DEF MediaTypes
  <1>10. ItemsAreWhole'
    BY <1>1, <1>2, <1>3, <1>4, <1>5, GoingOnIsWhole DEF UploadGoesOn
  <1>11. JobsHold'
    <2>1. /\ \A w \in Uploads : w # u => (w \in v5' <=> w \in v5)
          /\ \A m \in Items : v10[m] = "none" \/ v10'[m] = v10[m]
          /\ v11' \subseteq Items /\ \A m \in v11' : m \in v11 \/ Waiting(v3[u], m)
      BY <1>1, <1>6 DEF MediaTypes
    <2>2. /\ j.at \in {"off", "ticket"} <=> j.media = None
          /\ i.status \in Media!Busy /\ j.media \notin v11'
      BY <1>1, <1>2, <1>4, MediaValues DEF Media!Busy, MediaTypes
    <2> QED
      BY <1>1, <1>2, <1>3, <1>4, <1>5, <1>6, <2>1, <2>2, GoingOnJobs DEF UploadGoesOn
  <1>12. ChosenHolds'
    BY <1>1, <1>2, <1>3, <1>4, <1>5, GoingOnChosen DEF UploadGoesOn
  <1>13. GoneHolds'
    BY <1>1, <1>2, <1>3, <1>4, <1>5, <1>6, GoingOnGone DEF UploadGoesOn, AnyUser
  <1>14. BackedHolds'
    BY <1>1, <1>2, <1>3, <1>4, <1>5, <1>7, <1>8, GoingOnBacked DEF UploadGoesOn
  <1>15. OwnersHold'
    <2>1. \A m \in Items : m \notin {i.media, j.media, o.media}
      BY <1>2, <1>3, <1>4, MediaValues
    <2>2. (\A m \in Items : v10'[m] = "none" => v10[m] = "none") /\ \A m \in v11' : m \in v11
      OBVIOUS
    <2> QED
      BY <1>1, <1>2, <1>3, <1>4, <1>5, <2>1, <2>2, GoingOnOwners DEF UploadGoesOn
  <1>16. UsedHolds'
    <2>1. \A m \in Items : j.media # m /\ ~Waiting(i, m) /\ ~Waiting(o, m)
      BY <1>2, <1>3, <1>4, MediaValues DEF Waiting
    <2>2. /\ v3[u].status # "ready" /\ i.status # "ready" /\ o.status # "ready" /\ v13 \subseteq v13'
          /\ \A m \in Items : v10[m] = "none" \/ v10'[m] = v10[m]
          /\ \A m \in v11' : m \in v11
      BY <1>2, <1>3
    <2>3. \A k \in 1..2 : \A m \in Items : v1'[k][m] > 0 => v1[k][m] > 0
      BY <1>7, <1>8
    <2> QED
      BY <1>1, <1>2, <1>3, <1>4, <1>5, <2>1, <2>2, <2>3, GoingOnUsed DEF UploadGoesOn
  <1>17. PendingHolds'
    BY <1>1, <1>2, <1>3, <1>4, <1>5, <1>6, GoingOnPending DEF UploadGoesOn
  <1> QED
    BY <1>9, <1>10, <1>11, <1>12, <1>13, <1>14, <1>15, <1>16, <1>17 DEF MediaInv

\* An upload that goes on was chosen, was not taken away, and is shown.
LEMMA UnderWay ==
  ASSUME MediaInv, NEW u \in Uploads, v4[u].at # "off", u \notin v5
  PROVE  /\ v3[u] # Media!NoItem /\ v3[u].status \in Media!Busy /\ v3[u].status # "ready"
         /\ u \in v12.chosen /\ u \notin v12.gone
         /\ v4[u] \in AnyJob /\ v4[u].media \notin v11
         /\ v4[u].at \in {"off", "ticket"} <=> v4[u].media = None
         /\ v4[u].at = "answered" => v10[v4[u].media] = "ready"
         /\ v8.stage # "off" => u \in v8.ran
  <1>1. /\ v3[u].status \in Media!Busy /\ (v8.stage # "off" => u \in v8.ran)
        /\ v4[u].at \in {"off", "ticket"} <=> v4[u].media = None
        /\ v4[u].media \notin v11 /\ (v4[u].at = "answered" => v10[v4[u].media] = "ready")
    BY DEF MediaInv, JobsHold
  <1>2. v3[u] # Media!NoItem /\ v3[u].status # "ready"
    BY <1>1, MediaValues DEF Media!Busy
  <1>3. u \in v12.chosen /\ u \notin v12.gone
    BY DEF MediaInv, ChosenHolds, GoneHolds
  <1>4. v4[u] \in AnyJob
    BY DEF MediaInv, MediaTypes
  <1> QED
    BY <1>1, <1>2, <1>3, <1>4

\* The server's ticket names a new item.
LEMMA MediaAfterTicketArrives ==
  ASSUME MediaInv, NEW u \in Uploads, Media!TicketArrives(u) PROVE MediaInv'
  <1>1. /\ MediaTypes /\ ItemsAreWhole /\ JobsHold /\ ChosenHolds /\ GoneHolds /\ BackedHolds
        /\ OwnersHold /\ UsedHolds /\ PendingHolds
    BY DEF MediaInv
  <1>2. PICK m \in Items :
          LET i == [status |-> "uploading", media |-> m]
          IN  /\ v10[m] = "none" /\ v10' = [v10 EXCEPT ![m] = "uploading"]
              /\ v4' = [v4 EXCEPT ![u] = [at |-> "transfer", media |-> m]]
              /\ Media!Shows(u, i) /\ Media!Queues(u, Media!Put(i, TRUE))
    BY DEF Media!TicketArrives
  <1> DEFINE i == [status |-> "uploading", media |-> m]
             o == Media!Put(i, TRUE)
             j == [at |-> "transfer", media |-> m]
  <1>3. /\ v3[u] # Media!NoItem /\ v3[u].status # "ready" /\ u \in v12.chosen /\ u \notin v12.gone
        /\ v8.stage # "off" => u \in v8.ran
    BY UnderWay DEF Media!TicketArrives
  <1>4. v1' = v1 /\ v2' = v2 /\ v5' = v5 /\ v7' = v7 /\ v8' = v8 /\ v11' = v11 /\ v12' = v12 /\ v13' = v13
    BY DEF Media!TicketArrives
  <1>5. i \in AnyItem /\ i.status = "uploading" /\ i.media = m /\ IsWhole(i)
    BY DEF AnyItem, Statuses, IsWhole
  <1>6. o \in AnyOp /\ o.op = "put" /\ o.status = "uploading" /\ o.media = m /\ OpIsWhole(o) /\ IsWhole(o)
    BY <1>5, PutIs
  <1>7. j \in AnyJob /\ j.at = "transfer" /\ j.media = m
    BY DEF AnyJob
  <1>8. UploadGoesOn(u, i, j, o)
    BY <1>2, <1>3, <1>4 DEF Media!Shows, Media!Queues, UploadGoesOn
  <1>9. /\ v10' \in [Items -> {"none", "uploading", "ready", "deleted"}] /\ v10'[m] = "uploading"
        /\ \A x \in Items : x # m => v10'[x] = v10[x]
        /\ m \notin v11 /\ v11 \subseteq Items /\ v10[m] = "none"
    BY <1>1, <1>2 DEF MediaTypes, OwnersHold
  <1> HIDE DEF i, j, o
  <1>10. MediaTypes'
    <2>1. /\ v3' \in [Uploads -> AnyItem] /\ v4' \in [Uploads -> AnyJob]
          /\ v6' \in [Uploads -> Seq(AnyOp)] /\ v8' \in AnyRecovery
      BY <1>1, <1>5, <1>6, <1>7, <1>8, GoingOn DEF UploadGoesOn
    <2> QED
      BY <1>1, <1>4, <1>9, <2>1 DEF MediaTypes
  <1>11. ItemsAreWhole'
    BY <1>1, <1>5, <1>6, <1>7, <1>8, GoingOnIsWhole DEF UploadGoesOn
  <1>12. JobsHold'
    <2>1. /\ \A w \in Uploads : w # u => (w \in v5' <=> w \in v5)
          /\ \A x \in Items : v10[x] = "none" \/ v10'[x] = v10[x]
          /\ v11' \subseteq Items /\ \A x \in v11' : x \in v11 \/ Waiting(v3[u], x)
      BY <1>4, <1>9
    <2>2. /\ j.at \in {"off", "ticket"} <=> j.media = None
          /\ i.status \in Media!Busy /\ j.media \notin v11' /\ j.at # "answered"
          /\ i.status \notin {"ready", "failed"}
      BY <1>5, <1>7, <1>9, <1>4, MediaValues DEF Media!Busy
    <2>3. v8.stage # "off" => u \in v8'.ran
      BY <1>4, <1>3
    <2> QED
      BY <1>1, <1>5, <1>6, <1>7, <1>8, <2>1, <2>2, <2>3, GoingOnJobs DEF UploadGoesOn
  <1>13. ChosenHolds'
    BY <1>1, <1>5, <1>6, <1>7, <1>8, <1>4, <1>3, GoingOnChosen DEF UploadGoesOn
  <1>14. GoneHolds'
    <2>1. v12'.gone \subseteq Uploads
      BY <1>1, <1>4 DEF MediaTypes, AnyUser
    <2> QED
      BY <1>1, <1>5, <1>6, <1>7, <1>8, <1>4, <1>3, <2>1, GoingOnGone DEF UploadGoesOn
  <1>15. BackedHolds'
    BY <1>1, <1>5, <1>6, <1>7, <1>8, <1>4, GoingOnBacked DEF UploadGoesOn
  <1>16. OwnersHold'
    <2>1. /\ \A x \in Items : v10'[x] = "none" => v10[x] = "none"
          /\ \A x \in v11' : x \in v11 \/ Waiting(v3[u], x)
          /\ \A x \in Items : x \in {i.media, j.media, o.media} =>
               Names(u, x) \/ (v10[x] = "none" /\ v10'[x] # "none")
      BY <1>4, <1>5, <1>6, <1>7, <1>9
    <2> QED
      BY <1>1, <1>5, <1>6, <1>7, <1>8, <2>1, GoingOnOwners DEF UploadGoesOn
  <1>17. UsedHolds'
    <2>1. \A x \in Items : v10[x] = "ready" => j.media # x /\ ~Waiting(i, x) /\ ~Waiting(o, x)
      BY <1>5, <1>6, <1>7, <1>9 DEF Waiting
    <2>2. /\ v3[u].status # "ready" /\ i.status # "ready" /\ o.status # "ready" /\ v13 \subseteq v13'
          /\ \A x \in Items : v10[x] = "none" \/ v10'[x] = v10[x]
          /\ \A x \in v11' : x \in v11
          /\ \A k \in 1..2 : \A x \in Items : v1'[k][x] > 0 => v1[k][x] > 0
      BY <1>5, <1>6, <1>9, <1>4, <1>3
    <2> QED
      BY <1>1, <1>5, <1>6, <1>7, <1>8, <2>1, <2>2, GoingOnUsed DEF UploadGoesOn
  <1>18. PendingHolds'
    BY <1>1, <1>5, <1>6, <1>7, <1>8, <1>4, <1>3, GoingOnPending DEF UploadGoesOn
  <1> QED
    BY <1>10, <1>11, <1>12, <1>13, <1>14, <1>15, <1>16, <1>17, <1>18 DEF MediaInv

\* An upload that fails keeps its item.
LEMMA MediaAfterFails ==
  ASSUME MediaInv, NEW u \in Uploads, Media!Fails(u) PROVE MediaInv'
  <1> DEFINE i == [status |-> "failed", media |-> v4[u].media]
             o == Media!Put(i, FALSE)
             j == Media!NoJob
  <1>1. /\ MediaTypes /\ ItemsAreWhole /\ JobsHold /\ ChosenHolds /\ GoneHolds /\ BackedHolds
        /\ OwnersHold /\ UsedHolds /\ PendingHolds
    BY DEF MediaInv
  <1>2. /\ v3[u] # Media!NoItem /\ v3[u].status # "ready" /\ u \in v12.chosen /\ u \notin v12.gone
        /\ v8.stage # "off" => u \in v8.ran
    BY UnderWay DEF Media!Fails
  <1>3. /\ v1' = v1 /\ v2' = v2 /\ v5' = v5 /\ v7' = v7 /\ v8' = v8 /\ v10' = v10 /\ v11' = v11
        /\ v12' = v12 /\ v13' = v13
    BY DEF Media!Fails
  <1>4. v4[u].media \in Items \cup {None} /\ v11 \subseteq Items
    BY <1>1 DEF MediaTypes, AnyJob
  <1>5. i \in AnyItem /\ i.status = "failed" /\ i.media = v4[u].media /\ IsWhole(i)
    BY <1>4 DEF AnyItem, Statuses, IsWhole
  <1>6. /\ o \in AnyOp /\ o.op = "put" /\ o.status = "failed" /\ o.media = v4[u].media
        /\ OpIsWhole(o) /\ IsWhole(o)
    BY <1>5, PutIs
  <1>7. j \in AnyJob /\ j.at = "off" /\ j.media = None
    BY MediaValues
  <1>8. UploadGoesOn(u, i, j, o)
    BY <1>2, <1>3 DEF Media!Fails, Media!KeepsFailed, Media!Shows, Media!Queues, UploadGoesOn
  <1> HIDE DEF i, j, o
  <1>9. MediaTypes'
    <2>1. /\ v3' \in [Uploads -> AnyItem] /\ v4' \in [Uploads -> AnyJob]
          /\ v6' \in [Uploads -> Seq(AnyOp)] /\ v8' \in AnyRecovery
      BY <1>1, <1>5, <1>6, <1>7, <1>8, GoingOn DEF UploadGoesOn
    <2> QED
      BY <1>1, <1>3, <2>1 DEF MediaTypes
  <1>10. ItemsAreWhole'
    BY <1>1, <1>5, <1>6, <1>7, <1>8, GoingOnIsWhole DEF UploadGoesOn
  <1>11. JobsHold'
    <2>1. /\ \A w \in Uploads : w # u => (w \in v5' <=> w \in v5)
          /\ \A x \in Items : v10[x] = "none" \/ v10'[x] = v10[x]
          /\ v11' \subseteq Items /\ \A x \in v11' : x \in v11 \/ Waiting(v3[u], x)
      BY <1>3, <1>4
    <2> QED
      BY <1>1, <1>5, <1>6, <1>7, <1>8, <2>1, GoingOnJobs DEF UploadGoesOn
  <1>12. ChosenHolds'
    BY <1>1, <1>5, <1>6, <1>7, <1>8, <1>3, <1>2, GoingOnChosen DEF UploadGoesOn
  <1>13. GoneHolds'
    <2>1. v12'.gone \subseteq Uploads
      BY <1>1, <1>3 DEF MediaTypes, AnyUser
    <2> QED
      BY <1>1, <1>5, <1>6, <1>7, <1>8, <1>3, <1>2, <2>1, GoingOnGone DEF UploadGoesOn
  <1>14. BackedHolds'
    BY <1>1, <1>5, <1>6, <1>7, <1>8, <1>3, GoingOnBacked DEF UploadGoesOn
  <1>15. OwnersHold'
    <2>1. /\ \A x \in Items : v10'[x] = "none" => v10[x] = "none"
          /\ \A x \in v11' : x \in v11 \/ Waiting(v3[u], x)
          /\ \A x \in Items : x \in {i.media, j.media, o.media} =>
               Names(u, x) \/ (v10[x] = "none" /\ v10'[x] # "none")
      BY <1>3, <1>5, <1>6, <1>7, MediaValues DEF Names
    <2> QED
      BY <1>1, <1>5, <1>6, <1>7, <1>8, <2>1, GoingOnOwners DEF UploadGoesOn
  <1>16. UsedHolds'
    <2>1. \A x \in Items : Written(u, x) => j.media # x /\ ~Waiting(i, x) /\ ~Waiting(o, x)
      BY <1>5, <1>6, <1>7, MediaValues DEF Waiting, Written
    <2>2. /\ v3[u].status # "ready" /\ i.status # "ready" /\ o.status # "ready" /\ v13 \subseteq v13'
          /\ \A x \in Items : v10[x] = "none" \/ v10'[x] = v10[x]
          /\ \A x \in v11' : x \in v11
          /\ \A k \in 1..2 : \A x \in Items : v1'[k][x] > 0 => v1[k][x] > 0
      BY <1>5, <1>6, <1>3, <1>2
    <2> QED
      BY <1>1, <1>5, <1>6, <1>7, <1>8, <2>1, <2>2, GoingOnUsed DEF UploadGoesOn
  <1>17. PendingHolds'
    BY <1>1, <1>5, <1>6, <1>7, <1>8, <1>3, <1>2, GoingOnPending DEF UploadGoesOn
  <1> QED
    BY <1>9, <1>10, <1>11, <1>12, <1>13, <1>14, <1>15, <1>16, <1>17 DEF MediaInv

\* An upload that completes has its item in the text.
LEMMA MediaAfterCompletes ==
  ASSUME MediaInv, NEW u \in Uploads, Media!Completes(u) PROVE MediaInv'
  <1>1. /\ MediaTypes /\ ItemsAreWhole /\ JobsHold /\ ChosenHolds /\ GoneHolds /\ BackedHolds
        /\ OwnersHold /\ UsedHolds /\ PendingHolds
    BY DEF MediaInv
  <1>2. /\ v3[u] # Media!NoItem /\ v3[u].status # "ready" /\ u \in v12.chosen /\ u \notin v12.gone
        /\ v8.stage # "off" => u \in v8.ran
        /\ v4[u] \in AnyJob /\ v4[u].media # None
        /\ v4[u].media \notin v11 /\ v10[v4[u].media] = "ready"
    BY UnderWay DEF Media!Completes
  <1>3. PICK m \in Items : m = v4[u].media /\ m # None /\ m \notin v11 /\ v10[m] = "ready"
    BY <1>2 DEF AnyJob
  <1> DEFINE i == [status |-> "ready", media |-> m]
             o == Media!Put(i, FALSE)
             j == Media!NoJob
  <1>4. /\ v2' = v2 /\ v5' = v5 /\ v7' = v7 /\ v8' = v8 /\ v10' = v10 /\ v11' = v11
        /\ v12' = v12 /\ v13' = v13
    BY DEF Media!Completes
  <1>5. m \in Items /\ v11 \subseteq Items
    BY <1>1 DEF MediaTypes
  <1>6. i \in AnyItem /\ i.status = "ready" /\ i.media = m /\ IsWhole(i)
    BY <1>3 DEF AnyItem, Statuses, IsWhole
  <1>7. /\ o \in AnyOp /\ o.op = "put" /\ o.status = "ready" /\ o.media = m
        /\ OpIsWhole(o) /\ IsWhole(o)
    BY <1>6, PutIs
  <1>8. j \in AnyJob /\ j.at = "off" /\ j.media = None
    BY MediaValues
  <1>9. UploadGoesOn(u, i, j, o)
    BY <1>2, <1>3, <1>4 DEF Media!Completes, Media!Shows, Media!Queues, UploadGoesOn
  <1>10. /\ v1' \in [1..2 -> [Media!Refs -> Nat]]
        /\ \A k \in 1..2 : \A r \in Media!Refs : r # m /\ v1'[k][r] > 0 => v1[k][r] > 0
    <2> DEFINE t == Media!Replaced(v1[v2], u, m)
    <2>1. v1[v2] \in [Media!Refs -> Nat] /\ u \in Media!Refs /\ m \in Media!Refs /\ u # m
      BY <1>1, <1>5, MediaValues DEF MediaTypes, Media!Refs
    <2>2. t \in [Media!Refs -> Nat] /\ \A r \in Media!Refs : r # m /\ t[r] > 0 => v1[v2][r] > 0
      <3>1. CASE v1[v2][u] = 0
        BY <2>1, <3>1 DEF Media!Replaced
      <3>2. CASE v1[v2][u] # 0
        <4> DEFINE s == [v1[v2] EXCEPT ![u] = @ - 1]
        <4>1. s \in [Media!Refs -> Nat] /\ \A r \in Media!Refs : s[r] > 0 => v1[v2][r] > 0
          BY <2>1, <3>2
        <4>2. t = [s EXCEPT ![m] = IF @ < MaxRefs THEN @ + 1 ELSE @]
          BY <3>2 DEF Media!Replaced
        <4> HIDE DEF s, t
        <4> QED
          BY <2>1, <4>1, <4>2
      <3> QED
        BY <3>1, <3>2
    <2>3. Media!Writes(t)
      BY <1>3 DEF Media!Completes, Media!text
    <2> HIDE DEF t
    <2>4. /\ v1' \in [1..2 -> [Media!Refs -> Nat]] /\ v1'[v2] = t
          /\ \A k \in 1..2 : k # v2 => v1'[k] = v1[k]
      BY <1>1, <2>2, <2>3, TextIsWritten DEF Media!Writes
    <2> QED
      BY <2>2, <2>4
  <1> HIDE DEF i, j, o
  <1>11. Items \subseteq Media!Refs /\ Uploads \subseteq Media!Refs /\ m \notin Uploads
    BY <1>5, MediaValues DEF Media!Refs
  <1>12. MediaTypes'
    <2>1. /\ v3' \in [Uploads -> AnyItem] /\ v4' \in [Uploads -> AnyJob]
          /\ v6' \in [Uploads -> Seq(AnyOp)] /\ v8' \in AnyRecovery
      BY <1>1, <1>6, <1>7, <1>8, <1>9, GoingOn DEF UploadGoesOn
    <2> QED
      BY <1>1, <1>4, <1>10, <2>1 DEF MediaTypes
  <1>13. ItemsAreWhole'
    BY <1>1, <1>6, <1>7, <1>8, <1>9, GoingOnIsWhole DEF UploadGoesOn
  <1>14. JobsHold'
    <2>1. /\ \A w \in Uploads : w # u => (w \in v5' <=> w \in v5)
          /\ \A x \in Items : v10[x] = "none" \/ v10'[x] = v10[x]
          /\ v11' \subseteq Items /\ \A x \in v11' : x \in v11 \/ Waiting(v3[u], x)
      BY <1>4, <1>5
    <2> QED
      BY <1>1, <1>6, <1>7, <1>8, <1>9, <2>1, GoingOnJobs DEF UploadGoesOn
  <1>15. ChosenHolds'
    BY <1>1, <1>6, <1>7, <1>8, <1>9, <1>4, <1>2, GoingOnChosen DEF UploadGoesOn
  <1>16. GoneHolds'
    <2>1. v12'.gone \subseteq Uploads
      BY <1>1, <1>4 DEF MediaTypes, AnyUser
    <2> QED
      BY <1>1, <1>6, <1>7, <1>8, <1>9, <1>4, <1>2, <2>1, GoingOnGone DEF UploadGoesOn
  <1>17. BackedHolds'
    BY <1>1, <1>6, <1>7, <1>8, <1>9, <1>4, <1>10, <1>11, GoingOnBacked DEF UploadGoesOn
  <1>18. OwnersHold'
    <2>1. /\ \A x \in Items : v10'[x] = "none" => v10[x] = "none"
          /\ \A x \in v11' : x \in v11 \/ Waiting(v3[u], x)
          /\ \A x \in Items : x \in {i.media, j.media, o.media} =>
               Names(u, x) \/ (v10[x] = "none" /\ v10'[x] # "none")
      BY <1>4, <1>6, <1>7, <1>8, <1>3, MediaValues DEF Names
    <2> QED
      BY <1>1, <1>6, <1>7, <1>8, <1>9, <2>1, GoingOnOwners DEF UploadGoesOn
  <1>19. UsedHolds'
    <2>1. ASSUME NEW x \in Items \ v13', Uses(x)', x # m
          PROVE  v10'[x] = "ready" /\ x \notin v11' /\ \A w \in Uploads : Written(w, x)'
      <3>1. /\ x \in Items /\ x \notin v13 /\ ~Ready(i, x) /\ ~Ready(o, x)
            /\ v10[x] = "none" \/ v10'[x] = v10[x]
            /\ x \in v11' => x \in v11 \/ Waiting(v3[u], x)
            /\ v3[u].status # "ready" \/ o.op = "delete"
            /\ v10[x] = "ready" /\ Written(u, x) => j.media # x /\ ~Waiting(i, x) /\ ~Waiting(o, x)
            /\ \A k \in 1..2 : v1'[k][x] > 0 => v1[k][x] > 0
        BY <2>1, <1>4, <1>2, <1>6, <1>7, <1>8, <1>10, <1>11, MediaValues DEF Ready, Waiting
      <3>2. Uses(x)' => v10'[x] = "ready" /\ x \notin v11' /\ \A w \in Uploads : Written(w, x)'
        BY <1>1, <1>6, <1>7, <1>8, <1>9, <3>1, GoingOnUsesIt DEF UploadGoesOn
      <3> QED
        BY <2>1, <3>2
    <2>2. Names(u, m)
      BY <1>3 DEF Names
    <2>3. v10'[m] = "ready" /\ m \notin v11'
      BY <1>4, <1>3
    <2>4. ASSUME NEW w \in Uploads, w # u PROVE Written(w, m)'
      <3>1. ~Names(w, m)
        BY <1>1, <1>5, <2>2, <2>4 DEF OwnersHold
      <3>2. Written(w, m)
        BY <3>1 DEF Names, Written, Waiting
      <3> QED
        BY <1>1, <1>6, <1>7, <1>8, <1>9, <1>5, <2>4, <3>2, OthersWrite DEF UploadGoesOn
    <2>5. Written(u, m)'
      <3> DEFINE n == Len(v6[u]) + 1
      <3>1. v3'[u] = i /\ v4'[u] = j /\ v6'[u] = Append(v6[u], o) /\ v6[u] \in Seq(AnyOp)
        BY <1>1, <1>6, <1>7, <1>8, <1>9, GoingOn DEF UploadGoesOn
      <3>2. /\ n \in DOMAIN v6'[u] /\ v6'[u][n] = o /\ n \in Nat
            /\ \A l \in DOMAIN v6[u] : l < n
            /\ \A l \in DOMAIN v6'[u] : l \in DOMAIN v6[u] \/ l = n
        BY <1>7, <3>1, ChainGrows
      <3> HIDE DEF n
      <3>3. Ready(v6'[u][n], m) /\ ~Waiting(v6'[u][n], m)
        BY <1>7, <3>2 DEF Ready, Waiting
      <3>4. Waiting(v8'.read[u], m) => u \in v8'.ran
        <4>1. CASE v8.stage = "off"
          <5>1. v8.read[u].media = None
            BY <1>1, <4>1, MediaValues DEF ItemsAreWhole
          <5> QED
            BY <1>4, <1>3, <5>1 DEF Waiting
        <4>2. CASE v8.stage # "off"
          BY <1>4, <1>2, <4>2
        <4> QED
          BY <4>1, <4>2
      <3>5. v4'[u].media # m /\ ~Waiting(v3'[u], m) /\ v3'[u].media = m
        BY <1>6, <1>8, <1>5, <3>1, MediaValues DEF Waiting
      <3>6. \A k \in DOMAIN v6'[u] : Waiting(v6'[u][k], m) =>
              \E l \in DOMAIN v6'[u] : k < l /\ Ready(v6'[u][l], m)
        BY <3>2, <3>3
      <3> QED
        BY <3>2, <3>3, <3>4, <3>5, <3>6 DEF Written
    <2>6. ASSUME NEW x \in Items \ v13', Uses(x)'
          PROVE  v10'[x] = "ready" /\ x \notin v11' /\ \A w \in Uploads : Written(w, x)'
      <3>1. CASE x = m
        BY <2>3, <2>4, <2>5, <3>1
      <3>2. CASE x # m
        BY <2>1, <2>6, <3>2
      <3> QED
        BY <3>1, <3>2
    <2> QED
      BY <2>6 DEF UsedHolds
  <1>20. PendingHolds'
    BY <1>1, <1>6, <1>7, <1>8, <1>9, <1>4, <1>2, GoingOnPending DEF UploadGoesOn
  <1> QED
    BY <1>12, <1>13, <1>14, <1>15, <1>16, <1>17, <1>18, <1>19, <1>20 DEF MediaInv

\* An attachment is taken away.
LEMMA MediaAfterTakes ==
  ASSUME MediaInv, NEW u \in Uploads, Media!Takes(u), v3[u].status # "none",
         v5' = v5 \cup {u} \/ (v5' = v5 /\ v4[u].at = "off"),
         v11' \subseteq Items, \A m \in v11' : m \in v11 \/ Waiting(v3[u], m),
         v2' = v2, v4' = v4, v7' = v7, v8' = v8, v10' = v10
  PROVE  MediaInv'
  <1> DEFINE i == Media!NoItem
             o == Media!Delete
             j == v4[u]
  <1>1. /\ MediaTypes /\ ItemsAreWhole /\ JobsHold /\ ChosenHolds /\ GoneHolds /\ BackedHolds
        /\ OwnersHold /\ UsedHolds /\ PendingHolds
    BY DEF MediaInv
  <1>2. i \in AnyItem /\ i.status = "none" /\ i.media = None /\ IsWhole(i)
    BY MediaValues DEF IsWhole
  <1>3. /\ o \in AnyOp /\ o.op = "delete" /\ o.status = "none" /\ o.media = None
        /\ OpIsWhole(o) /\ IsWhole(o)
    BY MediaValues DEF IsWhole, OpIsWhole
  <1>4. j \in AnyJob /\ v4 \in [Uploads -> AnyJob]
    BY <1>1 DEF MediaTypes
  <1>5. UploadGoesOn(u, i, j, o)
    <2>1. v4' = [v4 EXCEPT ![u] = v4[u]]
      BY <1>4
    <2> QED
      BY <2>1 DEF Media!Takes, Media!Queues, UploadGoesOn
  <1>6. /\ v12' \in AnyUser
        /\ v12'.gone = v12.gone \cup {u} /\ v12'.chosen = v12.chosen /\ u \in v12.chosen
        /\ v13' = v13 \cup {u}
    <2>1. u \in v12.chosen
      BY <1>1, MediaValues DEF ChosenHolds
    <2>2. /\ v12 \in AnyUser
          /\ v12' = [v12 EXCEPT !.moves = @ + 1, !.gone = @ \cup {u}] /\ v13' = v13 \cup {u}
      BY <1>1 DEF Media!Takes, MediaTypes
    <2>3. v12' = [moves |-> v12.moves + 1, chosen |-> v12.chosen, gone |-> v12.gone \cup {u}]
      BY <2>2 DEF AnyUser
    <2>4. v12' \in AnyUser /\ v12'.gone = v12.gone \cup {u} /\ v12'.chosen = v12.chosen
      BY <2>2, <2>3 DEF AnyUser
    <2> QED
      BY <2>1, <2>2, <2>4
  <1>7. /\ v1' \in [1..2 -> [Media!Refs -> Nat]]
        /\ \A k \in 1..2 : \A r \in Media!Refs : v1'[k][r] > 0 => v1[k][r] > 0
    <2> DEFINE t == Media!Removed(v1[v2], v3[u], u)
    <2>1. v1[v2] \in [Media!Refs -> Nat]
      BY <1>1 DEF MediaTypes
    <2>2. t \in [Media!Refs -> Nat] /\ \A r \in Media!Refs : t[r] > 0 => v1[v2][r] > 0
      BY <2>1 DEF Media!Removed
    <2>3. Media!Writes(t)
      BY DEF Media!Takes, Media!text
    <2> HIDE DEF t
    <2>4. /\ v1' \in [1..2 -> [Media!Refs -> Nat]] /\ v1'[v2] = t
          /\ \A k \in 1..2 : k # v2 => v1'[k] = v1[k]
      BY <1>1, <2>2, <2>3, TextIsWritten DEF Media!Writes
    <2> QED
      BY <2>2, <2>4
  <1>8. Items \subseteq Media!Refs /\ Uploads \subseteq Media!Refs
    BY DEF Media!Refs
  <1>9. MediaTypes'
    <2>1. /\ v3' \in [Uploads -> AnyItem] /\ v6' \in [Uploads -> Seq(AnyOp)]
      BY <1>1, <1>2, <1>3, <1>4, <1>5, GoingOn DEF UploadGoesOn
    <2> QED
      BY <1>1, <1>6, <1>7, <2>1 DEF MediaTypes
  <1>10. \A w \in Uploads : w # u => (w \in v5' <=> w \in v5)
    OBVIOUS
  <1> HIDE DEF i, o
  <1>11. ItemsAreWhole'
    BY <1>1, <1>2, <1>3, <1>4, <1>5, GoingOnIsWhole DEF UploadGoesOn
  <1>12. JobsHold'
    <2>1. \A x \in Items : v10[x] = "none" \/ v10'[x] = v10[x]
      OBVIOUS
    <2>2. /\ j.at \in {"off", "ticket"} <=> j.media = None
          /\ ~(j.at # "off" /\ u \notin v5') /\ i.status \notin {"ready", "failed"}
          /\ j.at # "off" /\ v8.stage # "off" => u \in v8'.ran
      BY <1>1, <1>2 DEF JobsHold
    <2> QED
      BY <1>1, <1>2, <1>3, <1>4, <1>5, <1>10, <2>1, <2>2, GoingOnJobs DEF UploadGoesOn
  <1>13. ChosenHolds'
    BY <1>1, <1>2, <1>3, <1>4, <1>5, <1>6, GoingOnChosen DEF UploadGoesOn
  <1>14. GoneHolds'
    <2>1. /\ v12'.gone \subseteq Uploads /\ v12.chosen \subseteq v12'.chosen /\ u \in v12'.chosen
          /\ \A w \in v12'.gone : w \in v12.gone \/ w = u
          /\ i = Media!NoItem /\ o.op = "delete" /\ (j.at = "off" \/ u \in v5')
      BY <1>3, <1>6 DEF i, AnyUser
    <2> QED
      BY <1>1, <1>2, <1>3, <1>4, <1>5, <1>10, <2>1, GoingOnGone DEF UploadGoesOn
  <1>15. BackedHolds'
    <2>1. v13 \subseteq v13' /\ u \in v13'
      BY <1>6
    <2>2. \A k \in 1..2 : \A w \in Uploads : w # u /\ v1'[k][w] > 0 => v1[k][w] > 0
      BY <1>7, <1>8
    <2> QED
      BY <1>1, <1>2, <1>3, <1>4, <1>5, <2>1, <2>2, GoingOnBacked DEF UploadGoesOn
  <1>16. OwnersHold'
    <2>1. /\ \A x \in Items : v10'[x] = "none" => v10[x] = "none"
          /\ \A x \in Items : x \in {i.media, j.media, o.media} =>
               Names(u, x) \/ (v10[x] = "none" /\ v10'[x] # "none")
      BY <1>2, <1>3, MediaValues DEF Names
    <2> QED
      BY <1>1, <1>2, <1>3, <1>4, <1>5, <2>1, GoingOnOwners DEF UploadGoesOn
  <1>17. UsedHolds'
    <2>1. \A x \in Items : Written(u, x) => j.media # x /\ ~Waiting(i, x) /\ ~Waiting(o, x)
      BY <1>2, <1>3, MediaValues DEF Waiting, Written
    <2>2. /\ o.op = "delete" /\ i.status # "ready" /\ o.status # "ready" /\ v13 \subseteq v13'
          /\ \A x \in Items : v10[x] = "none" \/ v10'[x] = v10[x]
          /\ \A k \in 1..2 : \A x \in Items : v1'[k][x] > 0 => v1[k][x] > 0
      BY <1>2, <1>3, <1>6, <1>7, <1>8
    <2> QED
      BY <1>1, <1>2, <1>3, <1>4, <1>5, <2>1, <2>2, GoingOnUsed DEF UploadGoesOn
  <1>18. PendingHolds'
    <2>1. v13 \subseteq v13' /\ o.op = "delete"
      BY <1>3, <1>6
    <2> QED
      BY <1>1, <1>2, <1>3, <1>4, <1>5, <2>1, GoingOnPending DEF UploadGoesOn
  <1> QED
    BY <1>9, <1>11, <1>12, <1>13, <1>14, <1>15, <1>16, <1>17, <1>18 DEF MediaInv

LEMMA MediaAfterCancelsUpload ==
  ASSUME MediaInv, Media!CancelsUpload PROVE MediaInv'
  <1>1. PICK u \in Uploads :
          /\ v3[u].status \in Media!Busy /\ Media!Takes(u) /\ Media!Asks(v3[u].media)
          /\ v5' = v5 \cup {u}
    BY DEF Media!CancelsUpload
  <1>2. v3[u] \in AnyItem /\ v11 \subseteq Items
    BY DEF MediaInv, MediaTypes
  <1>3. v11' \subseteq Items /\ \A m \in v11' : m \in v11 \/ Waiting(v3[u], m)
    BY <1>1, <1>2 DEF Media!Asks, Media!Busy, Waiting, AnyItem
  <1>4. v2' = v2 /\ v4' = v4 /\ v7' = v7 /\ v8' = v8 /\ v10' = v10 /\ v3[u].status # "none"
    BY <1>1 DEF Media!CancelsUpload, Media!Busy
  <1> QED
    BY <1>1, <1>3, <1>4, MediaAfterTakes DEF Media!Takes

LEMMA MediaAfterRemovesUpload ==
  ASSUME MediaInv, Media!RemovesUpload PROVE MediaInv'
  <1>1. PICK u \in Uploads :
          /\ v3[u].status \in {"ready", "failed"} /\ Media!Takes(u)
          /\ Media!Asks(Media!Dropped(v3[u]))
    BY DEF Media!RemovesUpload
  <1>2. v3[u] \in AnyItem /\ v11 \subseteq Items /\ v4[u].at = "off"
    BY <1>1 DEF MediaInv, MediaTypes, JobsHold
  <1>3. v11' \subseteq Items /\ \A m \in v11' : m \in v11 \/ Waiting(v3[u], m)
    BY <1>1, <1>2 DEF Media!Asks, Media!Dropped, Waiting, AnyItem
  <1>4. /\ v2' = v2 /\ v4' = v4 /\ v5' = v5 /\ v7' = v7 /\ v8' = v8 /\ v10' = v10
        /\ v3[u].status # "none"
    BY <1>1 DEF Media!RemovesUpload
  <1> QED
    BY <1>1, <1>2, <1>3, <1>4, MediaAfterTakes DEF Media!Takes

LEMMA MediaAfterChooses ==
  ASSUME MediaInv, Media!Chooses PROVE MediaInv'
  <1>1. PICK u \in Uploads \ v12.chosen :
          Media!Begins(u) /\ v12' = [v12 EXCEPT !.moves = @ + 1, !.chosen = @ \cup {u}]
    BY DEF Media!Chooses
  <1>2. /\ v12 \in AnyUser
        /\ v3[u].status = "none" /\ u \notin v12.gone
    BY <1>1, MediaValues DEF MediaInv, MediaTypes, ChosenHolds, GoneHolds
  <1>3. /\ v12' \in AnyUser
        /\ v12'.gone = v12.gone /\ v12.chosen \subseteq v12'.chosen /\ u \in v12'.chosen
    <2>1. v12' = [moves |-> v12.moves + 1, chosen |-> v12.chosen \cup {u}, gone |-> v12.gone]
      BY <1>1, <1>2 DEF AnyUser
    <2> QED
      BY <1>2, <2>1 DEF AnyUser
  <1>4. v2' = v2 /\ v7' = v7 /\ v10' = v10 /\ v11' = v11 /\ v13' = v13 /\ u \in Uploads
    BY DEF Media!Chooses
  <1> QED
    BY <1>1, <1>2, <1>3, <1>4, MediaAfterBegins DEF Media!Begins

LEMMA MediaAfterRetries ==
  ASSUME MediaInv, Media!Retries PROVE MediaInv'
  <1>1. PICK u \in Uploads : v3[u].status = "failed" /\ Media!Begins(u)
    BY DEF Media!Retries
  <1>2. /\ v12 \in AnyUser
        /\ u \in v12.chosen /\ u \notin v12.gone
    BY <1>1, MediaValues DEF MediaInv, MediaTypes, ChosenHolds, GoneHolds
  <1>3. /\ v12' \in AnyUser
        /\ v12'.gone = v12.gone /\ v12'.chosen = v12.chosen
    BY <1>2 DEF Media!Retries, Media!Moves, AnyUser
  <1>4. v2' = v2 /\ v7' = v7 /\ v10' = v10 /\ v11' = v11 /\ v13' = v13
    BY DEF Media!Retries
  <1> QED
    BY <1>1, <1>2, <1>3, <1>4, MediaAfterBegins DEF Media!Begins

\* A step that shows, writes and reads nothing: at most an upload under way
\* ends or has its item, texts lose references, and items that were asked to be
\* deleted are.
LEMMA QuietStep ==
  ASSUME MediaInv, MediaTypes', v3' = v3, v5' = v5, v6' = v6, v7' = v7, v8' = v8, v13' = v13,
         v12'.chosen = v12.chosen, v12'.gone = v12.gone, v11' \subseteq v11,
         \A u \in Uploads : \/ v4'[u] = v4[u] \/ v4'[u] = Media!NoJob
                            \/ /\ v4[u].at = "transfer" /\ v4'[u].at = "answered"
                               /\ v4'[u].media = v4[u].media /\ v10'[v4[u].media] = "ready",
         \A m \in Items : \/ v10'[m] = v10[m] \/ (v10[m] = "uploading" /\ v10'[m] = "ready")
                          \/ (m \in v11 /\ v10[m] # "none" /\ v10'[m] = "deleted"),
         \A k \in 1..2 : \A r \in Media!Refs : v1'[k][r] > 0 => v1[k][r] > 0
  PROVE  MediaInv'
  <1>1. /\ MediaTypes /\ ItemsAreWhole /\ JobsHold /\ ChosenHolds /\ GoneHolds /\ BackedHolds
        /\ OwnersHold /\ UsedHolds /\ PendingHolds
    BY DEF MediaInv
  <1>2. /\ ItemsAreWhole' /\ PendingHolds'
    BY <1>1 DEF ItemsAreWhole, PendingHolds
  <1>3. \A u \in Uploads : v4[u].at = "off" => v4'[u].at = "off"
    BY MediaValues
  <1>4. ChosenHolds'
    BY <1>1, <1>3 DEF ChosenHolds
  <1>5. GoneHolds'
    <2>1. v12.gone \subseteq Uploads
      BY <1>1 DEF MediaTypes, AnyUser
    <2> QED
      BY <1>1, <1>3, <2>1 DEF GoneHolds
  <1>6. BackedHolds'
    <2>1. Uploads \subseteq Media!Refs
      BY DEF Media!Refs
    <2> QED
      BY <1>1, <2>1 DEF BackedHolds, Media!Deleting
  <1>7. \A u \in Uploads : v4'[u].media = v4[u].media \/ v4'[u].media = None
    BY MediaValues
  <1>8. \A u \in Uploads, m \in Items : Names(u, m)' => Names(u, m)
    BY <1>7, MediaValues DEF Names
  <1>9. OwnersHold'
    BY <1>1, <1>8 DEF OwnersHold
  <1>10. JobsHold'
    <2>1. ASSUME NEW u \in Uploads
          PROVE  /\ v4'[u].at \in {"off", "ticket"} <=> v4'[u].media = None
                 /\ v4'[u].at # "off" /\ u \notin v5 =>
                      /\ v3[u].status \in Media!Busy
                      /\ v4'[u].media \notin v11'
                      /\ v4'[u].at = "answered" => v10'[v4'[u].media] = "ready"
                 /\ v4'[u].at # "off" /\ v8.stage # "off" => u \in v8.ran
                 /\ v3[u].status \in {"ready", "failed"} => v4'[u].at = "off"
      <3>1. /\ v4[u].at \in {"off", "ticket"} <=> v4[u].media = None
            /\ v4[u].at # "off" /\ u \notin v5 =>
                 /\ v3[u].status \in Media!Busy
                 /\ v4[u].media \notin v11
                 /\ v4[u].at = "answered" => v10[v4[u].media] = "ready"
            /\ v4[u].at # "off" /\ v8.stage # "off" => u \in v8.ran
            /\ v3[u].status \in {"ready", "failed"} => v4[u].at = "off"
        BY <1>1 DEF JobsHold
      <3>2. CASE v4'[u] = Media!NoJob
        BY <3>1, <3>2, MediaValues
      <3>3. CASE v4'[u] = v4[u]
        <4>1. v4[u].media \in Items \cup {None}
          BY <1>1 DEF MediaTypes, AnyJob
        <4>2. ASSUME v4[u].at = "answered", u \notin v5 PROVE v10'[v4[u].media] = "ready"
          BY <3>1, <4>1, <4>2
        <4> QED
          BY <3>1, <3>3, <4>2
      <3>4. CASE /\ v4[u].at = "transfer" /\ v4'[u].at = "answered"
                 /\ v4'[u].media = v4[u].media /\ v10'[v4[u].media] = "ready"
        BY <3>1, <3>4
      <3> QED
        BY <3>2, <3>3, <3>4
    <2> QED
      BY <2>1 DEF JobsHold
  <1>11. UsedHolds'
    <2>1. ASSUME NEW m \in Items \ v13, Uses(m)'
          PROVE  v10'[m] = "ready" /\ m \notin v11' /\ \A u \in Uploads : Written(u, m)'
      <3>1. m \in Media!Refs
        BY DEF Media!Refs
      <3>2. Uses(m)
        BY <2>1, <3>1 DEF Uses
      <3>3. v10[m] = "ready" /\ m \notin v11 /\ \A u \in Uploads : Written(u, m)
        BY <1>1, <3>2 DEF UsedHolds
      <3>4. ASSUME NEW u \in Uploads PROVE Written(u, m)'
        BY <1>7, <3>3, MediaValues DEF Written, Media!Deleting
      <3> QED
        BY <3>3, <3>4
    <2> QED
      BY <2>1 DEF UsedHolds
  <1> QED
    BY <1>1, <1>2, <1>4, <1>5, <1>6, <1>9, <1>10, <1>11 DEF MediaInv

LEMMA MediaAfterTransfers ==
  ASSUME MediaInv, NEW u \in Uploads, Media!Transfers(u) PROVE MediaInv'
  <1> DEFINE m == v4[u].media
  <1>1. /\ v4 \in [Uploads -> AnyJob] /\ v10 \in [Items -> {"none", "uploading", "ready", "deleted"}]
        /\ v4[u].at \in {"off", "ticket"} <=> v4[u].media = None
    BY DEF MediaInv, MediaTypes, JobsHold
  <1>2. v4[u].at = "transfer" /\ m \in Items /\ v10[m] = "uploading"
    BY <1>1 DEF Media!Transfers, AnyJob
  <1>3. /\ v10' \in [Items -> {"none", "uploading", "ready", "deleted"}] /\ v10'[m] = "ready"
        /\ \A x \in Items : x # m => v10'[x] = v10[x]
    BY <1>1, <1>2 DEF Media!Transfers
  <1>4. /\ v4' \in [Uploads -> AnyJob] /\ v4'[u].at = "answered" /\ v4'[u].media = m
        /\ \A w \in Uploads : w # u => v4'[w] = v4[w]
    <2> DEFINE j == [v4[u] EXCEPT !.at = "answered"]
    <2>1. j \in AnyJob /\ j.at = "answered" /\ j.media = m
      BY <1>1, <1>2 DEF AnyJob
    <2>2. v4' = [v4 EXCEPT ![u] = j]
      BY DEF Media!Transfers
    <2> HIDE DEF j
    <2> QED
      BY <1>1, <2>1, <2>2
  <1>5. /\ v1' = v1 /\ v2' = v2 /\ v3' = v3 /\ v5' = v5 /\ v6' = v6 /\ v7' = v7 /\ v8' = v8
        /\ v11' = v11 /\ v12' = v12 /\ v13' = v13
    BY DEF Media!Transfers
  <1> HIDE DEF m
  <1>6. MediaTypes'
    BY <1>3, <1>4, <1>5 DEF MediaInv, MediaTypes
  <1>7. \A w \in Uploads : \/ v4'[w] = v4[w] \/ v4'[w] = Media!NoJob
                           \/ /\ v4[w].at = "transfer" /\ v4'[w].at = "answered"
                              /\ v4'[w].media = v4[w].media /\ v10'[v4[w].media] = "ready"
    BY <1>2, <1>3, <1>4 DEF m
  <1> QED
    BY <1>2, <1>3, <1>5, <1>6, <1>7, QuietStep

LEMMA MediaAfterStops ==
  ASSUME MediaInv, NEW u \in Uploads, Media!Stops(u) PROVE MediaInv'
  <1>1. /\ v1' = v1 /\ v2' = v2 /\ v3' = v3 /\ v5' = v5 /\ v6' = v6 /\ v7' = v7 /\ v8' = v8
        /\ v10' = v10 /\ v11' = v11 /\ v12' = v12 /\ v13' = v13
        /\ v4' = [v4 EXCEPT ![u] = Media!NoJob]
    BY DEF Media!Stops
  <1>2. MediaTypes' /\ \A w \in Uploads : v4'[w] = v4[w] \/ v4'[w] = Media!NoJob
    BY <1>1, MediaValues DEF MediaInv, MediaTypes
  <1> QED
    BY <1>1, <1>2, QuietStep

LEMMA MediaAfterDeleteArrives ==
  ASSUME MediaInv, Media!DeleteArrives PROVE MediaInv'
  <1>1. PICK m \in v11 :
          /\ v10' = [v10 EXCEPT ![m] = IF @ \in {"uploading", "ready"} THEN "deleted" ELSE @]
          /\ v11' = v11 \ {m}
    BY DEF Media!DeleteArrives
  <1>2. /\ v1' = v1 /\ v2' = v2 /\ v3' = v3 /\ v4' = v4 /\ v5' = v5 /\ v6' = v6 /\ v7' = v7
        /\ v8' = v8 /\ v12' = v12 /\ v13' = v13
    BY DEF Media!DeleteArrives
  <1>3. m \in Items /\ v10 \in [Items -> {"none", "uploading", "ready", "deleted"}]
    BY DEF MediaInv, MediaTypes
  <1>4. /\ v10' \in [Items -> {"none", "uploading", "ready", "deleted"}]
        /\ \A x \in Items : v10'[x] = v10[x] \/ (x \in v11 /\ v10[x] # "none" /\ v10'[x] = "deleted")
    BY <1>1, <1>3
  <1>5. MediaTypes'
    BY <1>1, <1>2, <1>4 DEF MediaInv, MediaTypes
  <1> QED
    BY <1>1, <1>2, <1>4, <1>5, QuietStep

\* The user moves.
LEMMA UserMoves ==
  ASSUME v12 \in AnyUser, Media!Moves
  PROVE  v12' \in AnyUser /\ v12'.chosen = v12.chosen /\ v12'.gone = v12.gone
  <1>1. v12' = [moves |-> v12.moves + 1, chosen |-> v12.chosen, gone |-> v12.gone]
    BY DEF Media!Moves, AnyUser
  <1> QED
    BY <1>1 DEF AnyUser

LEMMA MediaAfterMounts ==
  ASSUME MediaInv, Media!Mounts PROVE MediaInv'
  <1>1. /\ v1' = v1 /\ v2' = v2 /\ v3' = v3 /\ v4' = v4 /\ v5' = v5 /\ v6' = v6 /\ v7' = v7
        /\ v8' = v8 /\ v10' = v10 /\ v11' = v11 /\ v13' = v13
    BY DEF Media!Mounts
  <1>2. v12' \in AnyUser /\ v12'.chosen = v12.chosen /\ v12'.gone = v12.gone
    BY UserMoves DEF Media!Mounts, MediaInv, MediaTypes
  <1>3. MediaTypes'
    BY <1>1, <1>2 DEF MediaInv, MediaTypes
  <1> QED
    BY <1>1, <1>2, <1>3, QuietStep

LEMMA MediaAfterCapabilityArrives ==
  ASSUME MediaInv, Media!CapabilityArrives PROVE MediaInv'
  <1>1. /\ v1' = v1 /\ v2' = v2 /\ v3' = v3 /\ v4' = v4 /\ v5' = v5 /\ v6' = v6 /\ v7' = v7
        /\ v8' = v8 /\ v10' = v10 /\ v11' = v11 /\ v12' = v12 /\ v13' = v13
    BY DEF Media!CapabilityArrives
  <1>2. MediaTypes'
    BY <1>1 DEF MediaInv, MediaTypes
  <1> QED
    BY <1>1, <1>2, QuietStep

LEMMA MediaAfterLoadsDraft ==
  ASSUME MediaInv, Media!LoadsDraft PROVE MediaInv'
  <1>1. /\ v1' = v1 /\ v2' = 3 - v2 /\ v3' = v3 /\ v4' = v4 /\ v5' = v5 /\ v6' = v6 /\ v7' = v7
        /\ v8' = v8 /\ v10' = v10 /\ v11' = v11 /\ v13' = v13
    BY DEF Media!LoadsDraft
  <1>2. v12' \in AnyUser /\ v12'.chosen = v12.chosen /\ v12'.gone = v12.gone
    BY UserMoves DEF Media!LoadsDraft, MediaInv, MediaTypes
  <1>3. MediaTypes'
    <2>1. v2' \in 1..2
      BY <1>1 DEF MediaInv, MediaTypes
    <2> QED
      BY <1>1, <1>2, <2>1 DEF MediaInv, MediaTypes
  <1> QED
    BY <1>1, <1>2, <1>3, QuietStep

LEMMA MediaAfterSaves ==
  ASSUME MediaInv, Media!Saves PROVE MediaInv'
  <1>1. /\ v2' = v2 /\ v3' = v3 /\ v4' = v4 /\ v5' = v5 /\ v6' = v6 /\ v7' = v7
        /\ v8' = v8 /\ v10' = v10 /\ v11' = v11 /\ v13' = v13
    BY DEF Media!Saves
  <1>2. v12' \in AnyUser /\ v12'.chosen = v12.chosen /\ v12'.gone = v12.gone
    BY UserMoves DEF Media!Saves, MediaInv, MediaTypes
  <1>3. /\ v1' \in [1..2 -> [Media!Refs -> Nat]]
        /\ \A k \in 1..2 : \A r \in Media!Refs : v1'[k][r] > 0 => v1[k][r] > 0
    BY TextIsWritten DEF Media!Saves, Media!Writes, MediaInv, MediaTypes
  <1>4. MediaTypes'
    BY <1>1, <1>2, <1>3 DEF MediaInv, MediaTypes
  <1> QED
    BY <1>1, <1>2, <1>3, <1>4, QuietStep

LEMMA MediaAfterEdits ==
  ASSUME MediaInv, Media!Edits PROVE MediaInv'
  <1>1. /\ v2' = v2 /\ v3' = v3 /\ v4' = v4 /\ v5' = v5 /\ v6' = v6 /\ v7' = v7
        /\ v8' = v8 /\ v10' = v10 /\ v11' = v11 /\ v13' = v13
    BY DEF Media!Edits
  <1>2. v12' \in AnyUser /\ v12'.chosen = v12.chosen /\ v12'.gone = v12.gone
    BY UserMoves DEF Media!Edits, MediaInv, MediaTypes
  <1>3. /\ v1' \in [1..2 -> [Media!Refs -> Nat]]
        /\ \A k \in 1..2 : \A r \in Media!Refs : v1'[k][r] > 0 => v1[k][r] > 0
    <2>1. PICK r \in Media!Refs, n \in 0..MaxRefs :
            v1[v2][r] > 0 /\ Media!Writes([v1[v2] EXCEPT ![r] = n])
      BY DEF Media!Edits, Media!text
    <2> DEFINE t == [v1[v2] EXCEPT ![r] = n]
    <2>2. v1[v2] \in [Media!Refs -> Nat] /\ n \in Nat
      BY DEF MediaInv, MediaTypes
    <2>3. t \in [Media!Refs -> Nat] /\ \A x \in Media!Refs : t[x] > 0 => v1[v2][x] > 0
      BY <2>1, <2>2
    <2>4. Media!Writes(t)
      BY <2>1
    <2> HIDE DEF t
    <2>5. /\ v1' \in [1..2 -> [Media!Refs -> Nat]] /\ v1'[v2] = t
          /\ \A k \in 1..2 : k # v2 => v1'[k] = v1[k]
      BY <2>3, <2>4, TextIsWritten DEF Media!Writes, MediaInv
    <2> QED
      BY <2>3, <2>5
  <1>4. MediaTypes'
    BY <1>1, <1>2, <1>3 DEF MediaInv, MediaTypes
  <1> QED
    BY <1>1, <1>2, <1>3, <1>4, QuietStep

\* A write to the store is done, or lost.
QueueHas(u, o) ==
  \/ \E f \in {o.file, FALSE} :
       /\ o.op = "put" /\ v13' = v13 /\ v12' = v12
       /\ v7' = [v7 EXCEPT ![u] = [status |-> o.status, media |-> o.media, file |-> f]]
  \/ o.op = "delete" /\ v13' = v13 /\ v12' = v12 /\ v7' = [v7 EXCEPT ![u] = Media!NoRecord]
  \/ /\ v7' = v7 /\ v13' = v13 \cup {u, o.media}
     /\ v12' = [v12 EXCEPT !.moves = @ + 1, !.gone = @ \ {u}]

LEMMA QueueIs ==
  ASSUME MediaTypes, ItemsAreWhole, NEW u \in Uploads, NEW o \in AnyOp, QueueHas(u, o), IsWhole(o)
  PROVE  /\ v7' \in [Uploads -> AnyRecord] /\ \A w \in Uploads : w # u => v7'[w] = v7[w]
         /\ v12' \in AnyUser /\ v12'.chosen = v12.chosen /\ v12'.gone \subseteq v12.gone
         /\ v13 \subseteq v13' /\ IsWhole(v7'[u])
         /\ \/ o.op = "put" /\ v7'[u].status = o.status /\ v7'[u].media = o.media
            \/ o.op = "delete" /\ v7'[u] = Media!NoRecord
            \/ v7' = v7 /\ u \in v13' /\ o.media \in v13' /\ u \notin v12'.gone
  <1>1. v7 \in [Uploads -> AnyRecord] /\ v12 \in AnyUser /\ IsWhole(v7[u])
    BY DEF MediaTypes, ItemsAreWhole
  <1>2. ASSUME NEW f \in {o.file, FALSE}, o.op = "put", v13' = v13, v12' = v12,
               v7' = [v7 EXCEPT ![u] = [status |-> o.status, media |-> o.media, file |-> f]]
        PROVE  /\ v7' \in [Uploads -> AnyRecord] /\ \A w \in Uploads : w # u => v7'[w] = v7[w]
               /\ v7'[u].status = o.status /\ v7'[u].media = o.media
    <2> DEFINE r == [status |-> o.status, media |-> o.media, file |-> f]
    <2>1. f \in BOOLEAN /\ o.status \in Statuses /\ o.media \in Items \cup {None}
      BY DEF AnyOp
    <2>2. r \in AnyRecord /\ r.status = o.status /\ r.media = o.media
      BY <2>1 DEF AnyRecord
    <2>3. v7' = [v7 EXCEPT ![u] = r]
      BY <1>2
    <2> HIDE DEF r
    <2> QED
      BY <1>1, <2>2, <2>3
  <1>3. CASE \E f \in {o.file, FALSE} :
               /\ o.op = "put" /\ v13' = v13 /\ v12' = v12
               /\ v7' = [v7 EXCEPT ![u] = [status |-> o.status, media |-> o.media, file |-> f]]
    BY <1>1, <1>2, <1>3 DEF IsWhole
  <1>4. CASE o.op = "delete" /\ v13' = v13 /\ v12' = v12 /\ v7' = [v7 EXCEPT ![u] = Media!NoRecord]
    BY <1>1, <1>4, MediaValues DEF IsWhole
  <1>5. CASE /\ v7' = v7 /\ v13' = v13 \cup {u, o.media}
             /\ v12' = [v12 EXCEPT !.moves = @ + 1, !.gone = @ \ {u}]
    <2>1. v12' = [moves |-> v12.moves + 1, chosen |-> v12.chosen, gone |-> v12.gone \ {u}]
      BY <1>1, <1>5 DEF AnyUser
    <2>2. v12' \in AnyUser /\ v12'.chosen = v12.chosen /\ v12'.gone = v12.gone \ {u}
      BY <1>1, <2>1 DEF AnyUser
    <2> QED
      BY <1>1, <1>5, <2>2
  <1> QED
    BY <1>3, <1>4, <1>5 DEF QueueHas

LEMMA MediaAfterQueueWrites ==
  ASSUME MediaInv, NEW u \in Uploads, Media!QueueWrites(u) PROVE MediaInv'
  <1>1. /\ MediaTypes /\ ItemsAreWhole /\ JobsHold /\ ChosenHolds /\ GoneHolds /\ BackedHolds
        /\ OwnersHold /\ UsedHolds /\ PendingHolds
    BY DEF MediaInv
  <1>2. v6 \in [Uploads -> Seq(AnyOp)] /\ v6[u] \in Seq(AnyOp) /\ v6[u] # <<>> /\ v8 \in AnyRecovery
    BY <1>1 DEF Media!QueueWrites, MediaTypes
  <1>3. /\ Tail(v6[u]) \in Seq(AnyOp) /\ Len(v6[u]) \in Nat \ {0}
        /\ Len(Tail(v6[u])) = Len(v6[u]) - 1
        /\ DOMAIN v6[u] = 1..Len(v6[u]) /\ DOMAIN Tail(v6[u]) = 1..(Len(v6[u]) - 1)
        /\ Head(v6[u]) = v6[u][1] /\ v6[u][1] \in AnyOp
        /\ \A k \in DOMAIN Tail(v6[u]) : k + 1 \in DOMAIN v6[u] /\ Tail(v6[u])[k] = v6[u][k + 1]
        /\ \A k \in DOMAIN v6[u] :
             k = 1 \/ (k - 1 \in DOMAIN Tail(v6[u]) /\ Tail(v6[u])[k - 1] = v6[u][k])
    BY <1>2, ChainShrinks
  <1> DEFINE n == Len(v6[u])
  <1>4. PICK o \in AnyOp : o = v6[u][1]
    BY <1>3
  <1>5. /\ v6' \in [Uploads -> Seq(AnyOp)] /\ \A w \in Uploads : w # u => v6'[w] = v6[w]
        /\ n \in Nat \ {0} /\ DOMAIN v6[u] = 1..n /\ DOMAIN v6'[u] = 1..(n - 1) /\ Len(v6'[u]) = n - 1
        /\ \A k \in DOMAIN v6'[u] : k + 1 \in DOMAIN v6[u] /\ v6'[u][k] = v6[u][k + 1]
        /\ \A k \in DOMAIN v6[u] : k = 1 \/ (k - 1 \in DOMAIN v6'[u] /\ v6'[u][k - 1] = v6[u][k])
        /\ v6'[u] = <<>> <=> n = 1
    <2>1. v6' = [v6 EXCEPT ![u] = Tail(v6[u])]
      BY DEF Media!QueueWrites
    <2>2. v6'[u] = Tail(v6[u]) /\ v6' \in [Uploads -> Seq(AnyOp)]
      BY <1>2, <1>3, <2>1
    <2>3. v6'[u] = <<>> <=> Len(v6'[u]) = 0
      BY <1>3, <2>2, EmptyChain
    <2> QED
      BY <1>2, <1>3, <2>1, <2>2, <2>3
  <1> HIDE DEF n
  <1>6. OpIsWhole(o) /\ IsWhole(o) /\ 1 \in DOMAIN v6[u]
    BY <1>1, <1>4, <1>5 DEF ItemsAreWhole
  <1>7. QueueHas(u, o)
    BY <1>3, <1>4 DEF Media!QueueWrites, QueueHas
  <1>8. /\ v7' \in [Uploads -> AnyRecord] /\ \A w \in Uploads : w # u => v7'[w] = v7[w]
        /\ v12' \in AnyUser /\ v12'.chosen = v12.chosen /\ v12'.gone \subseteq v12.gone
        /\ v13 \subseteq v13' /\ IsWhole(v7'[u])
        /\ \/ o.op = "put" /\ v7'[u].status = o.status /\ v7'[u].media = o.media
           \/ o.op = "delete" /\ v7'[u] = Media!NoRecord
           \/ v7' = v7 /\ u \in v13' /\ o.media \in v13' /\ u \notin v12'.gone
    BY <1>1, <1>6, <1>7, QueueIs DEF QueueHas
  <1>9. /\ v8' \in AnyRecovery /\ v8'.stage = v8.stage /\ v8'.ran = v8.ran /\ v8'.read = v8.read
        /\ v8'.need \in [Uploads -> Nat] /\ \A w \in Uploads : w # u => v8'.need[w] = v8.need[w]
        /\ \A k \in Nat \ {0} : k > v8'.need[u] => k + 1 > v8.need[u]
    <2> DEFINE d == [v8.need EXCEPT ![u] = IF @ > 0 THEN @ - 1 ELSE 0]
    <2>1. v8.need \in [Uploads -> Nat]
      BY <1>2 DEF AnyRecovery
    <2>2. /\ d \in [Uploads -> Nat] /\ (\A w \in Uploads : w # u => d[w] = v8.need[w])
          /\ \A k \in Nat \ {0} : k > d[u] => k + 1 > v8.need[u]
      BY <2>1
    <2>3. v8' = [v8 EXCEPT !.need = d]
      BY DEF Media!QueueWrites, Media!Waits
    <2> HIDE DEF d
    <2>4. /\ v8' \in AnyRecovery /\ v8'.stage = v8.stage /\ v8'.ran = v8.ran /\ v8'.read = v8.read
          /\ v8'.need = d
      BY <1>2, <2>2, <2>3 DEF AnyRecovery
    <2> QED
      BY <2>2, <2>4
  <1>10. /\ v1' = v1 /\ v2' = v2 /\ v3' = v3 /\ v4' = v4 /\ v5' = v5 /\ v10' = v10 /\ v11' = v11
        /\ \A w \in Uploads : v8.read[w] = Media!NoRecord
    BY <1>1 DEF Media!QueueWrites, ItemsAreWhole
  <1>11. MediaTypes'
    BY <1>1, <1>5, <1>8, <1>9, <1>10 DEF MediaTypes
  <1>12. ItemsAreWhole'
    <2>1. ASSUME NEW w \in Uploads
          PROVE  /\ IsWhole(v3[w]) /\ IsWhole(v7'[w]) /\ IsWhole(v8.read[w])
                 /\ \A k \in DOMAIN v6'[w] : OpIsWhole(v6'[w][k]) /\ IsWhole(v6'[w][k])
      <3>1. /\ IsWhole(v3[w]) /\ IsWhole(v7[w]) /\ IsWhole(v8.read[w])
            /\ \A k \in DOMAIN v6[w] : OpIsWhole(v6[w][k]) /\ IsWhole(v6[w][k])
        BY <1>1 DEF ItemsAreWhole
      <3>2. CASE w # u
        BY <1>5, <1>8, <3>1, <3>2
      <3>3. CASE w = u
        BY <1>5, <1>8, <3>1, <3>3
      <3> QED
        BY <3>2, <3>3
    <2> QED
      BY <1>9, <1>10, <2>1 DEF ItemsAreWhole
  <1>13. JobsHold'
    BY <1>1, <1>9, <1>10 DEF JobsHold
  <1>14. ChosenHolds'
    BY <1>1, <1>2, <1>5, <1>8, <1>9, <1>10 DEF ChosenHolds
  <1>15. GoneHolds'
    <2>1. ASSUME NEW w \in v12'.gone
          PROVE  /\ v3[w] = Media!NoItem /\ w \in v12.chosen /\ (v4[w].at = "off" \/ w \in v5)
                 /\ v6'[w] = <<>> => v7'[w] = Media!NoRecord /\ v8.read[w].status = "none"
                 /\ v6'[w] # <<>> => v6'[w][Len(v6'[w])].op = "delete"
      <3>0. w \in Uploads /\ w \in v12.gone
        BY <1>8 DEF AnyUser
      <3>1. /\ v3[w] = Media!NoItem /\ w \in v12.chosen /\ (v4[w].at = "off" \/ w \in v5)
            /\ v6[w] = <<>> => v7[w] = Media!NoRecord
            /\ v6[w] # <<>> => v6[w][Len(v6[w])].op = "delete"
        BY <1>1, <3>0 DEF GoneHolds
      <3>2. v8.read[w].status = "none"
        BY <1>10, <3>0, MediaValues
      <3>3. CASE w # u
        BY <1>5, <1>8, <3>0, <3>1, <3>2, <3>3
      <3>4. CASE w = u
        <4>1. v6[u][n].op = "delete"
          BY <1>2, <3>1, <3>4 DEF n
        <4>2. CASE n = 1
          BY <1>4, <1>5, <1>8, <2>1, <3>1, <3>2, <3>4, <4>1, <4>2
        <4>3. CASE n # 1
          <5>1. n \in DOMAIN v6[u] /\ v6'[u][n - 1] = v6[u][n]
            BY <1>5, <4>3
          <5> QED
            BY <1>5, <3>1, <3>4, <4>1, <4>3, <5>1
        <4> QED
          BY <4>2, <4>3
      <3> QED
        BY <3>3, <3>4
    <2> QED
      BY <1>8, <1>9, <1>10, <2>1 DEF GoneHolds
  <1>16. BackedHolds'
    <2>1. ASSUME NEW w \in Uploads \ v13'
          PROVE  /\ \A k \in DOMAIN v6'[w] : v6'[w][k].op # "delete"
                 /\ (\E k \in 1..2 : v1[k][w] > 0) \/ v3[w] # Media!NoItem =>
                      v7'[w] # Media!NoRecord \/ v6'[w] # <<>>
      <3>1. /\ \A k \in DOMAIN v6[w] : v6[w][k].op # "delete"
            /\ (\E k \in 1..2 : v1[k][w] > 0) \/ v3[w] # Media!NoItem =>
                 v7[w] # Media!NoRecord \/ v6[w] # <<>>
        BY <1>1, <1>8 DEF BackedHolds, Media!Deleting
      <3>2. CASE w # u
        BY <1>5, <1>8, <3>1, <3>2
      <3>3. CASE w = u
        <4>1. o.op # "delete"
          BY <1>4, <1>6, <3>1, <3>3
        <4>2. v7'[u].status # "none"
          BY <1>6, <1>8, <2>1, <3>3, <4>1, MediaValues DEF OpIsWhole
        <4> QED
          BY <1>5, <3>1, <3>3, <4>2, MediaValues
      <3> QED
        BY <3>2, <3>3
    <2> QED
      BY <1>10, <2>1 DEF BackedHolds, Media!Deleting
  <1>17. OwnersHold'
    <2>1. ASSUME NEW w \in Uploads, NEW m \in Items, Names(w, m)' PROVE Names(w, m)
      <3>1. CASE w # u
        BY <1>5, <1>8, <1>9, <1>10, <2>1, <3>1 DEF Names
      <3>2. CASE w = u
        <4>1. v7'[u].media = m => v7[u].media = m \/ o.media = m
          BY <1>8, MediaValues
        <4> QED
          BY <1>4, <1>5, <1>6, <1>9, <1>10, <2>1, <3>2, <4>1 DEF Names
      <3> QED
        BY <3>1, <3>2
    <2> QED
      BY <1>1, <1>10, <2>1 DEF OwnersHold
  <1>18. UsedHolds'
    <2>1. ASSUME NEW m \in Items \ v13', Uses(m)'
          PROVE  v10[m] = "ready" /\ m \notin v11 /\ \A w \in Uploads : Written(w, m)'
      <3>1. Uses(m)
        <4>1. ASSUME NEW w \in Uploads, w # u,
                     \/ Ready(v3[w], m) \/ Ready(v7'[w], m) \/ Ready(v8.read[w], m)
                     \/ \E k \in DOMAIN v6'[w] : Ready(v6'[w][k], m)
              PROVE  Uses(m)
          BY <1>5, <1>8, <4>1 DEF Uses
        <4>2. ASSUME \/ Ready(v3[u], m) \/ Ready(v7'[u], m) \/ Ready(v8.read[u], m)
                     \/ \E k \in DOMAIN v6'[u] : Ready(v6'[u][k], m)
              PROVE  Uses(m)
          <5>1. Ready(v7'[u], m) => Ready(v7[u], m) \/ Ready(v6[u][1], m)
            BY <1>4, <1>8, MediaValues DEF Ready
          <5> QED
            BY <1>5, <1>6, <4>2, <5>1 DEF Uses
        <4> QED
          BY <1>9, <1>10, <2>1, <4>1, <4>2 DEF Uses
      <3>2. v10[m] = "ready" /\ m \notin v11 /\ (\A w \in Uploads : Written(w, m)) /\ m # None
        BY <1>1, <1>8, <3>1, MediaValues DEF UsedHolds
      <3>3. ASSUME NEW w \in Uploads, w # u PROVE Written(w, m)'
        <4>1. ~Waiting(v8.read[w], m)
          BY <1>10, <3>2, MediaValues DEF Waiting
        <4> QED
          BY <1>5, <1>8, <1>9, <1>10, <3>2, <3>3, <4>1 DEF Written
      <3>4. Written(u, m)'
        <4>1. ~Waiting(v8.read[u], m)
          BY <1>10, <3>2, MediaValues DEF Waiting
        <4>2. v4[u].media # m /\ ~Waiting(v3[u], m)
          BY <3>2 DEF Written
        <4>3. \A k \in DOMAIN v6'[u] : Waiting(v6'[u][k], m) =>
                \E l \in DOMAIN v6'[u] : k < l /\ Ready(v6'[u][l], m)
          <5> SUFFICES ASSUME NEW k \in DOMAIN v6'[u], Waiting(v6'[u][k], m)
                       PROVE  \E l \in DOMAIN v6'[u] : k < l /\ Ready(v6'[u][l], m)
            OBVIOUS
          <5>1. k + 1 \in DOMAIN v6[u] /\ Waiting(v6[u][k + 1], m)
            BY <1>5
          <5>2. PICK l \in DOMAIN v6[u] : k + 1 < l /\ Ready(v6[u][l], m)
            BY <3>2, <5>1 DEF Written
          <5>3. l - 1 \in DOMAIN v6'[u] /\ k < l - 1 /\ Ready(v6'[u][l - 1], m)
            BY <1>5, <5>2
          <5> QED
            BY <5>3
        <4>4. ASSUME NEW l \in DOMAIN v6[u], Ready(v6[u][l], m), l # 1
              PROVE  \E k \in DOMAIN v6'[u] : Ready(v6'[u][k], m)
          BY <1>5, <4>4
        <4>5. Waiting(v7'[u], m) => \E l \in DOMAIN v6'[u] : Ready(v6'[u][l], m)
          <5> SUFFICES ASSUME Waiting(v7'[u], m)
                       PROVE  \E l \in DOMAIN v6'[u] : Ready(v6'[u][l], m)
            OBVIOUS
          <5>1. CASE o.op = "put" /\ v7'[u].status = o.status /\ v7'[u].media = o.media
            <6>1. Waiting(v6[u][1], m)
              BY <1>4, <5>1 DEF Waiting
            <6>2. PICK l \in DOMAIN v6[u] : 1 < l /\ Ready(v6[u][l], m)
              BY <1>6, <3>2, <6>1 DEF Written
            <6> QED
              BY <4>4, <6>2
          <5>2. CASE o.op = "delete" /\ v7'[u] = Media!NoRecord
            BY <3>2, <5>2, MediaValues DEF Waiting
          <5>3. CASE v7' = v7 /\ o.media \in v13'
            <6>1. PICK l \in DOMAIN v6[u] : Ready(v6[u][l], m)
              BY <3>2, <5>3 DEF Written
            <6>2. l # 1
              BY <1>4, <2>1, <5>3, <6>1 DEF Ready
            <6> QED
              BY <4>4, <6>1, <6>2
          <5> QED
            BY <1>8, <5>1, <5>2, <5>3
        <4> QED
          BY <1>9, <1>10, <4>1, <4>2, <4>3, <4>5 DEF Written
      <3> QED
        BY <3>2, <3>3, <3>4
    <2> QED
      BY <1>10, <2>1 DEF UsedHolds
  <1>19. PendingHolds'
    <2>1. ASSUME v8.stage = "wait", NEW w \in Uploads, NEW k \in DOMAIN v6'[w],
                 k > v8'.need[w], v6'[w][k].op = "put"
          PROVE  /\ w \in v8.ran
                 /\ \/ v6'[w][k].status # "ready" \/ v6'[w][k].media \in v13'
                    \/ v3[w].media = v6'[w][k].media
                    \/ \E l \in DOMAIN v6'[w] : l > k /\ v6'[w][l].op = "delete"
      <3>1. CASE w # u
        <4>1. v6'[w] = v6[w] /\ v8'.need[w] = v8.need[w] /\ v13 \subseteq v13'
          BY <1>5, <1>8, <1>9, <3>1
        <4>2. /\ w \in v8.ran
              /\ \/ v6[w][k].status # "ready" \/ v6[w][k].media \in v13
                 \/ v3[w].media = v6[w][k].media
                 \/ \E l \in DOMAIN v6[w] : l > k /\ v6[w][l].op = "delete"
          BY <1>1, <2>1, <4>1 DEF PendingHolds
        <4> QED
          BY <4>1, <4>2
      <3>2. CASE w = u
        <4>1. /\ k + 1 \in DOMAIN v6[u] /\ v6'[u][k] = v6[u][k + 1] /\ k + 1 > v8.need[u]
              /\ k \in Nat \ {0}
          BY <1>5, <1>9, <2>1, <3>2
        <4>2. /\ u \in v8.ran
              /\ \/ v6[u][k + 1].status # "ready" \/ v6[u][k + 1].media \in v13
                 \/ v3[u].media = v6[u][k + 1].media
                 \/ \E l \in DOMAIN v6[u] : l > k + 1 /\ v6[u][l].op = "delete"
          BY <1>1, <2>1, <3>2, <4>1 DEF PendingHolds
        <4>3. ASSUME NEW l \in DOMAIN v6[u], l > k + 1, v6[u][l].op = "delete"
              PROVE  l - 1 \in DOMAIN v6'[u] /\ l - 1 > k /\ v6'[u][l - 1].op = "delete"
          BY <1>5, <4>1, <4>3
        <4> QED
          BY <1>8, <3>2, <4>1, <4>2, <4>3
      <3> QED
        BY <3>1, <3>2
    <2> QED
      BY <1>9, <1>10, <2>1 DEF PendingHolds
  <1> QED
    BY <1>11, <1>12, <1>13, <1>14, <1>15, <1>16, <1>17, <1>18, <1>19 DEF MediaInv

\* A recovery starts, reads the store or gives up.
LEMMA RecoveryMoves ==
  ASSUME MediaInv, v8' \in AnyRecovery,
         v1' = v1, v2' = v2, v3' = v3, v4' = v4, v5' = v5, v6' = v6, v7' = v7, v10' = v10, v11' = v11,
         v12' = v12, v13' = v13,
         v8'.stage = "read" =>
           /\ v8'.read = v7
           /\ \/ \A u \in Uploads : v6[u] = <<>>
              \/ v8.stage = "wait" /\ v8'.ran = v8.ran /\ \A u \in Uploads : v8.need[u] = 0,
         v8'.stage # "read" => \A u \in Uploads : v8'.read[u] = Media!NoRecord,
         v8'.stage = "wait" => \A u \in Uploads : v8'.need[u] = Len(v6[u]),
         v8'.stage = "off" \/ \A u \in Uploads : v4[u].at = "off"
  PROVE  MediaInv'
  <1>1. /\ MediaTypes /\ ItemsAreWhole /\ JobsHold /\ ChosenHolds /\ GoneHolds /\ BackedHolds
        /\ OwnersHold /\ UsedHolds /\ PendingHolds
    BY DEF MediaInv
  <1>2. \A u \in Uploads : v8'.read[u] = Media!NoRecord \/ (v8'.stage = "read" /\ v8'.read[u] = v7[u])
    OBVIOUS
  <1>3. MediaTypes' /\ JobsHold' /\ BackedHolds'
    BY <1>1 DEF MediaTypes, JobsHold, BackedHolds, Media!Deleting
  <1>4. ItemsAreWhole'
    BY <1>1, <1>2, MediaValues DEF ItemsAreWhole, IsWhole
  <1>5. ChosenHolds'
    BY <1>1, <1>2, MediaValues DEF ChosenHolds
  <1>6. GoneHolds'
    <2>1. v12.gone \subseteq Uploads
      BY <1>1 DEF MediaTypes, AnyUser
    <2> QED
      BY <1>1, <1>2, <2>1, MediaValues DEF GoneHolds
  <1>7. OwnersHold'
    <2>1. \A u \in Uploads, m \in Items : Names(u, m)' => Names(u, m)
      BY <1>2, MediaValues DEF Names
    <2> QED
      BY <1>1, <2>1 DEF OwnersHold
  <1>8. UsedHolds'
    <2>1. ASSUME NEW m \in Items \ v13, Uses(m)'
          PROVE  v10[m] = "ready" /\ m \notin v11 /\ \A u \in Uploads : Written(u, m)'
      <3>1. Uses(m)
        BY <1>2, <2>1, MediaValues DEF Uses, Ready
      <3>2. v10[m] = "ready" /\ m \notin v11 /\ (\A u \in Uploads : Written(u, m)) /\ m # None
        BY <1>1, <3>1, MediaValues DEF UsedHolds
      <3>3. ASSUME NEW u \in Uploads, Waiting(v8'.read[u], m)
            PROVE  Media!Deleting(u) \/ (u \in v8'.ran /\ v3[u].media = m)
        <4>1. v8'.stage = "read" /\ Waiting(v7[u], m)
          BY <1>2, <3>2, <3>3, MediaValues DEF Waiting
        <4>2. PICK k \in DOMAIN v6[u] : Ready(v6[u][k], m)
          BY <3>2, <4>1 DEF Written
        <4>3. v6[u] # <<>> /\ k \in Nat \ {0} /\ v6[u] \in Seq(AnyOp)
          BY <1>1 DEF MediaTypes
        <4>4. v8.stage = "wait" /\ v8'.ran = v8.ran /\ v8.need[u] = 0
          BY <4>1, <4>3
        <4>5. v6[u][k].op = "put" /\ v6[u][k].status = "ready" /\ v6[u][k].media = m
          BY <1>1, <4>2, MediaValues DEF ItemsAreWhole, OpIsWhole, Ready
        <4>6. /\ u \in v8.ran
              /\ v3[u].media = m \/ \E l \in DOMAIN v6[u] : l > k /\ v6[u][l].op = "delete"
          BY <1>1, <4>3, <4>4, <4>5 DEF PendingHolds
        <4> QED
          BY <4>4, <4>6 DEF Media!Deleting
      <3>4. ASSUME NEW u \in Uploads PROVE Written(u, m)'
        BY <3>2, <3>3 DEF Written, Media!Deleting
      <3> QED
        BY <3>2, <3>4
    <2> QED
      BY <2>1 DEF UsedHolds
  <1>9. PendingHolds'
    <2>1. ASSUME v8'.stage = "wait", NEW u \in Uploads, NEW k \in DOMAIN v6[u]
          PROVE  ~(k > v8'.need[u])
      <3>1. v6[u] \in Seq(AnyOp)
        BY <1>1 DEF MediaTypes
      <3> QED
        BY <2>1, <3>1
    <2> QED
      BY <2>1 DEF PendingHolds
  <1> QED
    BY <1>3, <1>4, <1>5, <1>6, <1>7, <1>8, <1>9 DEF MediaInv

LEMMA MediaAfterRecoveryStarts ==
  ASSUME MediaInv, Media!RecoveryStarts PROVE MediaInv'
  <1> DEFINE a == [Media!NoRecovery EXCEPT !.stage = "read", !.read = v7]
             n == [u \in Uploads |-> Len(v6[u])]
             b == [Media!NoRecovery EXCEPT !.stage = "wait", !.need = n]
  <1>1. v7 \in [Uploads -> AnyRecord] /\ v6 \in [Uploads -> Seq(AnyOp)]
    BY DEF MediaInv, MediaTypes
  <1>2. a \in AnyRecovery /\ a.stage = "read" /\ a.read = v7
    BY <1>1, MediaValues DEF AnyRecovery
  <1>3. n \in [Uploads -> Nat] /\ \A u \in Uploads : n[u] = Len(v6[u])
    BY <1>1
  <1>4. v8' = IF \A u \in Uploads : v6[u] = <<>> THEN a ELSE b
    BY DEF Media!RecoveryStarts
  <1> HIDE DEF n
  <1>5. /\ b \in AnyRecovery /\ b.stage = "wait" /\ b.need = n
        /\ \A u \in Uploads : b.read[u] = Media!NoRecord
    BY <1>3, MediaValues DEF AnyRecovery
  <1>6. /\ v1' = v1 /\ v2' = v2 /\ v3' = v3 /\ v4' = v4 /\ v5' = v5 /\ v6' = v6 /\ v7' = v7
        /\ v10' = v10 /\ v11' = v11 /\ v12' = v12 /\ v13' = v13
        /\ \A u \in Uploads : v4[u].at = "off"
    BY DEF Media!RecoveryStarts, Media!Idle
  <1> HIDE DEF a, b
  <1>7. CASE \A u \in Uploads : v6[u] = <<>>
    <2>1. v8' = a
      BY <1>4, <1>7
    <2> QED
      BY <1>2, <1>6, <1>7, <2>1, RecoveryMoves
  <1>8. CASE ~\A u \in Uploads : v6[u] = <<>>
    <2>1. v8' = b
      BY <1>4, <1>8
    <2> QED
      BY <1>3, <1>5, <1>6, <2>1, RecoveryMoves
  <1> QED
    BY <1>7, <1>8

LEMMA MediaAfterRecoveryReads ==
  ASSUME MediaInv, Media!RecoveryReads PROVE MediaInv'
  <1> DEFINE a == [v8 EXCEPT !.stage = "read", !.read = v7]
  <1>1. v7 \in [Uploads -> AnyRecord] /\ v8 \in AnyRecovery
    BY DEF MediaInv, MediaTypes
  <1>2. a \in AnyRecovery /\ a.stage = "read" /\ a.read = v7 /\ a.ran = v8.ran
    BY <1>1 DEF AnyRecovery
  <1>3. v8' = IF \A u \in Uploads : v4[u].at = "off" THEN a ELSE Media!NoRecovery
    BY DEF Media!RecoveryReads, Media!Idle
  <1> HIDE DEF a
  <1>4. /\ v1' = v1 /\ v2' = v2 /\ v3' = v3 /\ v4' = v4 /\ v5' = v5 /\ v6' = v6 /\ v7' = v7
        /\ v10' = v10 /\ v11' = v11 /\ v12' = v12 /\ v13' = v13
        /\ v8.stage = "wait" /\ \A u \in Uploads : v8.need[u] = 0
    BY DEF Media!RecoveryReads
  <1>5. CASE \A u \in Uploads : v4[u].at = "off"
    <2>1. v8' = a
      BY <1>3, <1>5
    <2> QED
      BY <1>2, <1>4, <1>5, <2>1, RecoveryMoves
  <1>6. CASE ~\A u \in Uploads : v4[u].at = "off"
    <2>1. v8' = Media!NoRecovery
      BY <1>3, <1>6
    <2> QED
      BY <1>4, <2>1, MediaValues, RecoveryMoves
  <1> QED
    BY <1>5, <1>6

LEMMA MediaAfterRecoveryEnds ==
  ASSUME MediaInv, Media!RecoveryEnds PROVE MediaInv'
  <1>1. /\ v1' = v1 /\ v2' = v2 /\ v3' = v3 /\ v4' = v4 /\ v5' = v5 /\ v6' = v6 /\ v7' = v7
        /\ v10' = v10 /\ v11' = v11 /\ v12' = v12 /\ v13' = v13 /\ v8' = Media!NoRecovery
    BY DEF Media!RecoveryEnds
  <1> QED
    BY <1>1, MediaValues, RecoveryMoves

\* The page is left: nothing is shown, under way or being recovered.
LEMMA LeavingStep ==
  ASSUME MediaInv, Media!Leaves, v1' = v1, v2' = v2, v7' = v7, v10' = v10, v11' \subseteq v11,
         v12' \in AnyUser, v12'.chosen = v12.chosen, v12'.gone \subseteq v12.gone, v13 \subseteq v13',
         \/ v6' = v6
         \/ /\ v6' = [u \in Uploads |-> <<>>]
            /\ \A u \in Uploads : u \in v12'.gone \/ u \notin v13' => v6[u] = <<>>
            /\ \A u \in Uploads : \A k \in DOMAIN v6[u] : v6[u][k].media \in v13'
  PROVE  MediaInv'
  <1>1. /\ MediaTypes /\ ItemsAreWhole /\ JobsHold /\ ChosenHolds /\ GoneHolds /\ BackedHolds
        /\ OwnersHold /\ UsedHolds /\ PendingHolds
    BY DEF MediaInv
  <1>2. /\ v3' \in [Uploads -> AnyItem] /\ v4' \in [Uploads -> AnyJob] /\ v8' \in AnyRecovery
        /\ v8'.stage = "off" /\ v5' = {}
        /\ \A u \in Uploads : /\ v3'[u] = Media!NoItem /\ v4'[u] = Media!NoJob
                              /\ v8'.read[u] = Media!NoRecord
    BY MediaValues DEF Media!Leaves
  <1>3. v6 \in [Uploads -> Seq(AnyOp)]
    BY <1>1 DEF MediaTypes
  <1>4. /\ v6' \in [Uploads -> Seq(AnyOp)]
        /\ \A u \in Uploads : v6'[u] = v6[u] \/ v6'[u] = <<>>
    <2>1. CASE v6' = v6
      BY <1>3, <2>1
    <2>2. CASE v6' = [u \in Uploads |-> <<>>]
      BY <2>2
    <2> QED
      BY <2>1, <2>2
  <1>5. MediaTypes'
    BY <1>1, <1>2, <1>4 DEF MediaTypes
  <1>6. ItemsAreWhole'
    <2>1. ASSUME NEW u \in Uploads
          PROVE  \A k \in DOMAIN v6'[u] : OpIsWhole(v6'[u][k]) /\ IsWhole(v6'[u][k])
      BY <1>1, <1>4 DEF ItemsAreWhole
    <2> QED
      BY <1>1, <1>2, <2>1, MediaValues DEF ItemsAreWhole, IsWhole
  <1>7. JobsHold'
    BY <1>2, MediaValues DEF JobsHold
  <1>8. ChosenHolds'
    BY <1>1, <1>2, <1>4, MediaValues DEF ChosenHolds
  <1>9. GoneHolds'
    <2>1. ASSUME NEW u \in v12'.gone
          PROVE  /\ u \in Uploads /\ u \in v12.chosen
                 /\ v6'[u] = <<>> => v7[u] = Media!NoRecord
                 /\ v6'[u] # <<>> => v6'[u][Len(v6'[u])].op = "delete"
      <3>1. u \in Uploads /\ u \in v12.gone
        BY DEF AnyUser
      <3>2. /\ u \in v12.chosen
            /\ v6[u] = <<>> => v7[u] = Media!NoRecord
            /\ v6[u] # <<>> => v6[u][Len(v6[u])].op = "delete"
        BY <1>1, <3>1 DEF GoneHolds
      <3>3. v6'[u] = v6[u] \/ (v6'[u] = <<>> /\ v6[u] = <<>>)
        BY <1>4, <2>1, <3>1
      <3> QED
        BY <3>1, <3>2, <3>3
    <2> QED
      BY <1>2, <2>1, MediaValues DEF GoneHolds
  <1>10. BackedHolds'
    <2>1. ASSUME NEW u \in Uploads \ v13'
          PROVE  /\ \A k \in DOMAIN v6'[u] : v6'[u][k].op # "delete"
                 /\ (\E k \in 1..2 : v1[k][u] > 0) => v7[u] # Media!NoRecord \/ v6'[u] # <<>>
      <3>1. /\ \A k \in DOMAIN v6[u] : v6[u][k].op # "delete"
            /\ (\E k \in 1..2 : v1[k][u] > 0) => v7[u] # Media!NoRecord \/ v6[u] # <<>>
        BY <1>1 DEF BackedHolds, Media!Deleting
      <3>2. v6'[u] = v6[u]
        BY <1>4
      <3> QED
        BY <3>1, <3>2
    <2> QED
      BY <1>2, <2>1 DEF BackedHolds, Media!Deleting
  <1>11. OwnersHold'
    <2>1. \A u \in Uploads, m \in Items : Names(u, m)' => Names(u, m)
      <3> TAKE u \in Uploads, m \in Items
      <3>1. (\E k \in DOMAIN v6'[u] : v6'[u][k].media = m) => \E k \in DOMAIN v6[u] : v6[u][k].media = m
        BY <1>4
      <3> QED
        BY <1>2, <3>1, MediaValues DEF Names
    <2> QED
      BY <1>1, <2>1 DEF OwnersHold
  <1>12. UsedHolds'
    <2>1. ASSUME NEW m \in Items \ v13', Uses(m)'
          PROVE  v10[m] = "ready" /\ m \notin v11 /\ \A u \in Uploads : Written(u, m)'
      <3>1. Uses(m)
        <4>1. \A u \in Uploads : (\E k \in DOMAIN v6'[u] : Ready(v6'[u][k], m)) =>
                                   \E k \in DOMAIN v6[u] : Ready(v6[u][k], m)
          BY <1>4
        <4> QED
          BY <1>2, <2>1, <4>1, MediaValues DEF Uses, Ready
      <3>2. v10[m] = "ready" /\ m \notin v11 /\ (\A u \in Uploads : Written(u, m)) /\ m # None
        BY <1>1, <3>1, MediaValues DEF UsedHolds
      <3>3. ASSUME NEW u \in Uploads PROVE Written(u, m)'
        <4>1. v4'[u].media # m /\ ~Waiting(v3'[u], m) /\ ~Waiting(v8'.read[u], m)
          BY <1>2, <3>2, MediaValues DEF Waiting
        <4>2. CASE v6'[u] = v6[u]
          BY <3>2, <4>1, <4>2 DEF Written
        <4>3. CASE v6'[u] # v6[u]
          <5>1. v6'[u] = <<>> /\ \A k \in DOMAIN v6[u] : v6[u][k].media # m
            BY <1>4, <2>1, <4>3
          <5>2. ~Waiting(v7[u], m)
            BY <3>2, <5>1 DEF Written, Ready
          <5> QED
            BY <4>1, <5>1, <5>2 DEF Written
        <4> QED
          BY <4>2, <4>3
      <3> QED
        BY <3>2, <3>3
    <2> QED
      BY <2>1 DEF UsedHolds
  <1>13. PendingHolds'
    BY <1>2 DEF PendingHolds
  <1> QED
    BY <1>5, <1>6, <1>7, <1>8, <1>9, <1>10, <1>11, <1>12, <1>13 DEF MediaInv

LEMMA MediaAfterUnmounts ==
  ASSUME MediaInv, Media!Unmounts PROVE MediaInv'
  <1>1. /\ v1' = v1 /\ v2' = v2 /\ v6' = v6 /\ v7' = v7 /\ v10' = v10 /\ v11' = v11 /\ v13' = v13
        /\ Media!Leaves
    BY DEF Media!Unmounts
  <1>2. v12' \in AnyUser /\ v12'.chosen = v12.chosen /\ v12'.gone = v12.gone
    BY UserMoves DEF Media!Unmounts, MediaInv, MediaTypes
  <1> QED
    BY <1>1, <1>2, LeavingStep

LEMMA MediaAfterReloads ==
  ASSUME MediaInv, Media!Reloads PROVE MediaInv'
  <1> DEFINE unwritten == {u \in Uploads : v6[u] # <<>>}
             unsaved == UNION {{v6[u][k].media : k \in DOMAIN v6[u]} : u \in Uploads}
  <1>1. /\ v1' = v1 /\ v2' = v2 /\ v7' = v7 /\ v10' = v10 /\ v11' \subseteq v11 /\ Media!Leaves
        /\ v6' = [u \in Uploads |-> <<>>] /\ v13' = v13 \cup unwritten \cup unsaved
        /\ v12' = [v12 EXCEPT !.moves = @ + 1, !.gone = @ \ unwritten] /\ v12 \in AnyUser
    BY DEF Media!Reloads, MediaInv, MediaTypes
  <1>2. \A u \in Uploads : \A k \in DOMAIN v6[u] : v6[u][k].media \in v13'
    BY <1>1
  <1>3. \A u \in Uploads : v6[u] # <<>> => u \in unwritten
    OBVIOUS
  <1> HIDE DEF unwritten, unsaved
  <1>4. v12' = [moves |-> v12.moves + 1, chosen |-> v12.chosen, gone |-> v12.gone \ unwritten]
    BY <1>1 DEF AnyUser
  <1>5. v12' \in AnyUser /\ v12'.chosen = v12.chosen /\ v12'.gone = v12.gone \ unwritten
    BY <1>1, <1>4 DEF AnyUser
  <1>6. \A u \in Uploads : u \in v12'.gone \/ u \notin v13' => v6[u] = <<>>
    BY <1>1, <1>3, <1>5
  <1>7. v13 \subseteq v13' /\ v12'.gone \subseteq v12.gone
    BY <1>1, <1>5
  <1> QED
    BY <1>1, <1>2, <1>5, <1>6, <1>7, LeavingStep

\* A chain of writes with none, one or two more.
LEMMA ChainExtends ==
  ASSUME NEW c \in Seq(AnyOp), NEW a \in AnyOp, NEW b \in AnyOp
  PROVE  /\ (c \o <<>>) \o <<>> = c
         /\ (c \o <<a>>) \o <<>> = Append(c, a)
         /\ (c \o <<a>>) \o <<b>> = Append(Append(c, a), b)
  OBVIOUS

\* What a recovery shows, asks for and writes of the upload u.
RecoveredAs(u) ==
  LET r == v8.read[u]
  IN  \/ /\ ~Media!Found(u) /\ v3'[u] = Media!NoItem /\ v4'[u] = Media!NoJob /\ v6'[u] = v6[u]
      \/ /\ Media!Found(u) /\ ~Media!Goes(r) /\ v3'[u] = Media!Item(r) /\ v4'[u] = Media!NoJob
         /\ v6'[u] = Append(v6[u], Media!Put(Media!Item(r), r.file))
      \/ /\ Media!Found(u) /\ Media!Goes(r) /\ v3'[u] = Media!Queued
         /\ v4'[u] = [Media!NoJob EXCEPT !.at = "ticket"]
         /\ v6'[u] = Append(Append(v6[u], Media!Put(Media!Item(r), r.file)),
                            Media!Put(Media!Queued, TRUE))

\* The item shown of a record.
LEMMA ItemIs ==
  ASSUME NEW r \in AnyRecord
  PROVE  /\ Media!Item(r) \in AnyItem /\ Media!Item(r).media = r.media
         /\ Media!Item(r).status = "ready" <=> r.status = "ready"
         /\ Media!Item(r).status = "none" <=> r.status = "none"
         /\ ~Media!Goes(r) => Media!Item(r).status \notin {"queued", "uploading"}
         /\ Media!Goes(r) => r.status \in {"queued", "uploading"}
         /\ IsWhole(r) => IsWhole(Media!Item(r))
         /\ r.file \in BOOLEAN
  <1>1. r.status \in Statuses /\ r.media \in Items \cup {None} /\ r.file \in BOOLEAN
    BY DEF AnyRecord
  <1>2. Media!Item(r).media = r.media
    BY DEF Media!Item
  <1>3. Media!Item(r).status =
          IF r.status \in {"queued", "uploading"} /\ ~Media!Goes(r) THEN "failed" ELSE r.status
    BY DEF Media!Item, Media!Busy
  <1>4. Media!Goes(r) => r.status \in {"queued", "uploading"}
    BY DEF Media!Goes, Media!Busy
  <1>5. Media!Item(r) \in AnyItem
    BY <1>1 DEF Media!Item, AnyItem, Statuses
  <1> QED
    BY <1>1, <1>2, <1>3, <1>4, <1>5 DEF IsWhole, Statuses

LEMMA RecoveryShowsAs ==
  ASSUME MediaTypes, Media!RecoveryShows, NEW u \in Uploads PROVE RecoveredAs(u)
  <1> DEFINE found == {w \in Uploads : Media!Found(w)}
             going == {w \in found : Media!Goes(v8.read[w])}
             a == Media!Put(Media!Item(v8.read[u]), v8.read[u].file)
             b == Media!Put(Media!Queued, TRUE)
  <1>1. /\ v3'[u] = IF u \in going THEN Media!Queued
                    ELSE IF u \in found THEN Media!Item(v8.read[u]) ELSE Media!NoItem
        /\ v4'[u] = IF u \in going THEN [Media!NoJob EXCEPT !.at = "ticket"] ELSE Media!NoJob
        /\ v6'[u] = (v6[u] \o (IF u \in found THEN <<a>> ELSE <<>>))
                           \o (IF u \in going THEN <<b>> ELSE <<>>)
    BY DEF Media!RecoveryShows
  <1>2. u \in found <=> Media!Found(u)
    OBVIOUS
  <1>3. u \in going <=> Media!Found(u) /\ Media!Goes(v8.read[u])
    OBVIOUS
  <1>4. v6[u] \in Seq(AnyOp) /\ v8.read[u] \in AnyRecord
    BY DEF MediaTypes, AnyRecovery
  <1>5. a \in AnyOp /\ b \in AnyOp
    <2>1. Media!Queued \in AnyItem
      BY DEF Media!Queued, AnyItem, Statuses
    <2> QED
      BY <1>4, <2>1, ItemIs, PutIs
  <1> HIDE DEF found, going
  <1>6. CASE ~Media!Found(u)
    <2>1. v6'[u] = (v6[u] \o <<>>) \o <<>>
      BY <1>1, <1>2, <1>3, <1>6
    <2> QED
      BY <1>1, <1>2, <1>3, <1>4, <1>5, <1>6, <2>1, ChainExtends DEF RecoveredAs
  <1>7. CASE Media!Found(u) /\ ~Media!Goes(v8.read[u])
    <2>1. v6'[u] = (v6[u] \o <<a>>) \o <<>>
      BY <1>1, <1>2, <1>3, <1>7
    <2> QED
      BY <1>1, <1>2, <1>3, <1>4, <1>5, <1>7, <2>1, ChainExtends DEF RecoveredAs
  <1>8. CASE Media!Found(u) /\ Media!Goes(v8.read[u])
    <2>1. v6'[u] = (v6[u] \o <<a>>) \o <<b>>
      BY <1>1, <1>2, <1>3, <1>8
    <2> QED
      BY <1>1, <1>2, <1>3, <1>4, <1>5, <1>8, <2>1, ChainExtends DEF RecoveredAs
  <1> QED
    BY <1>6, <1>7, <1>8

\* The upload's list entry, request and writes after a recovery: what is new in
\* them was in the record that was read, or waits for a new ticket.
LEMMA RecoveredIs ==
  ASSUME MediaTypes, ItemsAreWhole, NEW u \in Uploads, RecoveredAs(u)
  PROVE  LET r == v8.read[u]
         IN  /\ v3'[u] \in AnyItem /\ v4'[u] \in AnyJob /\ v6'[u] \in Seq(AnyOp)
             /\ IsWhole(v3'[u]) /\ v4'[u].media = None
             /\ v4'[u].at = "off" \/ (v4'[u].at = "ticket" /\ v3'[u].status = "queued")
             /\ v3'[u].media \in {None, r.media} /\ Media!Queued.media = None
             /\ v3'[u].media = r.media /\ r.media # None =>
                  Media!Found(u) /\ (v3'[u].status = "ready" <=> r.status = "ready")
             /\ ~Media!Found(u) =>
                  v3'[u] = Media!NoItem /\ v4'[u].at = "off" /\ v6'[u] = v6[u]
             /\ Media!Found(u) => v6'[u] # <<>>
             /\ \A k \in DOMAIN v6[u] : k \in DOMAIN v6'[u] /\ v6'[u][k] = v6[u][k]
             /\ \A k \in DOMAIN v6'[u] : k \in DOMAIN v6[u] \/
                  /\ Media!Found(u) /\ OpIsWhole(v6'[u][k]) /\ IsWhole(v6'[u][k])
                  /\ v6'[u][k].op = "put" /\ v6'[u][k].media \in {None, r.media}
                  /\ v6'[u][k].media = r.media /\ r.media # None =>
                       (v6'[u][k].status = "ready" <=> r.status = "ready")
  <1> DEFINE r == v8.read[u]
             i == Media!Item(r)
             a == Media!Put(i, r.file)
             b == Media!Put(Media!Queued, TRUE)
             n == Len(v6[u]) + 1
  <1>1. v6[u] \in Seq(AnyOp) /\ r \in AnyRecord /\ IsWhole(r)
    BY DEF MediaTypes, AnyRecovery, ItemsAreWhole
  <1>2. /\ i \in AnyItem /\ i.media = r.media /\ IsWhole(i) /\ r.file \in BOOLEAN
        /\ i.status = "ready" <=> r.status = "ready"
        /\ i.status = "none" <=> r.status = "none"
    BY <1>1, ItemIs
  <1>3. /\ a \in AnyOp /\ a.op = "put" /\ a.status = i.status /\ a.media = r.media /\ IsWhole(a)
        /\ i.status # "none" => OpIsWhole(a)
    BY <1>2, PutIs
  <1>4. /\ Media!Queued \in AnyItem /\ Media!Queued.status = "queued" /\ Media!Queued.media = None
        /\ IsWhole(Media!Queued)
    BY DEF Media!Queued, AnyItem, Statuses, IsWhole
  <1>5. b \in AnyOp /\ b.op = "put" /\ b.status = "queued" /\ b.media = None /\ IsWhole(b) /\ OpIsWhole(b)
    BY <1>4, PutIs
  <1>6. /\ [Media!NoJob EXCEPT !.at = "ticket"] \in AnyJob
        /\ [Media!NoJob EXCEPT !.at = "ticket"].at = "ticket"
        /\ [Media!NoJob EXCEPT !.at = "ticket"].media = None
    BY MediaValues DEF AnyJob, Media!NoJob
  <1>7. /\ Append(v6[u], a) \in Seq(AnyOp) /\ Append(v6[u], a) # <<>> /\ Len(Append(v6[u], a)) = n
        /\ Append(v6[u], a)[n] = a /\ n \in DOMAIN Append(v6[u], a)
        /\ \A k \in DOMAIN v6[u] : k \in DOMAIN Append(v6[u], a) /\ Append(v6[u], a)[k] = v6[u][k]
        /\ \A k \in DOMAIN Append(v6[u], a) : k \in DOMAIN v6[u] \/ k = n
    BY <1>1, <1>3, ChainGrows
  <1> DEFINE c == Append(v6[u], a)
             d == Append(c, b)
  <1>8. Media!Found(u) => r.status # "none"
    BY DEF Media!Found
  <1> HIDE DEF i, a, b, n, c
  <1>9. /\ d \in Seq(AnyOp) /\ d # <<>> /\ d[n + 1] = b
        /\ \A k \in DOMAIN c : k \in DOMAIN d /\ d[k] = c[k]
        /\ \A k \in DOMAIN d : k \in DOMAIN c \/ k = n + 1
    BY <1>5, <1>7, ChainGrows DEF c
  <1> HIDE DEF d, r
  <1>10. CASE /\ ~Media!Found(u) /\ v3'[u] = Media!NoItem /\ v4'[u] = Media!NoJob /\ v6'[u] = v6[u]
    BY <1>1, <1>4, <1>10, MediaValues DEF r, IsWhole
  <1>11. CASE /\ Media!Found(u) /\ v3'[u] = i /\ v4'[u] = Media!NoJob /\ v6'[u] = c
    <2>1. \A k \in DOMAIN c : k \in DOMAIN v6[u] \/ c[k] = a
      BY <1>7 DEF c
    <2>2. /\ c \in Seq(AnyOp) /\ c # <<>>
          /\ \A k \in DOMAIN v6[u] : k \in DOMAIN c /\ c[k] = v6[u][k]
      BY <1>7 DEF c
    <2> QED
      BY <1>2, <1>3, <1>4, <1>8, <1>11, <2>1, <2>2, MediaValues DEF r
  <1>12. CASE /\ Media!Found(u) /\ v3'[u] = Media!Queued
              /\ v4'[u] = [Media!NoJob EXCEPT !.at = "ticket"] /\ v6'[u] = d
    <2>1. \A k \in DOMAIN d : k \in DOMAIN v6[u] \/ d[k] = a \/ d[k] = b
      BY <1>7, <1>9 DEF c
    <2>2. \A k \in DOMAIN v6[u] : k \in DOMAIN d /\ d[k] = v6[u][k]
      BY <1>7, <1>9 DEF c
    <2>3. Media!Queued.media = r.media => r.media = None
      BY <1>4
    <2> QED
      BY <1>2, <1>3, <1>4, <1>5, <1>6, <1>8, <1>9, <1>12, <2>1, <2>2, <2>3 DEF r
  <1> QED
    BY <1>10, <1>11, <1>12 DEF RecoveredAs, r, i, a, b, c, d

\* The references of a text after a recovery were there, or are of an upload
\* that goes on, or of the item of a finished one.
LEMMA RepairedIs ==
  ASSUME MediaTypes, NEW t \in [Media!Refs -> Nat], NEW found \in SUBSET Uploads
  PROVE  /\ Media!Repaired(t, found) \in [Media!Refs -> Nat]
         /\ \A r \in Uploads : Media!Repaired(t, found)[r] > 0 => t[r] > 0 \/ r \in found
         /\ \A m \in Items : Media!Repaired(t, found)[m] > 0 =>
              t[m] > 0 \/ \E u \in found : Ready(v8.read[u], m)
  <1> DEFINE done == {u \in found : v8.read[u].status = "ready" /\ t[u] > 0}
             f(r) == IF r \in done THEN t[r] - 1
                     ELSE IF r \in found /\ t[r] = 0 /\ Media!Goes(v8.read[r]) THEN 1
                     ELSE IF t[r] < MaxRefs /\ \E u \in done : v8.read[u].media = r THEN t[r] + 1
                     ELSE t[r]
  <1>1. Uploads \subseteq Media!Refs /\ Items \subseteq Media!Refs /\ Uploads \cap Items = {}
    BY MediaValues DEF Media!Refs
  <1>2. Media!Repaired(t, found) = [r \in Media!Refs |-> f(r)]
    BY DEF Media!Repaired
  <1>3. \A r \in Media!Refs : f(r) \in Nat
    <2> TAKE r \in Media!Refs
    <2>1. t[r] \in Nat /\ (r \in done => t[r] > 0)
      OBVIOUS
    <2> HIDE DEF done
    <2> QED
      BY <2>1
  <1>4. \A u \in done : u \in found /\ v8.read[u].status = "ready"
    OBVIOUS
  <1>5. \A r \in Uploads : f(r) > 0 => t[r] > 0 \/ r \in found
    <2> TAKE r \in Uploads
    <2>1. t[r] \in Nat /\ (\E u \in done : v8.read[u].media = r) => r \in Items \cup {None}
      BY <1>1, <1>4 DEF MediaTypes, AnyRecovery, AnyRecord
    <2>2. r \notin Items \cup {None}
      BY <1>1, MediaValues
    <2>3. t[r] \in Nat
      BY <1>1
    <2> HIDE DEF done
    <2> QED
      BY <1>4, <2>1, <2>2, <2>3
  <1>6. \A m \in Items : f(m) > 0 => t[m] > 0 \/ \E u \in found : Ready(v8.read[u], m)
    <2> TAKE m \in Items
    <2>1. m \notin found /\ m \notin done /\ t[m] \in Nat
      BY <1>1
    <2> HIDE DEF done
    <2> QED
      BY <1>4, <2>1 DEF Ready
  <1> HIDE DEF f
  <1> QED
    BY <1>1, <1>2, <1>3, <1>5, <1>6

LEMMA MediaAfterRecoveryShows ==
  ASSUME MediaInv, Media!RecoveryShows PROVE MediaInv'
  <1>1. /\ MediaTypes /\ ItemsAreWhole /\ JobsHold /\ ChosenHolds /\ GoneHolds /\ BackedHolds
        /\ OwnersHold /\ UsedHolds /\ PendingHolds
    BY DEF MediaInv
  <1>2. ASSUME NEW u \in Uploads
        PROVE  /\ v3'[u] \in AnyItem /\ v4'[u] \in AnyJob /\ v6'[u] \in Seq(AnyOp)
               /\ IsWhole(v3'[u]) /\ v4'[u].media = None
               /\ v4'[u].at = "off" \/ (v4'[u].at = "ticket" /\ v3'[u].status = "queued")
               /\ v3'[u].media \in {None, v8.read[u].media}
               /\ v3'[u].media = v8.read[u].media /\ v8.read[u].media # None =>
                    Media!Found(u) /\ (v3'[u].status = "ready" <=> v8.read[u].status = "ready")
               /\ ~Media!Found(u) =>
                    v3'[u] = Media!NoItem /\ v4'[u].at = "off" /\ v6'[u] = v6[u]
               /\ Media!Found(u) => v6'[u] # <<>>
               /\ \A k \in DOMAIN v6[u] : k \in DOMAIN v6'[u] /\ v6'[u][k] = v6[u][k]
               /\ \A k \in DOMAIN v6'[u] : k \in DOMAIN v6[u] \/
                    /\ Media!Found(u) /\ OpIsWhole(v6'[u][k]) /\ IsWhole(v6'[u][k])
                    /\ v6'[u][k].op = "put" /\ v6'[u][k].media \in {None, v8.read[u].media}
                    /\ v6'[u][k].media = v8.read[u].media /\ v8.read[u].media # None =>
                         (v6'[u][k].status = "ready" <=> v8.read[u].status = "ready")
    <2>1. RecoveredAs(u)
      BY <1>1, RecoveryShowsAs
    <2> QED
      BY <1>1, <2>1, RecoveredIs
  <1>3. PICK found \in SUBSET Uploads :
          found = {u \in Uploads : Media!Found(u)} /\ Media!Writes(Media!Repaired(v1[v2], found))
    BY DEF Media!RecoveryShows, Media!text
  <1>4. /\ v1' \in [1..2 -> [Media!Refs -> Nat]]
        /\ \A k \in 1..2 : \A r \in Uploads : v1'[k][r] > 0 => v1[k][r] > 0 \/ Media!Found(r)
        /\ \A k \in 1..2 : \A m \in Items : v1'[k][m] > 0 =>
             v1[k][m] > 0 \/ \E u \in Uploads : Ready(v8.read[u], m)
    <2> DEFINE t == Media!Repaired(v1[v2], found)
    <2>1. v1[v2] \in [Media!Refs -> Nat]
      BY <1>1 DEF MediaTypes
    <2>2. /\ t \in [Media!Refs -> Nat]
          /\ \A r \in Uploads : t[r] > 0 => v1[v2][r] > 0 \/ r \in found
          /\ \A m \in Items : t[m] > 0 =>
               v1[v2][m] > 0 \/ \E u \in found : Ready(v8.read[u], m)
      BY <1>1, <2>1, RepairedIs
    <2>3. Media!Writes(t)
      BY <1>3
    <2> HIDE DEF t
    <2>4. /\ v1' \in [1..2 -> [Media!Refs -> Nat]] /\ v1'[v2] = t
          /\ \A k \in 1..2 : k # v2 => v1'[k] = v1[k]
      BY <1>1, <2>2, <2>3, TextIsWritten DEF Media!Writes
    <2> QED
      BY <1>3, <2>2, <2>4
  <1>5. /\ v2' = v2 /\ v7' = v7 /\ v8' = Media!NoRecovery /\ v10' = v10 /\ v11' = v11 /\ v12' = v12
        /\ v13' = v13 \cup v8.ran \cup {v3[u].media : u \in v8.ran}
        /\ v5' = v5 \ {u \in {w \in Uploads : Media!Found(w)} : Media!Goes(v8.read[u])}
    BY DEF Media!RecoveryShows
  <1>6. /\ v8' \in AnyRecovery /\ v8'.stage = "off"
        /\ \A u \in Uploads : v8'.read[u] = Media!NoRecord
    BY <1>5, MediaValues
  <1>7. MediaTypes'
    <2>1. /\ v3' \in [Uploads -> AnyItem] /\ v4' \in [Uploads -> AnyJob]
          /\ v6' \in [Uploads -> Seq(AnyOp)]
      <3> DEFINE F(u) == v3'[u]
                 G(u) == v4'[u]
                 H(u) == v6'[u]
      <3>1. /\ v3' = [u \in Uploads |-> F(u)] /\ v4' = [u \in Uploads |-> G(u)]
            /\ v6' = [u \in Uploads |-> H(u)]
        BY DEF Media!RecoveryShows
      <3>2. \A u \in Uploads : F(u) \in AnyItem /\ G(u) \in AnyJob /\ H(u) \in Seq(AnyOp)
        BY <1>2
      <3> HIDE DEF F, G, H
      <3> QED
        BY <3>1, <3>2
    <2> QED
      BY <1>1, <1>4, <1>5, <1>6, <2>1 DEF MediaTypes
  <1>8. ItemsAreWhole'
    <2>1. ASSUME NEW u \in Uploads
          PROVE  /\ IsWhole(v3'[u]) /\ IsWhole(v7[u])
                 /\ \A k \in DOMAIN v6'[u] : OpIsWhole(v6'[u][k]) /\ IsWhole(v6'[u][k])
      BY <1>1, <1>2 DEF ItemsAreWhole
    <2> QED
      BY <1>5, <1>6, <2>1, MediaValues DEF ItemsAreWhole, IsWhole
  <1>9. JobsHold'
    <2>1. v11 \subseteq Items
      BY <1>1 DEF MediaTypes
    <2> QED
      BY <1>2, <1>5, <1>6, <2>1, MediaValues DEF JobsHold, Media!Busy
  <1>10. ChosenHolds'
    <2>1. ASSUME NEW u \in Uploads \ v12.chosen
          PROVE  /\ v3'[u] = Media!NoItem /\ v4'[u].at = "off" /\ v6'[u] = <<>>
                 /\ v7[u].status = "none"
      <3>1. v6[u] = <<>> /\ v7[u].status = "none" /\ v8.read[u].status = "none"
        BY <1>1 DEF ChosenHolds
      <3> QED
        BY <1>2, <3>1 DEF Media!Found
    <2> QED
      BY <1>5, <1>6, <2>1, MediaValues DEF ChosenHolds
  <1>11. GoneHolds'
    <2>1. ASSUME NEW u \in v12.gone
          PROVE  /\ v3'[u] = Media!NoItem /\ v4'[u].at = "off" /\ v6'[u] = v6[u]
                 /\ u \in v12.chosen /\ v8'.read[u].status = "none"
                 /\ v6[u] = <<>> => v7[u] = Media!NoRecord
                 /\ v6[u] # <<>> => v6[u][Len(v6[u])].op = "delete"
      <3>1. u \in Uploads /\ v6[u] \in Seq(AnyOp)
        BY <1>1 DEF MediaTypes, AnyUser
      <3>2. /\ u \in v12.chosen
            /\ v6[u] = <<>> => v7[u] = Media!NoRecord /\ v8.read[u].status = "none"
            /\ v6[u] # <<>> => v6[u][Len(v6[u])].op = "delete"
        BY <1>1, <3>1 DEF GoneHolds
      <3>3. v6[u] # <<>> => Len(v6[u]) \in DOMAIN v6[u]
        BY <3>1, EmptyChain
      <3>4. ~Media!Found(u)
        BY <3>2, <3>3 DEF Media!Found, Media!Deleting
      <3> QED
        BY <1>2, <1>6, <3>1, <3>2, <3>4, MediaValues
    <2> QED
      BY <1>5, <2>1 DEF GoneHolds
  <1>12. BackedHolds'
    <2>1. ASSUME NEW u \in Uploads \ v13'
          PROVE  /\ \A k \in DOMAIN v6'[u] : v6'[u][k].op # "delete"
                 /\ (\E k \in 1..2 : v1'[k][u] > 0) \/ v3'[u] # Media!NoItem =>
                      v7[u] # Media!NoRecord \/ v6'[u] # <<>>
      <3>0. u \notin v13
        BY <1>5
      <3>1. /\ \A k \in DOMAIN v6[u] : v6[u][k].op # "delete"
            /\ (\E k \in 1..2 : v1[k][u] > 0) => v7[u] # Media!NoRecord \/ v6[u] # <<>>
        BY <1>1, <3>0 DEF BackedHolds, Media!Deleting
      <3>2. \A k \in DOMAIN v6'[u] : v6'[u][k].op # "delete"
        BY <1>2, <3>1
      <3>3. CASE Media!Found(u)
        BY <1>2, <3>2, <3>3
      <3>4. CASE ~Media!Found(u)
        BY <1>2, <1>4, <3>1, <3>2, <3>4
      <3> QED
        BY <3>3, <3>4
    <2> QED
      BY <1>5, <2>1 DEF BackedHolds, Media!Deleting
  <1>13. OwnersHold'
    <2>1. ASSUME NEW u \in Uploads, NEW m \in Items, Names(u, m)' PROVE Names(u, m)
      <3>1. m # None
        BY MediaValues
      <3>2. v4'[u].media # m /\ v8'.read[u].media # m
        BY <1>2, <1>6, <3>1, MediaValues
      <3>3. v3'[u].media = m => v8.read[u].media = m
        BY <1>2, <3>1
      <3>4. (\E k \in DOMAIN v6'[u] : v6'[u][k].media = m) =>
              v8.read[u].media = m \/ \E k \in DOMAIN v6[u] : v6[u][k].media = m
        BY <1>2, <3>1
      <3> QED
        BY <1>5, <2>1, <3>2, <3>3, <3>4 DEF Names
    <2> QED
      BY <1>1, <1>5, <2>1 DEF OwnersHold
  <1>14. UsedHolds'
    <2>1. ASSUME NEW m \in Items \ v13', Uses(m)'
          PROVE  v10[m] = "ready" /\ m \notin v11 /\ \A u \in Uploads : Written(u, m)'
      <3>0. m # None /\ m \notin v13 /\ \A u \in v8.ran : v3[u].media # m
        BY <1>5, MediaValues
      <3>1. Uses(m)
        <4>1. ASSUME NEW u \in Uploads, Ready(v3'[u], m) PROVE Ready(v8.read[u], m)
          BY <1>2, <3>0, <4>1 DEF Ready
        <4>2. ASSUME NEW u \in Uploads, NEW k \in DOMAIN v6'[u], Ready(v6'[u][k], m)
              PROVE  Ready(v8.read[u], m) \/ \E l \in DOMAIN v6[u] : Ready(v6[u][l], m)
          <5>1. CASE k \in DOMAIN v6[u]
            BY <1>2, <4>2, <5>1
          <5>2. CASE k \notin DOMAIN v6[u]
            BY <1>2, <3>0, <4>2, <5>2 DEF Ready
          <5> QED
            BY <5>1, <5>2
        <4>3. ASSUME NEW u \in Uploads PROVE ~Ready(v8'.read[u], m)
          BY <1>6, MediaValues DEF Ready
        <4> QED
          BY <1>4, <1>5, <2>1, <4>1, <4>2, <4>3 DEF Uses
      <3>2. v10[m] = "ready" /\ m \notin v11 /\ \A u \in Uploads : Written(u, m)
        BY <1>1, <3>0, <3>1 DEF UsedHolds
      <3>3. ASSUME NEW u \in Uploads PROVE Written(u, m)'
        <4>1. Media!Found(u) => ~Waiting(v8.read[u], m)
          BY <3>0, <3>2 DEF Written, Media!Found
        <4>2. ~Waiting(v3'[u], m)
          BY <1>2, <3>0, <4>1 DEF Waiting
        <4>3. v4'[u].media # m /\ ~Waiting(v8'.read[u], m)
          BY <1>2, <1>6, <3>0, MediaValues DEF Waiting
        <4>4. \A k \in DOMAIN v6'[u] : Waiting(v6'[u][k], m) =>
                \E l \in DOMAIN v6'[u] : k < l /\ Ready(v6'[u][l], m)
          <5> SUFFICES ASSUME NEW k \in DOMAIN v6'[u], Waiting(v6'[u][k], m)
                       PROVE  \E l \in DOMAIN v6'[u] : k < l /\ Ready(v6'[u][l], m)
            OBVIOUS
          <5>1. k \in DOMAIN v6[u]
            BY <1>2, <3>0, <4>1 DEF Waiting
          <5>2. Waiting(v6[u][k], m)
            BY <1>2, <5>1
          <5>3. PICK l \in DOMAIN v6[u] : k < l /\ Ready(v6[u][l], m)
            BY <3>2, <5>1, <5>2 DEF Written
          <5> QED
            BY <1>2, <5>3
        <4>5. Waiting(v7[u], m) => \E l \in DOMAIN v6'[u] : Ready(v6'[u][l], m)
          <5>1. Waiting(v7[u], m) => \E l \in DOMAIN v6[u] : Ready(v6[u][l], m)
            BY <3>2 DEF Written
          <5> QED
            BY <1>2, <5>1
        <4> QED
          BY <1>5, <4>2, <4>3, <4>4, <4>5 DEF Written
      <3> QED
        BY <3>2, <3>3
    <2> QED
      BY <1>5, <2>1 DEF UsedHolds
  <1>15. PendingHolds'
    BY <1>6 DEF PendingHolds
  <1> QED
    BY <1>7, <1>8, <1>9, <1>10, <1>11, <1>12, <1>13, <1>14, <1>15 DEF MediaInv

\* The attachments begin so, and every step of the web client keeps it so.
LEMMA MediaInitial == WebInit => MediaPart
  <1> SUFFICES ASSUME part = "media", Media!Init PROVE MediaInv
    BY DEF WebInit, MediaPart
  <1>1. /\ v1 = [i \in 1..2 |-> [r \in Media!Refs |-> 0]] /\ v2 = 1
        /\ v3 = [u \in Uploads |-> Media!NoItem] /\ v4 = [u \in Uploads |-> Media!NoJob]
        /\ v5 = {} /\ v6 = [u \in Uploads |-> <<>>]
        /\ v7 = [u \in Uploads |-> Media!NoRecord] /\ v8 = Media!NoRecovery
        /\ v10 = [m \in Items |-> "none"] /\ v11 = {}
        /\ v12 = [moves |-> 0, chosen |-> {}, gone |-> {}] /\ v13 = {}
    BY DEF Media!Init
  <1>2. \A u \in Uploads : /\ v3[u] = Media!NoItem /\ v4[u] = Media!NoJob /\ v6[u] = <<>>
                           /\ v7[u] = Media!NoRecord /\ v8.read[u] = Media!NoRecord
    BY <1>1, MediaValues
  <1>3. \A i \in 1..2 : v1[i] \in [Media!Refs -> Nat] /\ \A r \in Media!Refs : v1[i][r] = 0
    BY <1>1
  <1>4. Uploads \subseteq Media!Refs /\ Items \subseteq Media!Refs
    BY DEF Media!Refs
  <1>5. MediaTypes
    BY <1>1, MediaValues DEF MediaTypes, AnyUser
  <1>6. ItemsAreWhole /\ JobsHold /\ ChosenHolds /\ PendingHolds
    BY <1>1, <1>2, MediaValues DEF ItemsAreWhole, IsWhole, JobsHold, ChosenHolds, PendingHolds
  <1>7. GoneHolds /\ BackedHolds
    BY <1>1, <1>2, <1>3, <1>4 DEF GoneHolds, BackedHolds, Media!Deleting
  <1>8. \A m \in Items : ~Uses(m) /\ \A u \in Uploads : ~Names(u, m)
    BY <1>2, <1>3, <1>4, MediaValues DEF Uses, Names, Ready
  <1>9. OwnersHold /\ UsedHolds
    BY <1>1, <1>8 DEF OwnersHold, UsedHolds
  <1> QED
    BY <1>5, <1>6, <1>7, <1>9 DEF MediaInv

LEMMA MediaStep == MediaPart /\ [WebNext]_web => MediaPart'
  <1> SUFFICES ASSUME MediaPart, [WebNext]_web, part' = "media" PROVE MediaInv'
    BY DEF MediaPart
  <1>1. CASE UNCHANGED web
    <2>1. /\ part = "media" /\ v1' = v1 /\ v2' = v2 /\ v3' = v3 /\ v4' = v4 /\ v5' = v5 /\ v6' = v6
          /\ v7' = v7 /\ v8' = v8 /\ v10' = v10 /\ v11' = v11 /\ v12' = v12 /\ v13' = v13
      BY <1>1 DEF web
    <2>2. MediaInv
      BY <2>1 DEF MediaPart
    <2>3. MediaTypes'
      BY <2>1, <2>2 DEF MediaInv, MediaTypes
    <2> QED
      BY <2>1, <2>2, <2>3, QuietStep
  <1>2. CASE WebNext
    <2>1. part = "media" /\ Media!Next
      BY <1>2 DEF WebNext, Rest13, Rest11, Rest10, Rest9, Rest6
    <2>2. MediaInv
      BY <2>1 DEF MediaPart
    <2>3. CASE Media!UploadSteps
      <3>1. PICK u \in Uploads :
              \/ Media!TicketArrives(u) \/ Media!Transfers(u) \/ Media!Completes(u)
              \/ Media!Fails(u) \/ Media!Stops(u) \/ Media!QueueWrites(u)
        BY <2>3 DEF Media!UploadSteps
      <3>2. CASE Media!TicketArrives(u)
        BY <2>2, <3>2, MediaAfterTicketArrives
      <3>3. CASE Media!Transfers(u)
        BY <2>2, <3>3, MediaAfterTransfers
      <3>4. CASE Media!Completes(u)
        BY <2>2, <3>4, MediaAfterCompletes
      <3>5. CASE Media!Fails(u)
        BY <2>2, <3>5, MediaAfterFails
      <3>6. CASE Media!Stops(u)
        BY <2>2, <3>6, MediaAfterStops
      <3>7. CASE Media!QueueWrites(u)
        BY <2>2, <3>7, MediaAfterQueueWrites
      <3> QED
        BY <3>1, <3>2, <3>3, <3>4, <3>5, <3>6, <3>7
    <2> QED
      BY <2>1, <2>2, <2>3, MediaAfterDeleteArrives, MediaAfterChooses, MediaAfterRetries,
         MediaAfterCancelsUpload, MediaAfterRemovesUpload, MediaAfterRecoveryStarts,
         MediaAfterRecoveryReads, MediaAfterRecoveryShows, MediaAfterRecoveryEnds,
         MediaAfterMounts, MediaAfterCapabilityArrives, MediaAfterUnmounts, MediaAfterReloads,
         MediaAfterLoadsDraft, MediaAfterSaves, MediaAfterEdits
         DEF Media!Next
  <1> QED
    BY <1>1, <1>2

\* The invariant is what is promised of the attachments.
LEMMA MediaMeans ==
  MediaInv => Media!PlaceholderIsBacked /\ Media!ReferencesUsable /\ Media!TakenAwayStaysGone
  <1> SUFFICES ASSUME MediaInv
               PROVE  Media!PlaceholderIsBacked /\ Media!ReferencesUsable /\ Media!TakenAwayStaysGone
    OBVIOUS
  <1>1. /\ MediaTypes /\ ItemsAreWhole /\ GoneHolds /\ BackedHolds /\ UsedHolds
        /\ Uploads \subseteq Media!Refs /\ Items \subseteq Media!Refs
    BY DEF MediaInv, Media!Refs
  <1>2. Media!PlaceholderIsBacked
    <2> SUFFICES ASSUME NEW u \in Uploads \ v13, v1[1][u] + v1[2][u] > 0
                 PROVE  v7[u] # Media!NoRecord \/ \E i \in DOMAIN v6[u] : v6[u][i].op = "put"
      BY DEF Media!PlaceholderIsBacked
    <2>1. \E i \in 1..2 : v1[i][u] > 0
      BY <1>1 DEF MediaTypes
    <2>2. (v7[u] # Media!NoRecord \/ v6[u] # <<>>) /\ ~Media!Deleting(u)
      BY <1>1, <2>1 DEF BackedHolds
    <2>3. v6[u] \in Seq(AnyOp) /\ (v6[u] # <<>> => Len(v6[u]) \in DOMAIN v6[u])
      BY <1>1, EmptyChain DEF MediaTypes
    <2>4. \A i \in DOMAIN v6[u] : v6[u][i].op \in {"put", "delete"}
      <3> TAKE i \in DOMAIN v6[u]
      <3>1. v6[u][i] \in AnyOp
        BY <2>3
      <3> QED
        BY <3>1 DEF AnyOp
    <2> QED
      BY <2>2, <2>3, <2>4 DEF Media!Deleting
  <1>3. Media!ReferencesUsable
    BY <1>1 DEF Media!ReferencesUsable, UsedHolds, Uses
  <1>4. Media!TakenAwayStaysGone
    BY <1>1 DEF Media!TakenAwayStaysGone, GoneHolds
  <1> QED
    BY <1>2, <1>3, <1>4

\* However uploads, recoveries, removals, lost writes and reloads interleave: a
\* placeholder in a text has an upload behind it, an item a text refers to stays
\* usable, and what the user took away is not written back.
THEOREM MediaPromise == WebSpec => []PendingMediaIsSafe
<1>1. MediaPart => PendingMediaIsSafe
  BY MediaMeans DEF MediaPart, PendingMediaIsSafe
<1> QED
  BY MediaInitial, MediaStep, <1>1, PTL DEF WebSpec

-----------------------------------------------------------------------------
(* The editor's text (EditorText) *)

\* The texts of the editor.
AnyText == [base : Bases, own : BOOLEAN, keys : SUBSET Nat]

\* What the variables hold.
EditorTypes ==
  LET text == v1  rendered == v2  due == v3  mode == v4  ready == v5  content == v7
      source == v8  dirty == v9  events == v10  rich == v12  late == v13
  IN  /\ text \in AnyText /\ rendered \in AnyText /\ content \in AnyText /\ source \in AnyText
      /\ due \in BOOLEAN /\ ready \in BOOLEAN /\ dirty \in BOOLEAN /\ events \in Nat
      /\ mode \in {"rich", "markdown"} /\ rich \in BOOLEAN /\ late \in BOOLEAN

\* the document and its Markdown are one text, and what the handle reads is the Markdown
EditorHolds ==
  LET mode == v4  ready == v5  content == v7  source == v8  dirty == v9
  IN  /\ content.base = source.base /\ content.keys = source.keys
      /\ mode = "markdown" => ready /\ ~dirty /\ content = source
      /\ dirty => ~source.own

\* without an effect to come, an editor with what was rendered has what the page has
EditorFollows ==
  LET text == v1  rendered == v2  due == v3  ready == v5  source == v8
  IN  ready /\ ~due /\ text = rendered => source = text

\* The page's text has what was typed, unless it was typed too late.
EditorKeeps ==
  LET text == v1  typed == v11  rich == v12  late == v13
  IN  late \/ (text.keys = typed /\ (rich \/ text.own))

\* The inductive invariant of the editor's text.
EditorInv == EditorTypes /\ EditorHolds /\ EditorFollows /\ EditorKeeps

\* A text that goes through the editor keeps what it is made of.
LEMMA TextIsKept ==
  ASSUME NEW t \in AnyText
  PROVE  /\ Editor!Novel(t) \in AnyText /\ Editor!Novel(t).base = t.base
         /\ Editor!Novel(t).keys = t.keys /\ Editor!Novel(t).own = FALSE
         /\ \A k \in Nat : /\ Editor!With(t, k) \in AnyText /\ Editor!With(t, k).base = t.base
                           /\ Editor!With(t, k).keys = t.keys \cup {k}
                           /\ Editor!With(t, k).own = t.own
  BY DEF AnyText, Editor!Novel, Editor!With

LEMMA TextIsPut ==
  ASSUME NEW b \in Bases
  PROVE  Editor!Put(b) \in AnyText /\ Editor!Put(b).own = TRUE /\ Editor!Put(b).keys = {}
  BY DEF AnyText, Editor!Put

\* Each action of EditorText keeps the invariant.
LEMMA EditorAfterTypesRich == EditorInv /\ Editor!TypesRich => EditorInv'
  <1> SUFFICES ASSUME EditorInv, Editor!TypesRich PROVE EditorInv'
    OBVIOUS
  <1> DEFINE c == Editor!With(v7, v10)
             s == Editor!Novel(c)
  <1>1. /\ v4 = "rich" /\ v5 = TRUE /\ v7' = c /\ v8' = s /\ v9' = TRUE /\ v1' = s
        /\ v10' = v10 + 1 /\ v11' = v11 \cup {v10} /\ v12' = TRUE
        /\ v13' = (v13 \/ v3 \/ v8 # v1) /\ UNCHANGED <<v2, v3, v4, v5, v6>>
    BY DEF Editor!TypesRich, Editor!Event, Editor!Note, EditorInv, EditorTypes
  <1>2. /\ c \in AnyText /\ s \in AnyText /\ c.base = s.base /\ c.keys = s.keys
        /\ c.keys = v7.keys \cup {v10} /\ s.own = FALSE
    BY TextIsKept DEF EditorInv, EditorTypes
  <1> HIDE DEF c, s
  <1>3. EditorTypes'
    BY <1>1, <1>2 DEF EditorInv, EditorTypes
  <1>4. EditorHolds'
    BY <1>1, <1>2 DEF EditorHolds
  <1>5. EditorFollows'
    BY <1>1 DEF EditorFollows
  <1>6. EditorKeeps'
    BY <1>1, <1>2 DEF EditorInv, EditorHolds, EditorKeeps
  <1> QED
    BY <1>3, <1>4, <1>5, <1>6 DEF EditorInv

LEMMA EditorAfterTypesSource == EditorInv /\ (Editor!TypesSource \/ Editor!InsertsSource) => EditorInv'
  <1> SUFFICES ASSUME EditorInv, Editor!TypesSource \/ Editor!InsertsSource PROVE EditorInv'
    OBVIOUS
  <1> DEFINE c == Editor!With(v7, v10)
  <1>0. v4 = "markdown"
    BY DEF Editor!TypesSource, Editor!InsertsSource
  <1>9. v7 = v8
    BY <1>0 DEF EditorInv, EditorHolds
  <1>1. /\ v7' = c /\ v8' = c /\ v1' = c /\ (v2' = v2 \/ v2' = c) /\ (v3' = v3 \/ v3' = FALSE)
        /\ v10' = v10 + 1 /\ v11' = v11 \cup {v10} /\ v12' = v12
        /\ v13' = (v13 \/ v3 \/ v8 # v1) /\ UNCHANGED <<v4, v5, v6, v9>>
    BY <1>0, <1>9
       DEF Editor!TypesSource, Editor!InsertsSource, Editor!Event, Editor!Note, EditorInv,
           EditorTypes
  <1>2. c \in AnyText /\ c.keys = v7.keys \cup {v10} /\ c.own = v7.own
    BY TextIsKept DEF EditorInv, EditorTypes
  <1>8. v3' \in BOOLEAN /\ v13' \in BOOLEAN
    BY <1>1 DEF EditorInv, EditorTypes
  <1>7. v9 = FALSE
    BY <1>0 DEF EditorInv, EditorTypes, EditorHolds
  <1> HIDE DEF c
  <1>3. EditorTypes'
    <2>1. v2' \in AnyText /\ v10' \in Nat
      BY <1>1, <1>2 DEF EditorInv, EditorTypes
    <2> QED
      BY <1>1, <1>2, <1>8, <2>1 DEF EditorInv, EditorTypes
  <1>4. EditorHolds'
    BY <1>0, <1>1, <1>7 DEF EditorInv, EditorHolds
  <1>5. EditorFollows'
    BY <1>1 DEF EditorFollows
  <1>6. EditorKeeps'
    BY <1>0, <1>1, <1>2 DEF EditorInv, EditorHolds, EditorKeeps
  <1> QED
    BY <1>3, <1>4, <1>5, <1>6 DEF EditorInv

LEMMA EditorAfterApplies == ASSUME EditorInv, NEW b \in Bases, Editor!Applies(b) PROVE EditorInv'
  <1> DEFINE t == Editor!Put(b)
  <1>1. /\ v1' = t /\ v10' = v10 + 1 /\ v11' = {} /\ v12' = FALSE /\ v13' = FALSE
        /\ \/ v5 /\ v7' = t /\ v8' = t /\ v9' = FALSE
           \/ ~v5 /\ v7' = v7 /\ v8' = v8 /\ v9' = v9
        /\ UNCHANGED <<v2, v3, v4, v5, v6>>
    BY DEF Editor!Applies, Editor!Event
  <1>2. t \in AnyText /\ t.own = TRUE /\ t.keys = {}
    BY TextIsPut
  <1> HIDE DEF t
  <1>3. EditorTypes'
    <2>1. v7' \in AnyText /\ v8' \in AnyText
      BY <1>1, <1>2 DEF EditorInv, EditorTypes
    <2>2. v10' \in Nat
      BY <1>1 DEF EditorInv, EditorTypes
    <2>3. v9' = FALSE \/ v9' = v9
      BY <1>1
    <2>4. v9' \in BOOLEAN
      BY <2>3 DEF EditorInv, EditorTypes
    <2> QED
      BY <1>1, <1>2, <2>1, <2>2, <2>4 DEF EditorInv, EditorTypes
  <1>4. EditorHolds'
    BY <1>1 DEF EditorInv, EditorTypes, EditorHolds
  <1>5. EditorFollows'
    BY <1>1 DEF EditorInv, EditorTypes, EditorFollows
  <1>6. EditorKeeps'
    BY <1>1, <1>2 DEF EditorKeeps
  <1> QED
    BY <1>3, <1>4, <1>5, <1>6 DEF EditorInv

LEMMA EditorAfterRenders == EditorInv /\ Editor!Renders => EditorInv'
  <1> SUFFICES ASSUME EditorInv, Editor!Renders PROVE EditorInv'
    OBVIOUS
  <1> USE DEF EditorInv, Editor!Renders
  <1>1. EditorTypes'
    <2>1. /\ v1' \in AnyText /\ v2' \in AnyText /\ v7' \in AnyText /\ v8' \in AnyText
          /\ v9' \in BOOLEAN /\ v3' \in BOOLEAN /\ v5' \in BOOLEAN
      BY DEF EditorTypes
    <2> QED
      BY <2>1 DEF EditorTypes
  <1>2. EditorHolds'
    BY DEF EditorTypes, EditorHolds
  <1>3. EditorFollows' /\ EditorKeeps'
    BY DEF EditorTypes, EditorHolds, EditorFollows, EditorKeeps
  <1> QED
    BY <1>1, <1>2, <1>3

LEMMA EditorAfterTakesProp == EditorInv /\ Editor!TakesProp => EditorInv'
  <1> SUFFICES ASSUME EditorInv, Editor!TakesProp PROVE EditorInv'
    OBVIOUS
  <1> USE DEF EditorInv, Editor!TakesProp
  <1>1. EditorTypes'
    <2>1. /\ v1' \in AnyText /\ v2' \in AnyText /\ v7' \in AnyText /\ v8' \in AnyText
          /\ v9' \in BOOLEAN /\ v3' \in BOOLEAN /\ v5' \in BOOLEAN
      BY DEF EditorTypes
    <2> QED
      BY <2>1 DEF EditorTypes
  <1>2. EditorHolds'
    BY DEF EditorTypes, EditorHolds
  <1>3. EditorFollows' /\ EditorKeeps'
    BY DEF EditorTypes, EditorHolds, EditorFollows, EditorKeeps
  <1> QED
    BY <1>1, <1>2, <1>3

LEMMA EditorAfterGetsReady == EditorInv /\ Editor!GetsReady => EditorInv'
  <1> SUFFICES ASSUME EditorInv, Editor!GetsReady PROVE EditorInv'
    OBVIOUS
  <1> USE DEF EditorInv, Editor!GetsReady, Editor!Opened
  <1>1. EditorTypes'
    <2>1. /\ v1' \in AnyText /\ v2' \in AnyText /\ v7' \in AnyText /\ v8' \in AnyText
          /\ v9' \in BOOLEAN /\ v3' \in BOOLEAN /\ v5' \in BOOLEAN
      BY DEF EditorTypes
    <2> QED
      BY <2>1 DEF EditorTypes
  <1>2. EditorHolds'
    BY DEF EditorTypes, EditorHolds
  <1>3. EditorFollows' /\ EditorKeeps'
    BY DEF EditorTypes, EditorHolds, EditorFollows, EditorKeeps
  <1> QED
    BY <1>1, <1>2, <1>3

LEMMA EditorAfterSwitches == EditorInv /\ Editor!Switches => EditorInv'
  <1> SUFFICES ASSUME EditorInv, Editor!Switches PROVE EditorInv'
    OBVIOUS
  <1> USE DEF EditorInv, Editor!Switches, Editor!Event
  <1>1. EditorTypes'
    <2>1. /\ v1' \in AnyText /\ v2' \in AnyText /\ v7' \in AnyText /\ v8' \in AnyText
          /\ v9' \in BOOLEAN /\ v3' \in BOOLEAN /\ v5' \in BOOLEAN
      BY DEF EditorTypes
    <2> QED
      BY <2>1 DEF EditorTypes
  <1>2. EditorHolds'
    BY DEF EditorTypes, EditorHolds
  <1>3. EditorFollows' /\ EditorKeeps'
    BY DEF EditorTypes, EditorHolds, EditorFollows, EditorKeeps
  <1> QED
    BY <1>1, <1>2, <1>3

EditorPart == part = "editor" => EditorInv

\* The editor begins so, and every step of the web client keeps it so.
LEMMA EditorInitial == WebInit => EditorPart
  <1> SUFFICES ASSUME WebInit, part = "editor" PROVE EditorInv
    BY DEF EditorPart
  <1>1. Editor!TextInit
    BY DEF WebInit
  <1>2. PICK b \in Bases : /\ v1 = Editor!Put(b) /\ v2 = v1 /\ v6 = v1 /\ v7 = v1 /\ v8 = v1
                           /\ v3 = FALSE /\ v4 = "rich" /\ v5 = FALSE /\ v9 = FALSE
                           /\ v10 = 0 /\ v11 = {} /\ v12 = FALSE /\ v13 = FALSE
    BY <1>1 DEF Editor!TextInit
  <1> QED
    BY <1>2, TextIsPut DEF EditorInv, EditorTypes, EditorHolds, EditorFollows, EditorKeeps

LEMMA EditorStep == EditorPart /\ [WebNext]_web => EditorPart'
  <1> SUFFICES ASSUME EditorPart, [WebNext]_web, part' = "editor" PROVE EditorInv'
    BY DEF EditorPart
  <1>1. CASE UNCHANGED web
    BY <1>1
       DEF web, EditorPart, EditorInv, EditorTypes, EditorHolds, EditorFollows, EditorKeeps
  <1>2. CASE WebNext
    <2>1. part = "editor" /\ Editor!TextNext
      BY <1>2 DEF WebNext, Rest13, Rest11, Rest10, Rest9, Rest6
    <2>2. EditorInv
      BY <2>1 DEF EditorPart
    <2> QED
      BY <2>1, <2>2, EditorAfterTypesRich, EditorAfterTypesSource, EditorAfterApplies,
         EditorAfterRenders, EditorAfterTakesProp, EditorAfterGetsReady, EditorAfterSwitches
         DEF Editor!TextNext
  <1> QED
    BY <1>1, <1>2

\* The editor and the page have one text, through every change of mode, and what is
\* typed in the one is not lost in the other, for every number of events.
THEOREM EditorPromise == WebSpec => []OneText
  <1>1. EditorPart => OneText
    <2> SUFFICES ASSUME EditorInv PROVE Editor!EditorAndPageAgree
      BY DEF EditorPart, OneText
    <2>1. v9 => Editor!Novel(v7) = v8
      BY DEF EditorInv, EditorTypes, EditorHolds, Editor!Novel, AnyText
    <2> QED
      BY <2>1 DEF EditorInv, EditorTypes, EditorHolds, EditorFollows, EditorKeeps,
                  Editor!EditorAndPageAgree, Editor!Settled, Editor!GetMarkdown
  <1> QED
    BY <1>1, EditorInitial, EditorStep, PTL DEF WebSpec

-----------------------------------------------------------------------------
(* The calendar (CalendarPage) *)

\* the questions about things of the set D, and the last of them is about what
AnyQuestions(D) == [latest : Nat, calls : SUBSET [about : D, number : Nat]]

\* The number of the last question is the highest, and it is about what.
LastAbout(q, what) ==
  \A r \in q.calls : r.number <= q.latest /\ (r.number = q.latest => r.about = what)

\* The last question is not answered yet.
Waits(q) == \E r \in q.calls : Calendar!StillAsked(q, r)

Dates == Int \X Int

\* What the variables hold.
CalendarTypes ==
  LET month == v1  selected == v2  reading == v5  askedMonth == v6  askedDay == v7  excuse == v9
  IN  /\ month \in Int /\ selected \in Dates
      /\ reading \in [on : BOOLEAN, timer : BOOLEAN]
      /\ excuse \in [day : BOOLEAN, month : BOOLEAN, stuck : BOOLEAN]
      /\ askedMonth \in AnyQuestions(Int) /\ askedDay \in AnyQuestions(Dates)

\* the last question of each kind is about what is chosen
CalendarAsks ==
  LET month == v1  selected == v2  reading == v5  askedMonth == v6  askedDay == v7
  IN  /\ LastAbout(askedMonth, month) /\ LastAbout(askedDay, selected)
      /\ reading.timer => Waits(askedDay)

\* The inductive invariant of the calendar.
CalendarInv == CalendarTypes /\ CalendarAsks /\ Calendar!CalendarTellsTruth

\* A new question is the last one; giving up leaves none; an answered one is gone.
LEMMA AskingKeeps ==
  ASSUME NEW D, NEW q \in AnyQuestions(D), NEW what, LastAbout(q, what), NEW a \in D
  PROVE  /\ Calendar!Asking(q, a) \in AnyQuestions(D) /\ LastAbout(Calendar!Asking(q, a), a)
         /\ Waits(Calendar!Asking(q, a))
  <1> DEFINE r == [about |-> a, number |-> q.latest + 1]
             new == Calendar!Asking(q, a)
  <1>1. q.latest \in Nat /\ q.calls \subseteq [about : D, number : Nat]
    BY DEF AnyQuestions
  <1>2. r \in [about : D, number : Nat] /\ r.number = q.latest + 1 /\ r.about = a
    BY <1>1
  <1>3. new.latest = q.latest + 1 /\ new.calls = q.calls \cup {r}
    BY DEF Calendar!Asking
  <1>4. new \in AnyQuestions(D)
    BY <1>1, <1>2 DEF AnyQuestions, Calendar!Asking
  <1> HIDE DEF r, new
  <1>5. LastAbout(new, a)
    BY <1>1, <1>2, <1>3 DEF LastAbout
  <1>6. Waits(new)
    BY <1>2, <1>3 DEF Waits, Calendar!StillAsked
  <1> QED
    BY <1>4, <1>5, <1>6 DEF new

LEMMA GivingUpKeeps ==
  ASSUME NEW D, NEW q \in AnyQuestions(D), NEW what, LastAbout(q, what)
  PROVE  /\ [q EXCEPT !.latest = @ + 1] \in AnyQuestions(D)
         /\ \A any : LastAbout([q EXCEPT !.latest = @ + 1], any)
  <1> DEFINE new == [q EXCEPT !.latest = @ + 1]
  <1>1. q.latest \in Nat /\ q.calls \subseteq [about : D, number : Nat]
    BY DEF AnyQuestions
  <1>2. new = [latest |-> q.latest + 1, calls |-> q.calls]
    BY DEF AnyQuestions
  <1>3. new \in AnyQuestions(D) /\ new.latest = q.latest + 1 /\ new.calls = q.calls
    BY <1>1, <1>2 DEF AnyQuestions
  <1> HIDE DEF new
  <1>4. \A any : LastAbout(new, any)
    BY <1>1, <1>3 DEF LastAbout
  <1> QED
    BY <1>3, <1>4 DEF new

LEMMA AnsweringKeeps ==
  ASSUME NEW D, NEW q \in AnyQuestions(D), NEW what, LastAbout(q, what), NEW r \in q.calls
  PROVE  LET new == [q EXCEPT !.calls = @ \ {r}]
         IN  /\ new \in AnyQuestions(D) /\ LastAbout(new, what)
             /\ ~Calendar!StillAsked(q, r) => (Waits(new) <=> Waits(q))
  <1> DEFINE new == [q EXCEPT !.calls = @ \ {r}]
  <1>1. q.latest \in Nat /\ q.calls \subseteq [about : D, number : Nat]
    BY DEF AnyQuestions
  <1>2. new = [latest |-> q.latest, calls |-> q.calls \ {r}]
    BY DEF AnyQuestions
  <1>3. new \in AnyQuestions(D) /\ new.latest = q.latest /\ new.calls = q.calls \ {r}
    BY <1>1, <1>2 DEF AnyQuestions
  <1> HIDE DEF new
  <1>4. LastAbout(new, what)
    BY <1>1, <1>3 DEF LastAbout
  <1>5. ~Calendar!StillAsked(q, r) => (Waits(new) <=> Waits(q))
    BY <1>3 DEF Waits, Calendar!StillAsked
  <1> QED
    BY <1>3, <1>4, <1>5 DEF new

\* The date that is chosen with a month is a date.
LEMMA DefaultIsDate == ASSUME NEW m \in Int PROVE Calendar!DefaultSelectedDate(m) \in Dates
  BY DateAssumption DEF Calendar!DefaultSelectedDate, Dates

\* Each action of CalendarPage keeps the invariant.
LEMMA CalendarAfterChangesMonth == ASSUME CalendarInv, Calendar!ChangesMonth PROVE CalendarInv'
  <1> USE DEF CalendarInv
  <1> DEFINE some == v2' \in v3.dates
  <1>1. /\ v1' \in Int /\ v2' \in Dates /\ v3' = v3 /\ v4' = None
        /\ v6' = Calendar!Asking(v6, v1')
        /\ v9' = [day |-> FALSE, month |-> FALSE, stuck |-> FALSE]
        /\ IF v2' = v2 THEN v5' = [v5 EXCEPT !.on = FALSE] /\ v7' = v7
           ELSE /\ v7' = IF some THEN Calendar!Asking(v7, v2') ELSE [v7 EXCEPT !.latest = @ + 1]
                /\ v5' = [on |-> FALSE, timer |-> some]
    BY DefaultIsDate, DateAssumption DEF Calendar!ChangesMonth
  <1>2. some \in BOOLEAN
    OBVIOUS
  <1> HIDE DEF some
  <1>3. v6' \in AnyQuestions(Int) /\ LastAbout(v6', v1') /\ Waits(v6')
    BY <1>1, AskingKeeps DEF CalendarTypes, CalendarAsks
  <1>4. v7' \in AnyQuestions(Dates) /\ LastAbout(v7', v2')
    <2>1. v7 \in AnyQuestions(Dates) /\ LastAbout(v7, v2)
      BY DEF CalendarTypes, CalendarAsks
    <2>2. CASE v2' = v2
      BY <1>1, <2>1, <2>2
    <2>3. CASE v7' = Calendar!Asking(v7, v2')
      BY <1>1, <2>1, <2>3, AskingKeeps
    <2>4. CASE v7' = [v7 EXCEPT !.latest = @ + 1]
      BY <2>1, <2>4, GivingUpKeeps
    <2> QED
      BY <1>1, <2>2, <2>3, <2>4
  <1>5. v5' \in [on : BOOLEAN, timer : BOOLEAN] /\ ~v5'.on
    <2>1. CASE v5' = [v5 EXCEPT !.on = FALSE]
      BY <2>1 DEF CalendarTypes
    <2>2. CASE v5' = [on |-> FALSE, timer |-> some]
      BY <1>2, <2>2
    <2> QED
      BY <1>1, <2>1, <2>2
  <1>6. v5'.timer => Waits(v7')
    BY <1>1, AskingKeeps DEF CalendarTypes, CalendarAsks
  <1>7. CalendarTypes'
    BY <1>1, <1>3, <1>4, <1>5 DEF CalendarTypes
  <1>8. CalendarAsks'
    BY <1>3, <1>4, <1>6 DEF CalendarAsks
  <1>9. Calendar!CalendarTellsTruth'
    BY <1>1, <1>3, <1>5 DEF Calendar!CalendarTellsTruth, Calendar!MonthAsked, Waits
  <1> QED
    BY <1>7, <1>8, <1>9

LEMMA CalendarAfterSelectsDate == ASSUME CalendarInv, Calendar!SelectsDate PROVE CalendarInv'
  <1> USE DEF CalendarInv
  <1> DEFINE some == v2' \in v3.dates
             stuck == some /\ ~Calendar!DayAsked
  <1>1. /\ v2' \in Calendar!Grid(v1) /\ v4' = None /\ UNCHANGED <<v1, v3, v6>>
        /\ IF v2' = v2
           THEN v5' = [v5 EXCEPT !.on = some] /\ v7' = v7 /\ v9' = [v9 EXCEPT !.stuck = stuck]
           ELSE /\ v5' = [on |-> some, timer |-> some]
                /\ v7' = IF some THEN Calendar!Asking(v7, v2') ELSE [v7 EXCEPT !.latest = @ + 1]
                /\ v9' = [v9 EXCEPT !.stuck = FALSE, !.day = FALSE]
    BY DEF Calendar!SelectsDate
  <1>2. some \in BOOLEAN /\ stuck \in BOOLEAN /\ (some => Waits(v7) \/ stuck)
    BY DEF Waits, Calendar!DayAsked
  <1>3. v2' \in Dates
    BY <1>1 DEF Calendar!Grid, Dates, CalendarTypes
  <1>10. some => v2' \in v3.dates
    OBVIOUS
  <1>11. ~some => v2' \notin v3.dates
    OBVIOUS
  <1> HIDE DEF some, stuck
  <1>4. v7' \in AnyQuestions(Dates) /\ LastAbout(v7', v2')
    <2>1. v7 \in AnyQuestions(Dates) /\ LastAbout(v7, v2)
      BY DEF CalendarTypes, CalendarAsks
    <2>2. CASE v2' = v2
      BY <1>1, <2>1, <2>2
    <2>3. CASE v7' = Calendar!Asking(v7, v2')
      BY <1>3, <2>1, <2>3, AskingKeeps
    <2>4. CASE v7' = [v7 EXCEPT !.latest = @ + 1]
      BY <2>1, <2>4, GivingUpKeeps
    <2> QED
      BY <1>1, <2>2, <2>3, <2>4
  <1>13. v5' \in [on : BOOLEAN, timer : BOOLEAN] /\ v5'.on = some
    <2>1. CASE v5' = [v5 EXCEPT !.on = some]
      BY <1>2, <2>1 DEF CalendarTypes
    <2>2. CASE v5' = [on |-> some, timer |-> some]
      BY <1>2, <2>2
    <2> QED
      BY <1>1, <2>1, <2>2
  <1>14. v9' \in [day : BOOLEAN, month : BOOLEAN, stuck : BOOLEAN] /\ v9'.month = v9.month
    BY <1>1, <1>2 DEF CalendarTypes
  <1>5. /\ v5' \in [on : BOOLEAN, timer : BOOLEAN] /\ v5'.on = some
        /\ v9' \in [day : BOOLEAN, month : BOOLEAN, stuck : BOOLEAN] /\ v9'.month = v9.month
    BY <1>13, <1>14
  <1>6. v5'.timer => Waits(v7')
    BY <1>1, <1>3, AskingKeeps DEF CalendarTypes, CalendarAsks
  <1>12. v5'.on => Waits(v7') \/ v9'.stuck
    BY <1>1, <1>2, <1>3, <1>5, AskingKeeps DEF CalendarTypes, CalendarAsks
  <1>7. CalendarTypes'
    BY <1>1, <1>3, <1>4, <1>5 DEF CalendarTypes
  <1>8. CalendarAsks'
    BY <1>1, <1>4, <1>6 DEF CalendarAsks
  <1>9. Calendar!CalendarTellsTruth'
    BY <1>1, <1>5, <1>11, <1>12
       DEF Calendar!CalendarTellsTruth, Calendar!MonthAsked, Calendar!DayAsked, Waits
  <1> QED
    BY <1>7, <1>8, <1>9

LEMMA CalendarAfterTimerFires == ASSUME CalendarInv, Calendar!TimerFires PROVE CalendarInv'
  <1> USE DEF CalendarInv
  <1>1. /\ v5.timer /\ v5' = [on |-> TRUE, timer |-> FALSE]
        /\ UNCHANGED <<v1, v2, v3, v4, v6, v7, v8, v9>>
    BY DEF Calendar!TimerFires
  <1>2. CalendarTypes' /\ CalendarAsks'
    BY <1>1 DEF CalendarTypes, CalendarAsks
  <1>3. Calendar!CalendarTellsTruth'
    BY <1>1
       DEF Calendar!CalendarTellsTruth, Calendar!MonthAsked, Calendar!DayAsked, Waits,
           CalendarAsks
  <1> QED
    BY <1>2, <1>3

LEMMA CalendarAfterCountsArrive == ASSUME CalendarInv, Calendar!CountsArrive PROVE CalendarInv'
  <1> USE DEF CalendarInv
  <1>1. PICK r \in v6.calls, good \in BOOLEAN :
          /\ v6' = [v6 EXCEPT !.calls = @ \ {r}]
          /\ IF Calendar!StillAsked(v6, r)
             THEN /\ v3' = IF good THEN [of |-> r.about, dates |-> Calendar!Days(r.about)]
                           ELSE Calendar!NoCounts
                  /\ v2' = v2 /\ Calendar!Previews
                  /\ v9' = [day |-> FALSE, month |-> ~good, stuck |-> v5.on /\ v2 \notin v3'.dates]
             ELSE UNCHANGED <<v3, v2, v7, v5, v9>>
    BY DEF Calendar!CountsArrive
  <1>2. v1' = v1 /\ v4' = v4
    BY DEF Calendar!CountsArrive
  <1>3. /\ v6' \in AnyQuestions(Int) /\ LastAbout(v6', v1')
        /\ ~Calendar!StillAsked(v6, r) => (Waits(v6') <=> Waits(v6))
    BY <1>1, <1>2, AnsweringKeeps DEF CalendarTypes, CalendarAsks
  <1>4. CASE ~Calendar!StillAsked(v6, r)
    <2>1. UNCHANGED <<v2, v3, v5, v7, v9>>
      BY <1>1, <1>4
    <2>2. CalendarTypes' /\ CalendarAsks'
      BY <1>2, <1>3, <2>1 DEF CalendarTypes, CalendarAsks
    <2>3. Waits(v6') <=> Waits(v6)
      BY <1>3, <1>4
    <2>4. Calendar!CalendarTellsTruth'
      BY <1>2, <2>1, <2>3
         DEF Calendar!CalendarTellsTruth, Calendar!MonthAsked, Calendar!DayAsked, Waits
    <2> QED
      BY <2>2, <2>4
  <1>5. CASE Calendar!StillAsked(v6, r)
    <2> DEFINE some == v2 \in v3'.dates
               stuck == v5.on /\ ~some
               failed == ~good
    <2>1. /\ v2' = v2 /\ v9' = [day |-> FALSE, month |-> failed, stuck |-> stuck]
          /\ IF some THEN v7' = Calendar!Asking(v7, v2) /\ v5' = [v5 EXCEPT !.timer = TRUE]
             ELSE v7' = [v7 EXCEPT !.latest = @ + 1] /\ v5' = [v5 EXCEPT !.timer = FALSE]
      BY <1>1, <1>5 DEF Calendar!Previews
    <2>2. good => v3'.of = v1
      BY <1>1, <1>5 DEF Calendar!StillAsked, CalendarAsks, LastAbout
    <2>3. stuck \in BOOLEAN /\ failed \in BOOLEAN /\ (v5.on => some \/ stuck) /\ (~good => failed)
      BY DEF CalendarTypes
    <2>4. ~some => v2 \notin v3'.dates
      OBVIOUS
    <2> HIDE DEF some, stuck, failed
    <2>5. v7' \in AnyQuestions(Dates) /\ LastAbout(v7', v2) /\ (some => Waits(v7'))
      <3>1. v7 \in AnyQuestions(Dates) /\ LastAbout(v7, v2) /\ v2 \in Dates
        BY DEF CalendarTypes, CalendarAsks
      <3>2. CASE some
        BY <2>1, <3>1, <3>2, AskingKeeps
      <3>3. CASE ~some
        BY <2>1, <3>1, <3>3, GivingUpKeeps
      <3> QED
        BY <3>2, <3>3
    <2>6. v5' \in [on : BOOLEAN, timer : BOOLEAN] /\ v5'.on = v5.on /\ (v5'.timer <=> some)
      BY <2>1 DEF CalendarTypes
    <2>7. /\ v9' \in [day : BOOLEAN, month : BOOLEAN, stuck : BOOLEAN]
          /\ v9'.stuck = stuck /\ v9'.month = failed
      BY <2>1, <2>3
    <2>8. CalendarTypes' /\ CalendarAsks'
      BY <1>2, <1>3, <2>1, <2>5, <2>6, <2>7 DEF CalendarTypes, CalendarAsks
    <2>9. Calendar!CalendarTellsTruth'
      BY <1>2, <2>1, <2>2, <2>3, <2>4, <2>5, <2>6, <2>7
         DEF Calendar!CalendarTellsTruth, Calendar!MonthAsked, Calendar!DayAsked, Waits
    <2> QED
      BY <2>8, <2>9
  <1> QED
    BY <1>4, <1>5

LEMMA CalendarAfterDayArrives == ASSUME CalendarInv, Calendar!DayArrives PROVE CalendarInv'
  <1> USE DEF CalendarInv
  <1>1. PICK r \in v7.calls, good \in BOOLEAN :
          /\ ~v5.timer /\ v7' = [v7 EXCEPT !.calls = @ \ {r}]
          /\ IF Calendar!StillAsked(v7, r)
             THEN /\ v4' = IF good THEN r.about ELSE None
                  /\ v5' = [v5 EXCEPT !.on = FALSE] /\ v9' = [v9 EXCEPT !.day = ~good]
             ELSE UNCHANGED <<v4, v5, v9>>
    BY DEF Calendar!DayArrives
  <1>2. UNCHANGED <<v1, v2, v3, v6>>
    BY DEF Calendar!DayArrives
  <1>3. /\ v7' \in AnyQuestions(Dates) /\ LastAbout(v7', v2)
        /\ ~Calendar!StillAsked(v7, r) => (Waits(v7') <=> Waits(v7))
    BY <1>1, AnsweringKeeps DEF CalendarTypes, CalendarAsks
  <1>4. CASE ~Calendar!StillAsked(v7, r)
    <2>1. UNCHANGED <<v4, v5, v9>>
      BY <1>1, <1>4
    <2>2. CalendarTypes' /\ CalendarAsks'
      BY <1>1, <1>2, <1>3, <2>1 DEF CalendarTypes, CalendarAsks
    <2>3. Waits(v7') <=> Waits(v7)
      BY <1>3, <1>4
    <2>4. Calendar!CalendarTellsTruth'
      BY <1>2, <2>1, <2>3
         DEF Calendar!CalendarTellsTruth, Calendar!MonthAsked, Calendar!DayAsked, Waits
    <2> QED
      BY <2>2, <2>4
  <1>5. CASE Calendar!StillAsked(v7, r)
    <2> DEFINE failed == ~good
    <2>1. v5' = [v5 EXCEPT !.on = FALSE] /\ v9' = [v9 EXCEPT !.day = failed]
      BY <1>1, <1>5
    <2>2. r.about = v2 /\ v2 # None
      BY <1>5, NoneAssumption
         DEF Calendar!StillAsked, CalendarTypes, CalendarAsks, LastAbout, Dates
    <2>3. (v4' = None /\ failed) \/ v4' = v2
      BY <1>1, <1>5, <2>2
    <2>4. failed \in BOOLEAN
      OBVIOUS
    <2> HIDE DEF failed
    <2>5. v5' \in [on : BOOLEAN, timer : BOOLEAN] /\ ~v5'.on /\ v5'.timer = v5.timer
      BY <2>1 DEF CalendarTypes
    <2>6. /\ v9' \in [day : BOOLEAN, month : BOOLEAN, stuck : BOOLEAN]
          /\ v9'.day = failed /\ v9'.month = v9.month
      BY <2>1, <2>4 DEF CalendarTypes
    <2>7. CalendarTypes' /\ CalendarAsks'
      BY <1>1, <1>2, <1>3, <2>5, <2>6 DEF CalendarTypes, CalendarAsks
    <2>8. Calendar!CalendarTellsTruth'
      BY <1>2, <2>2, <2>3, <2>5, <2>6
         DEF Calendar!CalendarTellsTruth, Calendar!MonthAsked, Calendar!DayAsked
    <2> QED
      BY <2>7, <2>8
  <1> QED
    BY <1>4, <1>5

CalendarPart == part = "calendar" => CalendarInv

\* The calendar begins so, and every step of the web client keeps it so.
LEMMA CalendarInitial == WebInit => CalendarPart
  <1> SUFFICES ASSUME WebInit, part = "calendar" PROVE CalendarInv
    BY DEF CalendarPart
  <1>1. Calendar!CalendarInit
    BY DEF WebInit
  <1>2. /\ v1 \in Int /\ v2 \in Dates /\ v4 = None /\ v5 = [on |-> FALSE, timer |-> FALSE]
        /\ v6 = Calendar!Asking(Calendar!Idle, v1) /\ v7 = Calendar!Idle
        /\ v9 = [day |-> FALSE, month |-> FALSE, stuck |-> FALSE]
    BY <1>1, DefaultIsDate, DateAssumption DEF Calendar!CalendarInit, Calendar!Unread
  <1>3. \A D, w : Calendar!Idle \in AnyQuestions(D) /\ LastAbout(Calendar!Idle, w)
    BY DEF Calendar!Idle, AnyQuestions, LastAbout
  <1>4. v6 \in AnyQuestions(Int) /\ LastAbout(v6, v1) /\ Waits(v6)
    BY <1>2, <1>3, AskingKeeps
  <1>5. v7 \in AnyQuestions(Dates) /\ LastAbout(v7, v2)
    BY <1>2, <1>3
  <1>6. CalendarTypes /\ CalendarAsks
    BY <1>2, <1>4, <1>5 DEF CalendarTypes, CalendarAsks
  <1>7. Calendar!CalendarTellsTruth
    BY <1>2, <1>4 DEF Calendar!CalendarTellsTruth, Calendar!MonthAsked, Waits
  <1> QED
    BY <1>6, <1>7 DEF CalendarInv

LEMMA CalendarStep == CalendarPart /\ [WebNext]_web => CalendarPart'
  <1> SUFFICES ASSUME CalendarPart, [WebNext]_web, part' = "calendar" PROVE CalendarInv'
    BY DEF CalendarPart
  <1>1. CASE UNCHANGED web
    BY <1>1 DEF web, CalendarPart, CalendarInv, CalendarTypes, CalendarAsks, LastAbout, Waits,
                Calendar!CalendarTellsTruth, Calendar!MonthAsked, Calendar!DayAsked
  <1>2. CASE WebNext
    <2>1. part = "calendar" /\ Calendar!CalendarNext
      BY <1>2 DEF WebNext, Rest13, Rest11, Rest10, Rest9, Rest6
    <2>2. CalendarInv
      BY <2>1 DEF CalendarPart
    <2> QED
      BY <2>1, <2>2, CalendarAfterChangesMonth, CalendarAfterSelectsDate,
         CalendarAfterTimerFires, CalendarAfterCountsArrive, CalendarAfterDayArrives
         DEF Calendar!CalendarNext
  <1> QED
    BY <1>1, <1>2

-----------------------------------------------------------------------------
(* The public lists (PublicLists) *)

\* The values of the lists: places, what is listed, pages of one entry, requests.
AnyPlace == PublicEntries \X Nat

ListItem == PublicEntries \X Nat \X BOOLEAN

PlaceOf(x) == <<x[1], x[2]>>

OnePage == {<<>>} \cup {<<x>> : x \in ListItem}

ListRequest == [state : {"off", "asked", "answered", "failed"}, after : AnyPlace \cup {None},
                items : OnePage, next : AnyPlace \cup {None}, moved : BOOLEAN]

\* What the variables hold.
ListTypes ==
  LET list == v1  day == v2  items == v3  cursor == v4  touched == v8  gap == v9
      private == v10
  IN  /\ list \in {"timeline", "category", "tag", "search"} /\ day \in [PublicEntries -> EntryDays]
      /\ private \subseteq PublicEntries /\ items \in Seq(ListItem) /\ cursor \in AnyPlace \cup {None}
      /\ touched \in SUBSET PublicEntries /\ gap \in BOOLEAN

\* no two published entries have one day
ListDays == LET day == v2
            IN  \A e, o \in PublicEntries : e # o /\ day[e] # 0 => day[e] # day[o]

\* unless it was touched, the entry a place names is still there
PlaceStands(c) ==
  LET day == v2  touched == v8
  IN  c # None /\ c[1] \notin touched => day[c[1]] = c[2]

\* what the page r says of the entries nobody touched is true
PageTellsOf(r) ==
  LET day == v2  touched == v8
  IN  /\ \A x \in ListItem : r.items = <<x>> =>
           /\ r.next \in {None, PlaceOf(x)} /\ PlaceStands(PlaceOf(x))
           /\ (r.after # None => x[2] < r.after[2])
      /\ r.items = <<>> => r.next = None
      /\ \A e \in Lists!Public \ touched : (r.after = None \/ day[e] < r.after[2]) =>
           \E x \in ListItem : r.items = <<x>> /\ (e = x[1] \/ (r.next = PlaceOf(x) /\ day[e] < x[2]))

\* The cursors stand, and the answers on their way tell the truth.
ListAnswers ==
  LET cursor == v4  more == v5  first == v6
  IN  /\ more \in ListRequest /\ first \in ListRequest
      /\ PlaceStands(cursor) /\ PlaceStands(more.after) /\ PlaceStands(more.next) /\ PlaceStands(first.next)
      /\ \A r \in {more, first} : r.state \in {"off", "asked", "failed"} => r.items = <<>> /\ r.next = None
      /\ more.state \in {"asked", "answered"} => more.after # None
      /\ first.after = None
      /\ more.state = "answered" /\ ~more.moved => PageTellsOf(more)
      /\ first.state = "answered" => PageTellsOf(first)

\* The entries a list names.
NamesOf(s) == {x[1] : x \in Lists!Listed(s)}

\* the list ends where its cursor is
ListReaches ==
  LET day == v2  items == v3  cursor == v4  touched == v8  gap == v9
  IN  ~gap =>
        /\ \A e \in Lists!Public \ touched :
             e \in NamesOf(items) \/ (cursor # None /\ day[e] < cursor[2])
        /\ \A o \in NamesOf(items) \ touched : cursor # None => day[o] >= cursor[2]

\* No entry is in a list twice, but the private ones of the timeline.
NoneTwice(s) ==
  LET list == v1
  IN  /\ list = "timeline" => \A i, j \in 1..Len(s) : s[i] = s[j] /\ s[i][3] => i = j
      /\ list = "category" => \A i, j \in 1..Len(s) : s[i][1] = s[j][1] => i = j

\* The inductive invariant of the public lists.
ListInv == ListTypes /\ ListDays /\ ListAnswers /\ ListReaches /\ NoneTwice(v3)

\* The newest of a set of entries is the newest.
LEMMA NewestIsNewest ==
  ASSUME v2 \in [PublicEntries -> EntryDays], NEW s \in SUBSET PublicEntries, s # {}
  PROVE  Lists!Newest(s) \in s /\ \A o \in s : v2[o] <= v2[Lists!Newest(s)]
  <1>1. PICK last \in Nat : \A d \in EntryDays : d \in Nat /\ d <= last
    BY DaysAssumption
  <1> DEFINE T == {last - v2[e] : e \in s}
  <1>2. T \in SUBSET Nat /\ T # {}
    BY <1>1
  <1>3. PICK m \in T : \A n \in T : m <= n
    BY <1>2, LeastNatural
  <1>4. PICK e \in s : m = last - v2[e]
    BY <1>3
  <1>5. ASSUME NEW o \in s PROVE v2[o] <= v2[e]
    <2>1. last - v2[o] \in T /\ v2[o] \in Nat /\ v2[e] \in Nat
      BY <1>1
    <2>2. m <= last - v2[o]
      BY <1>3, <2>1
    <2> QED
      BY <1>4, <2>1, <2>2
  <1> QED
    BY <1>5 DEF Lists!Newest

\* A page has the newest of its entries, and a cursor when there are more.
LEMMA PageIsOf ==
  ASSUME v2 \in [PublicEntries -> EntryDays], ListDays, NEW r \in ListRequest, r.items = <<>>, r.next = None,
         NEW s \in SUBSET Lists!Public,
         \A e \in s, o \in Lists!Public : v2[o] < v2[e] => o \in s
  PROVE  LET q == Lists!PageOf(r, s)
         IN  /\ q \in ListRequest /\ q.state = "answered" /\ q.after = r.after /\ q.moved = r.moved
             /\ s = {} => q.items = <<>> /\ q.next = None
             /\ s # {} => \E x \in ListItem :
                   /\ q.items = <<x>> /\ q.next \in {None, PlaceOf(x)} /\ x[1] \in s /\ v2[x[1]] = x[2]
                   /\ \A e \in s : e = x[1] \/ (q.next = PlaceOf(x) /\ v2[e] < x[2])
  <1> DEFINE q == Lists!PageOf(r, s)
  <1>0. EntryDays \subseteq Nat /\ v2 \in [PublicEntries -> EntryDays] /\ s \subseteq PublicEntries
    BY DaysAssumption DEF ListTypes, Lists!Public
  <1>1. CASE s = {}
    <2>1. q = [r EXCEPT !.state = "answered"]
      BY <1>1 DEF Lists!PageOf
    <2>2. /\ q \in ListRequest /\ q.state = "answered" /\ q.after = r.after /\ q.moved = r.moved
          /\ q.items = r.items /\ q.next = r.next
      BY <2>1 DEF ListRequest
    <2> QED
      BY <1>1, <2>2
  <1>2. CASE s # {}
    <2> DEFINE e == Lists!Newest(s)
               p == <<e, v2[e]>>
               x == <<e, v2[e], e \notin v10>>
               n == IF Lists!After(v2[e]) = {} THEN None ELSE p
    <2>1. e \in s /\ \A o \in s : v2[o] <= v2[e]
      BY <1>0, <1>2, NewestIsNewest
    <2>2. q = [r EXCEPT !.state = "answered", !.items = <<x>>, !.next = n]
      BY <1>2 DEF Lists!PageOf
    <2> HIDE DEF e
    <2>3. p \in AnyPlace /\ x \in ListItem /\ x[1] = e /\ x[2] = v2[e] /\ PlaceOf(x) = p
      BY <1>0, <2>1 DEF AnyPlace, ListItem, PlaceOf
    <2>4. n \in {None, p}
      OBVIOUS
    <2>5. \A o \in s : o = e \/ (n = p /\ v2[o] < v2[e])
      <3> SUFFICES ASSUME NEW o \in s, o # e PROVE n = p /\ v2[o] < v2[e]
        OBVIOUS
      <3>1. v2[o] # v2[e] /\ v2[o] \in Nat /\ v2[e] \in Nat /\ o \in Lists!Public
        BY <1>0, <2>1 DEF ListDays, Lists!Public
      <3>2. v2[o] < v2[e]
        BY <2>1, <3>1
      <3>3. o \in Lists!After(v2[e])
        BY <3>1, <3>2 DEF Lists!After
      <3> QED
        BY <3>2, <3>3
    <2> HIDE DEF p, n, x
    <2>6. <<x>> \in OnePage
      BY <2>3 DEF OnePage
    <2> DEFINE one == <<x>>
    <2>7. /\ q \in ListRequest /\ q.state = "answered" /\ q.after = r.after /\ q.moved = r.moved
          /\ q.items = one /\ q.next = n
      <3>1. q = [r EXCEPT !.state = "answered", !.items = one, !.next = n] /\ one \in OnePage
        BY <2>2, <2>6
      <3>2. n \in AnyPlace \cup {None}
        BY <2>3, <2>4
      <3> HIDE DEF one, q
      <3> QED
        BY <3>1, <3>2 DEF ListRequest
    <2> QED
      BY <1>2, <2>1, <2>3, <2>4, <2>5, <2>7
  <1> QED
    BY <1>1, <1>2

\* A page is merged with a list without an entry twice.
LEMMA Merging ==
  ASSUME NEW s \in Seq(ListItem), NEW page \in OnePage, NoneTwice(s),
         v1 \in {"timeline", "category", "tag", "search"}
  PROVE  LET m == Lists!Merged(s, page)
         IN  /\ m \in Seq(ListItem) /\ NoneTwice(m)
             /\ page = <<>> => NamesOf(m) = NamesOf(s)
             /\ \A p \in ListItem : page = <<p>> => NamesOf(m) = NamesOf(s) \cup {p[1]}
  <1>1. CASE page = <<>>
    <2>1. Lists!Listed(page) = {}
      BY <1>1 DEF Lists!Listed
    <2>2. Lists!Merged(s, page) = s
      BY <1>1, <2>1 DEF Lists!Merged, Lists!Known
    <2> QED
      BY <1>1, <2>2
  <1>2. ASSUME NEW p \in ListItem, page = <<p>>
        PROVE  LET m == Lists!Merged(s, page)
               IN  m \in Seq(ListItem) /\ NoneTwice(m) /\ NamesOf(m) = NamesOf(s) \cup {p[1]}
    <2>1. Lists!Listed(page) = {p}
      BY <1>2 DEF Lists!Listed
    <2>2. CASE Lists!Known(s, page)
      <3>1. PICK y \in Lists!Listed(s) : y[1] = p[1]
        BY <2>1, <2>2 DEF Lists!Known
      <3>2. p[1] \in NamesOf(s)
        BY <3>1 DEF NamesOf
      <3> QED
        BY <2>2, <3>2 DEF Lists!Merged
    <2>3. CASE ~Lists!Known(s, page)
      <3> DEFINE m == Append(s, p)
      <3>1. Lists!Merged(s, page) = m
        BY <1>2, <2>3 DEF Lists!Merged
      <3>2. m \in Seq(ListItem) /\ Len(m) = Len(s) + 1 /\ m[Len(s) + 1] = p
            /\ \A i \in 1..Len(s) : m[i] = s[i]
        OBVIOUS
      <3> HIDE DEF m
      <3>3. Lists!Listed(m) = Lists!Listed(s) \cup {p}
        BY <3>2 DEF Lists!Listed
      <3>4. NamesOf(m) = NamesOf(s) \cup {p[1]}
        BY <3>3 DEF NamesOf
      <3>8. \A i \in 1..Len(s) : s[i] \in Lists!Listed(s)
        BY DEF Lists!Listed
      <3>5. v1 = "timeline" => \A i \in 1..Len(s) : s[i] # p \/ ~p[3]
        BY <2>1, <2>3, <3>8 DEF Lists!Known
      <3>6. v1 = "category" => \A i \in 1..Len(s) : s[i][1] # p[1]
        BY <2>1, <2>3, <3>8 DEF Lists!Known
      <3>7. NoneTwice(m)
        BY <3>2, <3>5, <3>6 DEF NoneTwice
      <3> QED
        BY <3>1, <3>2, <3>4, <3>7
    <2> QED
      BY <2>2, <2>3
  <1> QED
    BY <1>1, <1>2 DEF OnePage

\* the requests as they are asked
LEMMA RequestsAreTyped ==
  ASSUME NEW c \in AnyPlace \cup {None}
  PROVE  LET r == [Lists!NoRequest EXCEPT !.state = "asked", !.after = c]
         IN  r \in ListRequest /\ r.state = "asked" /\ r.after = c /\ r.items = <<>> /\ r.next = None
  BY DEF Lists!NoRequest, ListRequest, OnePage

\* There is no request yet.
LEMMA NoRequestIsTyped ==
  /\ Lists!NoRequest \in ListRequest /\ Lists!NoRequest.state = "off"
  /\ Lists!NoRequest.items = <<>> /\ Lists!NoRequest.next = None /\ Lists!NoRequest.after = None
  /\ Lists!Failed \in ListRequest /\ Lists!Failed.state = "failed"
  /\ Lists!Failed.items = <<>> /\ Lists!Failed.next = None /\ Lists!Failed.after = None
  BY DEF Lists!NoRequest, Lists!Failed, ListRequest, OnePage

\* a page of the entries that follow a place
LEMMA PageTells ==
  ASSUME v2 \in [PublicEntries -> EntryDays], ListDays, NEW r \in ListRequest, r.items = <<>>, r.next = None,
         NEW s \in SUBSET Lists!Public,
         \A e \in s, o \in Lists!Public : v2[o] < v2[e] => o \in s,
         \A e \in Lists!Public : e \in s <=> r.after = None \/ v2[e] < r.after[2]
  PROVE  LET q == Lists!PageOf(r, s)
         IN  /\ q \in ListRequest /\ q.state = "answered" /\ q.after = r.after /\ q.moved = r.moved
             /\ PageTellsOf(q) /\ PlaceStands(q.next)
  <1> DEFINE q == Lists!PageOf(r, s)
  <1>1. /\ q \in ListRequest /\ q.state = "answered" /\ q.after = r.after /\ q.moved = r.moved
        /\ s = {} => q.items = <<>> /\ q.next = None
        /\ s # {} => \E x \in ListItem :
              /\ q.items = <<x>> /\ q.next \in {None, PlaceOf(x)} /\ x[1] \in s /\ v2[x[1]] = x[2]
              /\ \A e \in s : e = x[1] \/ (q.next = PlaceOf(x) /\ v2[e] < x[2])
    BY PageIsOf
  <1> HIDE DEF q
  <1>2. CASE s = {}
    <2>1. PlaceStands(q.next)
      BY <1>1, <1>2 DEF PlaceStands
    <2>2. \A p \in ListItem : q.items # <<p>>
      <3>1. \A p : <<p>> # <<>>
        OBVIOUS
      <3>2. q.items = <<>>
        BY <1>1, <1>2
      <3> QED
        BY <3>1, <3>2
    <2>3. PageTellsOf(q)
      BY <1>1, <1>2, <2>2 DEF PageTellsOf, Lists!Public
    <2> QED
      BY <1>1, <2>1, <2>3 DEF q
  <1>3. CASE s # {}
    <2> PICK x \in ListItem :
          /\ q.items = <<x>> /\ q.next \in {None, PlaceOf(x)} /\ x[1] \in s /\ v2[x[1]] = x[2]
          /\ \A e \in s : e = x[1] \/ (q.next = PlaceOf(x) /\ v2[e] < x[2])
      BY <1>1, <1>3
    <2>1. PlaceStands(PlaceOf(x)) /\ PlaceStands(q.next)
      BY DEF PlaceStands, PlaceOf
    <2>2. q.after # None => x[2] < q.after[2]
      BY <1>1
    <2>3. q.items # <<>> /\ \A o \in ListItem : q.items = <<o>> => o = x
      OBVIOUS
    <2>4. PageTellsOf(q)
      BY <1>1, <2>1, <2>2, <2>3 DEF PageTellsOf, Lists!Public
    <2> QED
      BY <1>1, <2>1, <2>4 DEF q
  <1> QED
    BY <1>2, <1>3

\* what was touched is left out of it
LEMMA TouchingKeeps ==
  ASSUME v8 \subseteq v8', \A e \in PublicEntries \ v8' : v2'[e] = v2[e],
         Lists!Public' \ v8' \subseteq Lists!Public
  PROVE  /\ \A c \in AnyPlace \cup {None} : PlaceStands(c) => PlaceStands(c)'
         /\ \A r \in ListRequest : PageTellsOf(r) => PageTellsOf(r)'
  <1>1. ASSUME NEW c \in AnyPlace \cup {None}, PlaceStands(c) PROVE PlaceStands(c)'
    BY <1>1 DEF PlaceStands, AnyPlace
  <1>2. ASSUME NEW r \in ListRequest, PageTellsOf(r) PROVE PageTellsOf(r)'
    <2>1. \A x \in ListItem : PlaceStands(PlaceOf(x)) => PlaceStands(PlaceOf(x))'
      BY <1>1 DEF ListItem, AnyPlace, PlaceOf
    <2>2. \A e \in Lists!Public' : e \in PublicEntries
      BY DEF Lists!Public
    <2> QED
      BY <1>2, <2>1, <2>2 DEF PageTellsOf
  <1> QED
    BY <1>1, <1>2

\* Each action of PublicLists keeps the invariant.
LEMMA ListAfterEdits == ASSUME ListInv, Lists!Edits PROVE ListInv'
  <1> USE DEF ListInv
  <1>1. PICK e \in PublicEntries :
          /\ v8' = v8 \cup {e}
          /\ \/ /\ \E d \in EntryDays : /\ d = 0 \/ \A o \in PublicEntries : v2[o] # d
                                       /\ v2' = [v2 EXCEPT ![e] = d]
                /\ v10' = v10
             \/ v10' = (v10 \ {e}) \cup ({e} \ v10) /\ v2' = v2
    BY DEF Lists!Edits
  <1>2. UNCHANGED <<v1, v3, v4, v5, v6, v9>>
    BY DEF Lists!Edits
  <1>3. ListTypes'
    BY <1>1, <1>2 DEF ListTypes
  <1>4. ListDays'
    BY <1>1 DEF ListTypes, ListDays
  <1>5. /\ v8 \subseteq v8' /\ \A o \in PublicEntries \ v8' : v2'[o] = v2[o]
        /\ Lists!Public' \ v8' \subseteq Lists!Public
    BY <1>1, <1>2 DEF ListTypes, Lists!Public
  <1>6. ListAnswers'
    <2>1. /\ v4 \in AnyPlace \cup {None} /\ v5 \in ListRequest /\ v6 \in ListRequest
          /\ v5.after \in AnyPlace \cup {None} /\ v5.next \in AnyPlace \cup {None}
          /\ v6.next \in AnyPlace \cup {None}
      BY DEF ListTypes, ListAnswers, ListRequest
    <2>2. PlaceStands(v4)' /\ PlaceStands(v5.after)' /\ PlaceStands(v5.next)' /\ PlaceStands(v6.next)'
      BY <1>2, <1>5, <2>1, TouchingKeeps DEF ListAnswers
    <2>3. /\ v5.state = "answered" /\ ~v5.moved => PageTellsOf(v5)'
          /\ v6.state = "answered" => PageTellsOf(v6)'
      BY <1>2, <1>5, <2>1, TouchingKeeps DEF ListAnswers
    <2> QED
      BY <1>2, <2>1, <2>2, <2>3 DEF ListAnswers
  <1>7. ListReaches'
    <2>1. NamesOf(v3)' = NamesOf(v3) /\ NamesOf(v3) \subseteq PublicEntries
      BY <1>2 DEF ListTypes, NamesOf, Lists!Listed, ListItem
    <2>2. Lists!Public' \subseteq PublicEntries
      BY DEF Lists!Public
    <2> QED
      BY <1>2, <1>5, <2>1, <2>2 DEF ListReaches
  <1>8. NoneTwice(v3)'
    BY <1>2 DEF NoneTwice
  <1> QED
    BY <1>3, <1>4, <1>6, <1>7, <1>8

\* what most steps leave alone
LEMMA ListStays ==
  ASSUME ListInv, UNCHANGED <<v1, v2, v3, v4, v8, v9, v10>>, ListAnswers' PROVE ListInv'
  BY DEF ListInv, ListTypes, ListDays, ListReaches, NoneTwice, NamesOf, Lists!Listed, Lists!Public

LEMMA ListAfterLoadsMore == ASSUME ListInv, Lists!LoadsMore PROVE ListInv'
  <1> USE DEF ListInv
  <1> DEFINE r == [Lists!NoRequest EXCEPT !.state = "asked", !.after = v4]
  <1>1. v4 # None /\ v5' = r /\ UNCHANGED <<v1, v2, v3, v4, v6, v8, v9, v10>>
    BY DEF Lists!LoadsMore
  <1>2. r \in ListRequest /\ r.state = "asked" /\ r.after = v4 /\ r.items = <<>> /\ r.next = None
    BY RequestsAreTyped DEF ListTypes
  <1> HIDE DEF r
  <1>3. ListAnswers'
    BY <1>1, <1>2 DEF ListAnswers, PlaceStands, PageTellsOf, Lists!Public
  <1> QED
    BY <1>1, <1>3, ListStays

LEMMA ListAfterRefreshes == ASSUME ListInv, Lists!Refreshes PROVE ListInv'
  <1> USE DEF ListInv
  <1> DEFINE r == [Lists!NoRequest EXCEPT !.state = "asked"]
  <1>1. v6' = r /\ UNCHANGED <<v1, v2, v3, v4, v5, v8, v9, v10>>
    BY DEF Lists!Refreshes
  <1>2. r \in ListRequest /\ r.state = "asked" /\ r.after = None /\ r.items = <<>> /\ r.next = None
    BY DEF Lists!NoRequest, ListRequest, OnePage
  <1> HIDE DEF r
  <1>3. ListAnswers'
    BY <1>1, <1>2 DEF ListAnswers, PlaceStands, PageTellsOf, Lists!Public
  <1> QED
    BY <1>1, <1>3, ListStays

LEMMA ListAfterNetworkFails == ASSUME ListInv, Lists!NetworkFails PROVE ListInv'
  <1> USE DEF ListInv
  <1>1. /\ UNCHANGED <<v1, v2, v3, v4, v8, v9, v10>>
        /\ \/ v5' = Lists!Failed /\ v6' = v6
           \/ v6' = Lists!Failed /\ v5' = v5
    BY DEF Lists!NetworkFails
  <1>2. ListAnswers'
    BY <1>1, NoRequestIsTyped DEF ListAnswers, PlaceStands, PageTellsOf, Lists!Public
  <1> QED
    BY <1>1, <1>2, ListStays

LEMMA ListAfterRefreshServed == ASSUME ListInv, Lists!RefreshServed PROVE ListInv'
  <1> USE DEF ListInv
  <1>1. v6.state = "asked" /\ v6' = Lists!Page(v6) /\ UNCHANGED <<v1, v2, v3, v4, v5, v8, v9, v10>>
    BY DEF Lists!RefreshServed
  <1>2. v6 \in ListRequest /\ v6.items = <<>> /\ v6.next = None /\ v6.after = None
    BY <1>1 DEF ListAnswers
  <1> DEFINE q == Lists!PageOf(v6, Lists!Public)
  <1>3. v6' = q
    BY <1>1, <1>2 DEF Lists!Page
  <1>4. q \in ListRequest /\ q.state = "answered" /\ q.after = None /\ PageTellsOf(q) /\ PlaceStands(q.next)
    BY <1>2, PageTells DEF ListTypes
  <1> HIDE DEF q
  <1>5. ListAnswers'
    BY <1>1, <1>3, <1>4 DEF ListAnswers, PlaceStands, PageTellsOf, Lists!Public
  <1> QED
    BY <1>1, <1>5, ListStays

LEMMA ListAfterMoreServed == ASSUME ListInv, Lists!MoreServed PROVE ListInv'
  <1> USE DEF ListInv
  <1> DEFINE m == v5.after[1] \in v8
  <1>1. /\ v5.state = "asked" /\ v5' = [Lists!Page(v5) EXCEPT !.moved = m]
        /\ UNCHANGED <<v1, v2, v3, v4, v6, v8, v9, v10>>
    BY DEF Lists!MoreServed
  <1>2. /\ v5 \in ListRequest /\ v5.items = <<>> /\ v5.next = None /\ v5.after # None
        /\ v5.after \in AnyPlace /\ PlaceStands(v5.after)
    BY <1>1 DEF ListAnswers, ListRequest
  <1>3. m \in BOOLEAN /\ (~m => v5.after[1] \notin v8)
    OBVIOUS
  <1>4. PICK q \in ListRequest :
          /\ q = Lists!Page(v5) /\ PlaceStands(q.next) /\ q.state \in {"answered", "failed"}
          /\ q.state = "failed" => q.items = <<>> /\ q.next = None /\ q.after = None
          /\ q.state = "answered" => q.after = v5.after /\ (~m => PageTellsOf(q))
    <2>1. CASE v1 = "search" \/ v5.after[1] \notin Lists!Public
      <3>1. Lists!Page(v5) = Lists!Failed
        BY <1>2, <2>1 DEF Lists!Page
      <3> QED
        BY <3>1, NoRequestIsTyped DEF PlaceStands
    <2>2. CASE v1 # "search" /\ v5.after[1] \in Lists!Public
      <3> DEFINE d == v2[v5.after[1]]
                 s == Lists!After(d)
      <3>1. Lists!Page(v5) = Lists!PageOf(v5, s)
        BY <1>2, <2>2 DEF Lists!Page
      <3>2. d \in Nat /\ \A e \in PublicEntries : v2[e] \in Nat
        BY <1>2, DaysAssumption DEF ListTypes, AnyPlace
      <3>3. ~m => d = v5.after[2]
        BY <1>2, <1>3 DEF PlaceStands
      <3> HIDE DEF d
      <3>4. s \in SUBSET Lists!Public /\ \A e \in s, o \in Lists!Public : v2[o] < v2[e] => o \in s
        BY <3>2 DEF Lists!After, Lists!Public
      <3>5. \A e \in Lists!Public : e \in s <=> v2[e] < d
        BY DEF Lists!After
      <3> DEFINE q == Lists!PageOf(v5, s)
      <3>6. /\ q \in ListRequest /\ q.state = "answered" /\ q.after = v5.after
            /\ s = {} => q.next = None
            /\ s # {} => \E x \in ListItem : q.next \in {None, PlaceOf(x)} /\ v2[x[1]] = x[2]
        BY <1>2, <3>4, PageIsOf DEF ListTypes
      <3>7. ~m => PageTellsOf(q)
        BY <1>2, <3>3, <3>4, <3>5, PageTells DEF ListTypes
      <3> HIDE DEF s, q
      <3>8. PlaceStands(q.next)
        BY <3>6 DEF PlaceStands, PlaceOf
      <3> QED
        BY <3>1, <3>6, <3>7, <3>8 DEF q
    <2> QED
      BY <2>1, <2>2
  <1> HIDE DEF m
  <1>5. /\ v5' \in ListRequest /\ v5'.state = q.state /\ v5'.after = q.after /\ v5'.items = q.items
        /\ v5'.next = q.next /\ v5'.moved = m
    BY <1>1, <1>3, <1>4 DEF ListRequest
  <1>6. PlaceStands(v5'.after) /\ PlaceStands(v5'.next)
    BY <1>2, <1>4, <1>5 DEF PlaceStands
  <1>7. v5'.state = "answered" /\ ~v5'.moved => PageTellsOf(v5')
    BY <1>4, <1>5 DEF PageTellsOf
  <1>8. ListAnswers'
    BY <1>1, <1>2, <1>4, <1>5, <1>6, <1>7 DEF ListAnswers, PlaceStands, PageTellsOf, Lists!Public
  <1> QED
    BY <1>1, <1>8, ListStays

LEMMA ListAfterMoreArrives == ASSUME ListInv, Lists!MoreArrives PROVE ListInv'
  <1> USE DEF ListInv
  <1>1. /\ v5.state \in {"answered", "failed"} /\ v5' = Lists!NoRequest
        /\ UNCHANGED <<v1, v2, v6, v8, v10>>
    BY DEF Lists!MoreArrives
  <1>2. CASE UNCHANGED <<v3, v4, v9>>
    <2>1. ListAnswers'
      BY <1>1, <1>2, NoRequestIsTyped DEF ListAnswers, PlaceStands, PageTellsOf, Lists!Public
    <2> QED
      BY <1>1, <1>2, <2>1, ListStays
  <1>3. CASE /\ v3' = Lists!Merged(v3, v5.items) /\ v4' = v5.next
             /\ v9' = (v9 \/ v5.state = "failed" \/ v5.moved \/ v5.after # v4)
    <2>1. /\ v5 \in ListRequest /\ v5.items \in OnePage /\ v5.next \in AnyPlace \cup {None}
          /\ PlaceStands(v5.next)
      BY DEF ListAnswers, ListRequest
    <2> DEFINE m == Lists!Merged(v3, v5.items)
    <2>2. /\ m \in Seq(ListItem) /\ NoneTwice(m)
          /\ v5.items = <<>> => NamesOf(m) = NamesOf(v3)
          /\ \A p \in ListItem : v5.items = <<p>> => NamesOf(m) = NamesOf(v3) \cup {p[1]}
      BY <2>1, Merging DEF ListTypes
    <2> HIDE DEF m
    <2>3. v9' \in BOOLEAN
      BY <1>3
    <2>4. ListTypes'
      BY <1>1, <1>3, <2>1, <2>2, <2>3 DEF ListTypes, m
    <2>5. ListDays' /\ NoneTwice(v3)'
      BY <1>1, <1>3, <2>2 DEF ListDays, NoneTwice, m
    <2>6. ListAnswers'
      BY <1>1, <1>3, <2>1, NoRequestIsTyped DEF ListAnswers, PlaceStands, PageTellsOf, Lists!Public
    <2>7. ListReaches'
      <3>0. Lists!Public' = Lists!Public
        BY <1>1 DEF Lists!Public
      <3> SUFFICES ASSUME ~v9' PROVE
               /\ \A e \in Lists!Public \ v8 : e \in NamesOf(m) \/ (v4' # None /\ v2[e] < v4'[2])
               /\ \A o \in NamesOf(m) \ v8 : v4' # None => v2[o] >= v4'[2]
        BY <1>1, <1>3, <3>0 DEF ListReaches, NamesOf, Lists!Listed, m
      <3>1. /\ v9 = FALSE /\ v5.state = "answered" /\ PageTellsOf(v5) /\ v5.after = v4 /\ v4 # None
            /\ v4 \in AnyPlace
        BY <1>1, <1>3 DEF ListTypes, ListAnswers
      <3>2. /\ \A e \in Lists!Public \ v8 : e \in NamesOf(v3) \/ v2[e] < v4[2]
            /\ \A o \in NamesOf(v3) \ v8 : v2[o] >= v4[2]
        BY <3>1 DEF ListReaches
      <3>3. \A e \in Lists!Public \ v8 : v2[e] < v4[2] =>
              \E x \in ListItem : v5.items = <<x>> /\ (e = x[1] \/ (v5.next = PlaceOf(x) /\ v2[e] < x[2]))
        BY <3>1 DEF PageTellsOf
      <3>4. ASSUME NEW e \in Lists!Public \ v8
            PROVE  e \in NamesOf(m) \/ (v4' # None /\ v2[e] < v4'[2])
        <4>1. CASE e \in NamesOf(v3)
          BY <2>1, <2>2, <4>1 DEF OnePage
        <4>2. CASE v2[e] < v4[2]
          <5> PICK x \in ListItem : v5.items = <<x>> /\ (e = x[1] \/ (v5.next = PlaceOf(x) /\ v2[e] < x[2]))
            BY <3>3, <3>4, <4>2
          <5>1. PlaceOf(x) # None /\ PlaceOf(x)[2] = x[2]
            BY NoneAssumption DEF ListItem, PlaceOf
          <5> QED
            BY <1>3, <2>2, <5>1
        <4> QED
          BY <3>2, <3>4, <4>1, <4>2
      <3>5. ASSUME NEW o \in NamesOf(m) \ v8, v4' # None PROVE v2[o] >= v4'[2]
        <4>1. PICK p \in ListItem : v5.items = <<p>> /\ v4' = PlaceOf(p)
          BY <1>3, <2>1, <3>1, <3>5 DEF PageTellsOf, OnePage
        <4>2. /\ PlaceStands(PlaceOf(p)) /\ p[2] < v4[2] /\ p[2] \in Nat /\ v4[2] \in Nat
              /\ PlaceOf(p) # None /\ PlaceOf(p)[1] = p[1] /\ PlaceOf(p)[2] = p[2]
          BY <3>1, <4>1, NoneAssumption DEF PageTellsOf, AnyPlace, ListItem, PlaceOf
        <4>3. CASE o \in NamesOf(v3)
          <5>1. v2[o] >= v4[2] /\ o \in PublicEntries
            BY <3>2, <3>5, <4>3 DEF ListTypes, NamesOf, Lists!Listed, ListItem
          <5>2. v2[o] \in Nat
            BY <5>1, DaysAssumption DEF ListTypes
          <5> QED
            BY <4>1, <4>2, <5>1, <5>2
        <4>4. CASE o = p[1]
          <5>1. v2[o] = p[2]
            BY <3>5, <4>1, <4>2, <4>4 DEF PlaceStands
          <5> QED
            BY <4>1, <4>2, <5>1
        <4> QED
          BY <2>2, <3>5, <4>1, <4>3, <4>4
      <3> QED
        BY <3>4, <3>5
    <2> QED
      BY <2>4, <2>5, <2>6, <2>7
  <1> QED
    BY <1>2, <1>3 DEF Lists!MoreArrives

\* a page that names one entry or none has none twice
LEMMA OnePageIsDistinct ==
  ASSUME NEW page \in OnePage
  PROVE  /\ page \in Seq(ListItem) /\ NoneTwice(page)
         /\ page = <<>> => NamesOf(page) = {}
         /\ \A p \in ListItem : page = <<p>> => NamesOf(page) = {p[1]}
  <1>1. CASE page = <<>>
    BY <1>1 DEF NoneTwice, NamesOf, Lists!Listed
  <1>2. ASSUME NEW p \in ListItem, page = <<p>>
        PROVE  page \in Seq(ListItem) /\ NoneTwice(page) /\ NamesOf(page) = {p[1]}
    <2>1. page \in Seq(ListItem) /\ Len(page) = 1 /\ page[1] = p
      BY <1>2
    <2>2. Lists!Listed(page) = {p}
      BY <2>1 DEF Lists!Listed
    <2> QED
      BY <2>1, <2>2 DEF NoneTwice, NamesOf
  <1> QED
    BY <1>1, <1>2 DEF OnePage

\* the list that a first page begins reaches to its cursor
LEMMA FirstPageReaches ==
  ASSUME ListTypes, NEW r \in ListRequest, PageTellsOf(r), r.after = None
  PROVE  /\ \A e \in Lists!Public \ v8 :
              e \in NamesOf(r.items) \/ (r.next # None /\ v2[e] < r.next[2])
         /\ \A o \in NamesOf(r.items) \ v8 : r.next # None => v2[o] >= r.next[2]
  <1>0. r.items \in OnePage
    BY DEF ListRequest
  <1>1. ASSUME NEW e \in Lists!Public \ v8
        PROVE  e \in NamesOf(r.items) \/ (r.next # None /\ v2[e] < r.next[2])
    <2> PICK x \in ListItem : r.items = <<x>> /\ (e = x[1] \/ (r.next = PlaceOf(x) /\ v2[e] < x[2]))
      BY <1>1 DEF PageTellsOf
    <2>1. PlaceOf(x) # None /\ PlaceOf(x)[2] = x[2] /\ NamesOf(r.items) = {x[1]}
      BY <1>0, NoneAssumption, OnePageIsDistinct DEF ListItem, PlaceOf
    <2> QED
      BY <2>1
  <1>2. ASSUME NEW o \in NamesOf(r.items) \ v8, r.next # None PROVE v2[o] >= r.next[2]
    <2>1. PICK p \in ListItem : r.items = <<p>> /\ r.next = PlaceOf(p) /\ PlaceStands(PlaceOf(p))
      BY <1>0, <1>2 DEF PageTellsOf, OnePage
    <2>2. o = p[1] /\ p[2] \in Nat
      BY <1>0, <1>2, <2>1, OnePageIsDistinct DEF ListItem
    <2> QED
      BY <1>2, <2>1, <2>2, NoneAssumption DEF PlaceStands, ListItem, PlaceOf
  <1> QED
    BY <1>1, <1>2

LEMMA ListAfterRefreshArrives == ASSUME ListInv, Lists!RefreshArrives PROVE ListInv'
  <1> USE DEF ListInv
  <1>1. /\ v6.state \in {"answered", "failed"} /\ v6' = Lists!NoRequest
        /\ v3' = v6.items /\ v4' = v6.next /\ v9' = (v6.state = "failed")
        /\ UNCHANGED <<v1, v2, v5, v8, v10>>
    BY DEF Lists!RefreshArrives
  <1>2. /\ v6 \in ListRequest /\ v6.items \in OnePage /\ v6.next \in AnyPlace \cup {None}
        /\ PlaceStands(v6.next) /\ v6.after = None
    BY DEF ListAnswers, ListRequest
  <1>3. v9' \in BOOLEAN
    BY <1>1
  <1>4. ListTypes'
    BY <1>1, <1>2, <1>3, OnePageIsDistinct DEF ListTypes
  <1>5. ListDays' /\ NoneTwice(v3)'
    BY <1>1, <1>2, OnePageIsDistinct DEF ListDays, NoneTwice
  <1>6. ListAnswers'
    BY <1>1, <1>2, NoRequestIsTyped DEF ListAnswers, PlaceStands, PageTellsOf, Lists!Public
  <1>7. ListReaches'
    <2>0. Lists!Public' = Lists!Public
      BY <1>1 DEF Lists!Public
    <2> SUFFICES ASSUME ~v9' PROVE
             /\ \A e \in Lists!Public \ v8 :
                  e \in NamesOf(v6.items) \/ (v6.next # None /\ v2[e] < v6.next[2])
             /\ \A o \in NamesOf(v6.items) \ v8 : v6.next # None => v2[o] >= v6.next[2]
      BY <1>1, <2>0 DEF ListReaches, NamesOf, Lists!Listed
    <2>1. PageTellsOf(v6)
      BY <1>1 DEF ListAnswers
    <2> QED
      BY <1>2, <2>1, FirstPageReaches
  <1> QED
    BY <1>4, <1>5, <1>6, <1>7

ListPart == part = "lists" => ListInv

\* The lists begin so, and every step of the web client keeps it so.
LEMMA ListInitial == WebInit => ListPart
  <1> SUFFICES ASSUME WebInit, part = "lists" PROVE ListInv
    BY DEF ListPart
  <1>1. Lists!ListInit
    BY DEF WebInit
  <1> DEFINE q == Lists!Page(Lists!NoRequest)
  <1>2. /\ v1 \in {"timeline", "category", "tag", "search"} /\ v2 \in [PublicEntries -> EntryDays]
        /\ v3 = q.items /\ v4 = q.next /\ v5 = Lists!NoRequest /\ v6 = Lists!NoRequest
        /\ v8 = {} /\ v9 = FALSE /\ v10 \subseteq PublicEntries
    BY <1>1 DEF Lists!ListInit
  <1>3. ListDays
    BY <1>1 DEF Lists!ListInit, ListDays
  <1>4. q = Lists!PageOf(Lists!NoRequest, Lists!Public)
    BY NoRequestIsTyped DEF Lists!Page

  <1>5. /\ q \in ListRequest /\ q.after = None /\ PageTellsOf(q) /\ PlaceStands(q.next)
    BY <1>2, <1>3, <1>4, NoRequestIsTyped, PageTells DEF Lists!Public
  <1> HIDE DEF q
  <1>6. q.items \in OnePage /\ q.next \in AnyPlace \cup {None}
    BY <1>5 DEF ListRequest
  <1>7. ListTypes
    BY <1>2, <1>6, OnePageIsDistinct DEF ListTypes
  <1>8. ListAnswers
    BY <1>2, <1>5, NoRequestIsTyped DEF ListAnswers, PlaceStands
  <1>9. ListReaches
    BY <1>2, <1>5, <1>7, FirstPageReaches DEF ListReaches
  <1>10. NoneTwice(v3)
    BY <1>2, <1>6, OnePageIsDistinct
  <1> QED
    BY <1>3, <1>7, <1>8, <1>9, <1>10 DEF ListInv

LEMMA ListStep == ListPart /\ [WebNext]_web => ListPart'
  <1> SUFFICES ASSUME ListPart, [WebNext]_web, part' = "lists" PROVE ListInv'
    BY DEF ListPart
  <1>1. CASE UNCHANGED web
    <2>1. ListInv /\ UNCHANGED <<v1, v2, v3, v4, v5, v6, v8, v9, v10>>
      BY <1>1 DEF web, ListPart
    <2>2. ListAnswers'
      BY <2>1 DEF ListInv, ListAnswers, PlaceStands, PageTellsOf, Lists!Public
    <2> QED
      BY <2>1, <2>2, ListStays
  <1>2. CASE WebNext
    <2>1. part = "lists" /\ Lists!ListNext
      BY <1>2 DEF WebNext, Rest13, Rest11, Rest10, Rest9, Rest6
    <2>2. ListInv
      BY <2>1 DEF ListPart
    <2> QED
      BY <2>1, <2>2, ListAfterEdits, ListAfterLoadsMore, ListAfterRefreshes,
         ListAfterNetworkFails, ListAfterRefreshServed, ListAfterMoreServed,
         ListAfterMoreArrives, ListAfterRefreshArrives
         DEF Lists!ListNext
  <1> QED
    BY <1>1, <1>2

\* The invariant is what the list promises.
LEMMA ListMeans == ASSUME ListInv PROVE Lists!ListIsWhole
  <1>1. Lists!Names = NamesOf(v3) /\ v3 \in Seq(ListItem) /\ NamesOf(v3) \subseteq PublicEntries
    BY DEF ListInv, ListTypes, Lists!Names, NamesOf, Lists!Listed, ListItem
  <1>2. ASSUME NEW i \in DOMAIN v3, NEW j \in DOMAIN v3, i # j
        PROVE  /\ v1 = "timeline" => v3[i] # v3[j] \/ ~v3[i][3]
               /\ v1 = "category" => v3[i][1] # v3[j][1]
    BY <1>1, <1>2 DEF ListInv, NoneTwice
  <1>3. ASSUME NEW e \in Lists!Public \ v8, e \notin NamesOf(v3), ~v9
        PROVE  v4 # None /\ \A o \in NamesOf(v3) \ v8 : v2[o] > v2[e]
    <2>1. v4 # None /\ v2[e] < v4[2] /\ \A o \in NamesOf(v3) \ v8 : v2[o] >= v4[2]
      BY <1>3 DEF ListInv, ListReaches
    <2>2. v4[2] \in Nat /\ e \in PublicEntries /\ \A o \in PublicEntries : v2[o] \in Nat
      BY <2>1, DaysAssumption DEF ListInv, ListTypes, AnyPlace, Lists!Public
    <2> QED
      BY <1>1, <2>1, <2>2
  <1>4. ASSUME NEW e \in Lists!Public \ v8
        PROVE  \/ e \in Lists!Names \/ v9
               \/ v4 # None /\ \A o \in Lists!Names \ v8 : v2[o] > v2[e]
    BY <1>1, <1>3, <1>4
  <1> QED
    BY <1>2, <1>4 DEF Lists!ListIsWhole

\* The calendar speaks of the month and the day above it, and a list that is loaded page
\* by page names every public entry nobody touched, up to where it was loaded, for every
\* set of entries and days and whatever is edited while pages are on their way; but for
\* the pages of the timeline that fail or are overtaken and the entry at the cursor that
\* is changed.  Of a search that is its first page.
THEOREM ReadersPromise == WebSpec => []ReadersMissNothing
  <1>1. CalendarPart /\ ListPart => ReadersMissNothing
    BY ListMeans DEF CalendarPart, CalendarInv, ListPart, ReadersMissNothing
  <1> QED
    BY <1>1, CalendarInitial, CalendarStep, ListInitial, ListStep, PTL DEF WebSpec

-----------------------------------------------------------------------------
(* The offline cache (PageCache) *)

\* The values of the cache: the fetches and messages under way.
AnyFetch == [id : Nat, page : Cache!Pages, asked : Nat, version : Nat, quiet : BOOLEAN,
          state : {"asked", "answered", "storing"}, late : BOOLEAN]

AnyMessage == [version : Nat, state : {"posted", "deleting"}, keys : SUBSET Cache!Pages]

IsServed(f) == f.state \in {"answered", "storing"}

\* What the variables hold.
CacheTypes ==
  LET content == v1  cache == v3  fetches == v4  messages == v5  shown == v6  turns == v7
      floor == v8  late == v9
  IN  /\ content \in Nat /\ floor \in Nat /\ turns \in Nat
      /\ cache \in [Cache!Pages -> Nat \cup {None}]
      /\ fetches \subseteq AnyFetch /\ messages \subseteq AnyMessage /\ late \subseteq Cache!Pages
      /\ shown.version \in Nat /\ shown.wanted \in Nat

\* no version is ahead of the content, no answer behind what was evicted when it was asked for
CacheVersions ==
  LET content == v1  fetches == v4  messages == v5  floor == v8
  IN  /\ floor <= content
      /\ \A m \in messages : m.version <= content
      /\ \A f \in fetches : f.asked <= floor /\ (IsServed(f) => f.asked <= f.version)

\* but for the late ones, no answer still to be put away is older than n
AnswersFrom(n) ==
  LET fetches == v4
  IN  \A f \in fetches : IsServed(f) /\ f.page = "article" /\ ~f.late => f.version >= n

\* nor is the article in the cache
CachedFrom(n) ==
  LET cache == v3  late == v9
  IN  "article" \in late \/ cache["article"] = None \/ cache["article"] >= n

\* An eviction that is done, or that has looked for what it is to delete, leaves nothing older.
CacheEvictions ==
  LET messages == v5  floor == v8
  IN  /\ AnswersFrom(floor) /\ CachedFrom(floor)
      /\ \A m \in messages : m.state = "deleting" =>
           AnswersFrom(m.version) /\ ("article" \in m.keys \/ CachedFrom(m.version))

\* The article on the page is the wanted one, unless it was late.
CacheShows ==
  LET shown == v6
  IN  shown.page = "article" => shown.late \/ shown.version >= shown.wanted

\* The inductive invariant of the offline cache.
CacheInv == CacheTypes /\ CacheVersions /\ CacheEvictions /\ CacheShows

\* What most steps leave alone.
LEMMA CacheStays ==
  ASSUME CacheInv, UNCHANGED <<v1, v3, v4, v5, v6, v8, v9>>, v7' \in Nat PROVE CacheInv'
  BY DEF CacheInv, CacheTypes, CacheVersions, CacheEvictions, AnswersFrom, CachedFrom, CacheShows

\* Fewer answers to be put away, and none that is older: the evictions stay.
LEMMA EvictionsStay ==
  ASSUME CacheTypes, CacheEvictions, UNCHANGED <<v3, v5, v8, v9>>,
         \A f \in v4' : f \in v4 \/ ~IsServed(f) \/ f.late \/ f.page # "article"
                        \/ \E g \in v4 : IsServed(g) /\ ~g.late /\ g.page = "article" /\ f.version = g.version
  PROVE  CacheEvictions'
  <1>1. ASSUME NEW n \in Nat, AnswersFrom(n) PROVE AnswersFrom(n)'
    BY <1>1 DEF AnswersFrom
  <1>2. ASSUME NEW n \in Nat, CachedFrom(n) PROVE CachedFrom(n)'
    BY <1>2 DEF CachedFrom
  <1>3. v8 \in Nat /\ \A m \in v5 : m.version \in Nat
    BY DEF CacheTypes, AnyMessage
  <1> QED
    BY <1>1, <1>2, <1>3 DEF CacheEvictions

\* Each action of PageCache keeps the invariant.
LEMMA CacheAfterRegisters == CacheInv /\ Cache!Registers => CacheInv'
  BY CacheStays DEF Cache!Registers, Cache!Turn, CacheInv, CacheTypes

LEMMA CacheAfterActivates == CacheInv /\ Cache!Activates => CacheInv'
  <1> SUFFICES ASSUME CacheInv, Cache!Activates PROVE CacheInv'
    OBVIOUS
  <1> USE DEF CacheInv
  <1>1. UNCHANGED <<v1, v4, v5, v6, v7, v8>>
    BY DEF Cache!Activates
  <1>2. /\ v3' \in [Cache!Pages -> Nat \cup {None}] /\ v9' \subseteq v9
        /\ v3'["article"] = v3["article"] /\ ("article" \in v9 => "article" \in v9')
    BY DEF Cache!Activates, Cache!Pages, Cache!AppShell, CacheTypes
  <1>3. CacheTypes'
    BY <1>1, <1>2 DEF CacheTypes
  <1>4. CacheVersions' /\ CacheShows'
    BY <1>1 DEF CacheVersions, CacheShows
  <1>5. CacheEvictions'
    BY <1>1, <1>2 DEF CacheEvictions, AnswersFrom, CachedFrom
  <1> QED
    BY <1>3, <1>4, <1>5

LEMMA CacheAfterRemovesWorker == CacheInv /\ Cache!RemovesWorker => CacheInv'
  <1> SUFFICES ASSUME CacheInv, Cache!RemovesWorker PROVE CacheInv'
    OBVIOUS
  <1> USE DEF CacheInv
  <1>1. /\ v7' = v7 + 1 /\ v3' = [p \in Cache!Pages |-> None] /\ v9' = {}
        /\ UNCHANGED <<v1, v4, v5, v6, v8>>
    BY DEF Cache!RemovesWorker, Cache!Turn
  <1>2. v3'["article"] = None
    BY <1>1 DEF Cache!Pages
  <1>3. CacheTypes'
    BY <1>1 DEF CacheTypes
  <1>4. CacheVersions' /\ CacheShows'
    BY <1>1 DEF CacheVersions, CacheShows
  <1>5. CacheEvictions'
    BY <1>1, <1>2 DEF CacheEvictions, AnswersFrom, CachedFrom
  <1> QED
    BY <1>3, <1>4, <1>5

LEMMA CacheAfterReloads == CacheInv /\ Cache!Reloads => CacheInv'
  BY CacheStays DEF Cache!Reloads, CacheInv, CacheTypes

LEMMA CacheAfterChanges == CacheInv /\ Cache!Changes => CacheInv'
  <1> SUFFICES ASSUME CacheInv, Cache!Changes PROVE CacheInv'
    OBVIOUS
  <1> USE DEF CacheInv
  <1> DEFINE m == [version |-> v1 + 1, state |-> "posted", keys |-> {}]
  <1>1. v1' = v1 + 1 /\ v5' \subseteq v5 \cup {m} /\ UNCHANGED <<v2, v3, v4, v6, v7, v8, v9>>
    BY DEF Cache!Changes
  <1>2. m \in AnyMessage /\ m.version = v1 + 1 /\ m.state = "posted"
    BY DEF CacheTypes, AnyMessage
  <1> HIDE DEF m
  <1>3. CacheTypes' /\ CacheVersions' /\ CacheShows'
    BY <1>1, <1>2 DEF CacheTypes, CacheVersions, CacheShows, AnyMessage
  <1>4. CacheEvictions'
    BY <1>1, <1>2 DEF CacheEvictions, AnswersFrom, CachedFrom
  <1> QED
    BY <1>3, <1>4

LEMMA CacheAfterFetches == ASSUME CacheInv, NEW p \in Cache!Pages, Cache!Fetches(p) PROVE CacheInv'
  <1> USE DEF CacheInv
  <1> DEFINE quiet == Cache!FromCache(p)
             f == [id |-> v7, page |-> p, asked |-> v8, version |-> 0, quiet |-> quiet,
                   state |-> "asked", late |-> FALSE]
  <1>1. /\ v4' \subseteq v4 \cup {f} /\ v7' = v7 + 1 /\ UNCHANGED <<v1, v2, v3, v5, v8, v9>>
        /\ v6' = IF quiet THEN [page |-> p, version |-> v3[p], wanted |-> v8, from |-> "cache",
                                late |-> p \in v9]
                 ELSE v6
    BY DEF Cache!Fetches, Cache!Turn
  <1>2. quiet \in BOOLEAN /\ (quiet => p \in {"image", "asset"} /\ v3[p] # None)
    BY DEF Cache!FromCache
  <1> HIDE DEF quiet
  <1>3. f \in AnyFetch /\ f.asked = v8 /\ ~IsServed(f)
    BY <1>2 DEF CacheTypes, AnyFetch, IsServed
  <1> HIDE DEF f
  <1>4. CacheTypes'
    BY <1>1, <1>2, <1>3 DEF CacheTypes
  <1>5. CacheVersions'
    BY <1>1, <1>3 DEF CacheTypes, CacheVersions
  <1>6. CacheEvictions'
    BY <1>1, <1>3, EvictionsStay
  <1>7. CacheShows'
    BY <1>1, <1>2 DEF CacheShows
  <1> QED
    BY <1>4, <1>5, <1>6, <1>7

LEMMA CacheAfterServed == ASSUME CacheInv, NEW f \in v4, Cache!Served(f) PROVE CacheInv'
  <1> USE DEF CacheInv
  <1> DEFINE g == [f EXCEPT !.state = "answered", !.version = v1]
  <1>1. /\ v4' = (v4 \ {f}) \cup {g} /\ UNCHANGED <<v1, v2, v3, v5, v6, v7, v8, v9>>
    BY DEF Cache!Served, Cache!Put
  <1>2. g \in AnyFetch /\ g.asked = f.asked /\ g.version = v1
    BY DEF CacheTypes, AnyFetch
  <1> HIDE DEF g
  <1>4. CacheTypes'
    BY <1>1, <1>2 DEF CacheTypes
  <1>5. CacheVersions'
    BY <1>1, <1>2 DEF CacheTypes, CacheVersions, AnyFetch
  <1>6. CacheEvictions'
    <2>1. ASSUME NEW n \in Nat, n <= v1, AnswersFrom(n) PROVE AnswersFrom(n)'
      BY <1>1, <1>2, <2>1 DEF AnswersFrom, CacheTypes
    <2>2. ASSUME NEW n \in Nat, CachedFrom(n) PROVE CachedFrom(n)'
      BY <1>1, <2>2 DEF CachedFrom
    <2>3. v8 \in Nat /\ v8 <= v1 /\ \A m \in v5 : m.version \in Nat /\ m.version <= v1
      BY DEF CacheTypes, CacheVersions, AnyMessage
    <2> QED
      BY <1>1, <2>1, <2>2, <2>3 DEF CacheEvictions
  <1>7. CacheShows'
    BY <1>1, <1>2 DEF CacheShows
  <1> QED
    BY <1>4, <1>5, <1>6, <1>7

LEMMA CacheAfterArrives == ASSUME CacheInv, NEW f \in v4, Cache!Arrives(f) PROVE CacheInv'
  <1> USE DEF CacheInv
  <1> DEFINE g == [f EXCEPT !.state = "storing"]
  <1>1. /\ v4' \subseteq (v4 \ {f}) \cup {g} /\ UNCHANGED <<v1, v2, v3, v5, v7, v8, v9>>
        /\ v6' = IF f.quiet THEN v6
                 ELSE [page |-> f.page, version |-> f.version, wanted |-> f.asked,
                       from |-> "network", late |-> FALSE]
        /\ IsServed(f)
    BY DEF Cache!Arrives, Cache!Put, IsServed
  <1>2. /\ g \in AnyFetch /\ g.asked = f.asked /\ g.version = f.version /\ g.page = f.page
        /\ g.late = f.late /\ f.asked \in Nat /\ f.version \in Nat
    BY DEF CacheTypes, AnyFetch
  <1> HIDE DEF g
  <1>4. CacheTypes'
    BY <1>1, <1>2 DEF CacheTypes
  <1>5. CacheVersions'
    BY <1>1, <1>2 DEF CacheTypes, CacheVersions, AnyFetch
  <1>6. CacheEvictions'
    BY <1>1, <1>2, EvictionsStay
  <1>7. CacheShows'
    BY <1>1, <1>2 DEF CacheShows, CacheVersions
  <1> QED
    BY <1>4, <1>5, <1>6, <1>7

LEMMA CacheAfterStored == ASSUME CacheInv, NEW f \in v4, Cache!Stored(f) PROVE CacheInv'
  <1> USE DEF CacheInv
  <1>1. /\ v4' = v4 \ {f} /\ v3' = [v3 EXCEPT ![f.page] = f.version] /\ IsServed(f)
        /\ v9' = IF f.late THEN v9 \cup {f.page} ELSE v9 \ {f.page}
        /\ UNCHANGED <<v1, v2, v5, v6, v7, v8>>
    BY DEF Cache!Stored, IsServed
  <1>2. f.version \in Nat /\ f.page \in Cache!Pages /\ "article" \in Cache!Pages
    BY DEF CacheTypes, AnyFetch, Cache!Pages
  <1>3. /\ v3' \in [Cache!Pages -> Nat \cup {None}]
        /\ v3'["article"] = IF f.page = "article" THEN f.version ELSE v3["article"]
    BY <1>1, <1>2 DEF CacheTypes
  <1>4. CacheTypes' /\ CacheVersions' /\ CacheShows'
    BY <1>1, <1>2, <1>3 DEF CacheTypes, CacheVersions, CacheShows
  <1>6. CacheEvictions'
    <2>1. ASSUME NEW n \in Nat, AnswersFrom(n) PROVE AnswersFrom(n)'
      BY <1>1, <2>1 DEF AnswersFrom
    <2>2. ASSUME NEW n \in Nat, AnswersFrom(n), CachedFrom(n) PROVE CachedFrom(n)'
      BY <1>1, <1>3, <2>2 DEF AnswersFrom, CachedFrom
    <2>3. v8 \in Nat /\ \A m \in v5 : m.version \in Nat
      BY DEF CacheTypes, AnyMessage
    <2> QED
      BY <1>1, <2>1, <2>2, <2>3 DEF CacheEvictions
  <1> QED
    BY <1>4, <1>6

LEMMA CacheAfterNetworkFails == ASSUME CacheInv, NEW f \in v4, Cache!NetworkFails(f) PROVE CacheInv'
  <1> USE DEF CacheInv
  <1> DEFINE p == Cache!Fallback(f)
             error == [Cache!NoShown EXCEPT !.from = "error"]
             old == [page |-> p, version |-> v3[p], wanted |-> f.asked, from |-> "cache",
                     late |-> p \in v9]
  <1>0. error.version = 0 /\ error.wanted = 0
    BY DEF Cache!NoShown
  <1>1. /\ v4' = v4 \ {f} /\ v7' = v7 + 1 /\ UNCHANGED <<v1, v2, v3, v5, v8, v9>>
        /\ v6' \in {v6, error} \/ (v3[p] # None /\ v6' = old)
    <2>1. v4' = v4 \ {f} /\ v7' = v7 + 1 /\ UNCHANGED <<v1, v2, v3, v5, v8, v9>>
      BY DEF Cache!NetworkFails, Cache!Turn
    <2>2. v6' = IF f.quiet THEN v6
                ELSE IF f.page \in {"image", "asset"} \/ v3[p] = None
                THEN error
                ELSE old
      BY DEF Cache!NetworkFails
    <2> HIDE DEF p, error, old
    <2> QED
      BY <2>1, <2>2
  <1>2. p \in Cache!Pages /\ f.asked \in Nat /\ f.asked <= v8
    BY DEF Cache!Fallback, CacheTypes, CacheVersions, AnyFetch, Cache!Pages
  <1> HIDE DEF p, error
  <1>4. CacheTypes' /\ CacheVersions'
    BY <1>0, <1>1, <1>2 DEF CacheTypes, CacheVersions
  <1>5. CacheEvictions'
    BY <1>1, EvictionsStay
  <1>6. CacheShows'
    <2>1. p = "article" => p \in v9 \/ v3[p] = None \/ v3[p] >= v8
      BY DEF CacheEvictions, CachedFrom
    <2>2. v3[p] \in Nat \cup {None} /\ v8 \in Nat
      BY <1>2 DEF CacheTypes
    <2>3. ASSUME p = "article", v3[p] # None PROVE p \in v9 \/ v3[p] >= f.asked
      BY <1>2, <2>1, <2>2, <2>3
    <2>4. CASE v6' = v6
      BY <2>4 DEF CacheShows
    <2>5. CASE v6' = error
      BY <1>0, <2>5 DEF CacheShows
    <2>6. CASE v3[p] # None /\ v6' = old
      BY <2>3, <2>6 DEF CacheShows
    <2> QED
      BY <1>1, <2>4, <2>5, <2>6
  <1> QED
    BY <1>4, <1>5, <1>6

LEMMA CacheAfterReadsKeys == ASSUME CacheInv, NEW m \in v5, Cache!ReadsKeys(m) PROVE CacheInv'
  <1> USE DEF CacheInv
  <1> DEFINE keys == {p \in Cache!Pages : v3[p] # None}
             n == [m EXCEPT !.state = "deleting", !.keys = keys]
             Marked(f) == [f EXCEPT !.late = @ \/ Cache!Overtaken(f, m)]
  <1>1. /\ v5' = (v5 \ {m}) \cup {n} /\ v4' = {Marked(f) : f \in v4}
        /\ UNCHANGED <<v1, v2, v3, v6, v7, v8, v9>>
    BY DEF Cache!ReadsKeys
  <1>2. n \in AnyMessage /\ n.version = m.version /\ n.keys = keys
    BY DEF CacheTypes, AnyMessage
  <1>3. "article" \in keys \/ v3["article"] = None
    BY DEF Cache!Pages
  <1>4. ASSUME NEW f \in v4
        PROVE  /\ Marked(f) \in AnyFetch /\ Marked(f).asked = f.asked /\ Marked(f).state = f.state
               /\ Marked(f).version = f.version /\ Marked(f).page = f.page
               /\ f.late => Marked(f).late
               /\ IsServed(f) /\ f.version < m.version => Marked(f).late
    <2>1. f \in AnyFetch /\ Cache!Overtaken(f, m) \in BOOLEAN
      BY DEF CacheTypes, Cache!Overtaken
    <2>2. f.late \in BOOLEAN
      BY <2>1 DEF AnyFetch
    <2> DEFINE b == f.late \/ Cache!Overtaken(f, m)
    <2>3. b \in BOOLEAN /\ (f.late => b) /\ (IsServed(f) /\ f.version < m.version => b)
      BY <2>1, <2>2 DEF Cache!Overtaken, IsServed
    <2>4. Marked(f) = [f EXCEPT !.late = b]
      BY Zenon
    <2> HIDE DEF b, Marked
    <2> QED
      BY <2>1, <2>3, <2>4 DEF AnyFetch
  <1> HIDE DEF n, keys, Marked
  <1>5. CacheTypes'
    BY <1>1, <1>2, <1>4 DEF CacheTypes
  <1>6. CacheVersions' /\ CacheShows'
    BY <1>1, <1>2, <1>4 DEF CacheVersions, CacheShows, IsServed
  <1>7. CacheEvictions'
    <2>1. ASSUME NEW k, AnswersFrom(k) PROVE AnswersFrom(k)'
      BY <1>1, <1>4, <2>1 DEF AnswersFrom, IsServed
    <2>2. AnswersFrom(m.version)'
      <3>1. m.version \in Nat /\ \A f \in v4 : f.version \in Nat
        BY DEF CacheTypes, AnyMessage, AnyFetch
      <3> QED
        BY <1>1, <1>4, <3>1 DEF AnswersFrom, IsServed
    <2>3. ASSUME NEW k, CachedFrom(k) PROVE CachedFrom(k)'
      BY <1>1, <2>3 DEF CachedFrom
    <2>4. ASSUME NEW o \in v5', o.state = "deleting"
          PROVE  AnswersFrom(o.version)' /\ ("article" \in o.keys \/ CachedFrom(o.version)')
      <3>1. CASE o = n
        BY <1>1, <1>2, <1>3, <2>2, <3>1 DEF CachedFrom
      <3>2. CASE o \in v5
        BY <2>1, <2>3, <2>4, <3>2 DEF CacheEvictions
      <3> QED
        BY <1>1, <2>4, <3>1, <3>2
    <2>5. (AnswersFrom(v8) /\ CachedFrom(v8))'
      BY <1>1, <2>1, <2>3 DEF CacheEvictions
    <2> QED
      BY <2>4, <2>5 DEF CacheEvictions
  <1> QED
    BY <1>5, <1>6, <1>7

LEMMA CacheAfterEvicts == ASSUME CacheInv, NEW m \in v5, Cache!Evicts(m) PROVE CacheInv'
  <1> USE DEF CacheInv
  <1>1. /\ m.state = "deleting" /\ v5' = v5 \ {m}
        /\ v3' = [p \in Cache!Pages |-> IF p \in Cache!Evicted(m.keys) THEN None ELSE v3[p]]
        /\ v8' = (IF m.version > v8 THEN m.version ELSE v8)
        /\ v9' = v9 \ Cache!Evicted(m.keys)
        /\ UNCHANGED <<v1, v2, v4, v6, v7>>
    BY DEF Cache!Evicts
  <1>2. /\ m.version \in Nat /\ v8' \in Nat /\ v8' >= v8 /\ v8' \in {v8, m.version}
        /\ v3' \in [Cache!Pages -> Nat \cup {None}]
        /\ v3'["article"] = (IF "article" \in m.keys THEN None ELSE v3["article"])
        /\ "article" \notin m.keys => ("article" \in v9' <=> "article" \in v9)
    BY <1>1
       DEF CacheTypes, AnyMessage, Cache!Evicted, Cache!Mutable, Cache!AppShell, Cache!Pages
  <1>3. CacheTypes' /\ CacheShows'
    BY <1>1, <1>2 DEF CacheTypes, CacheShows
  <1>4. CacheVersions'
    BY <1>1, <1>2 DEF CacheTypes, CacheVersions, AnyFetch
  <1>5. CacheEvictions'
    <2>1. ASSUME NEW k, AnswersFrom(k) PROVE AnswersFrom(k)'
      BY <1>1, <2>1 DEF AnswersFrom
    <2>2. ASSUME NEW k, CachedFrom(k) PROVE CachedFrom(k)'
      BY <1>2, <2>2 DEF CachedFrom
    <2>3. ("article" \in m.keys \/ CachedFrom(m.version)) => CachedFrom(m.version)'
      BY <1>2, <2>2 DEF CachedFrom
    <2>4. (AnswersFrom(v8) /\ CachedFrom(v8))'
      <3>1. CASE v8' = v8
        BY <2>1, <2>2, <3>1 DEF CacheEvictions, AnswersFrom, CachedFrom
      <3>2. CASE v8' = m.version
        BY <1>1, <2>1, <2>3, <3>2 DEF CacheEvictions, AnswersFrom, CachedFrom
      <3> QED
        BY <1>2, <3>1, <3>2
    <2>5. ASSUME NEW o \in v5', o.state = "deleting"
          PROVE  AnswersFrom(o.version)' /\ ("article" \in o.keys \/ CachedFrom(o.version)')
      BY <1>1, <2>1, <2>2, <2>5 DEF CacheEvictions
    <2> QED
      BY <2>4, <2>5 DEF CacheEvictions
  <1> QED
    BY <1>3, <1>4, <1>5

CachePart == part = "cache" => CacheInv

\* The cache begins so, and every step of the web client keeps it so.
LEMMA CacheInitial == WebInit => CachePart
  <1> SUFFICES ASSUME WebInit, part = "cache" PROVE CacheInv
    BY DEF CachePart
  <1>1. Cache!CacheInit
    BY DEF WebInit
  <1> QED
    BY <1>1
       DEF Cache!CacheInit, Cache!NoShown, Cache!Pages, CacheInv, CacheTypes, CacheVersions,
           CacheEvictions, AnswersFrom, CachedFrom, CacheShows

LEMMA CacheStep == CachePart /\ [WebNext]_web => CachePart'
  <1> SUFFICES ASSUME CachePart, [WebNext]_web, part' = "cache" PROVE CacheInv'
    BY DEF CachePart
  <1>1. CASE UNCHANGED web
    <2>1. CacheInv /\ UNCHANGED <<v1, v3, v4, v5, v6, v7, v8, v9>>
      BY <1>1 DEF web, CachePart
    <2>2. v7' \in Nat
      BY <2>1 DEF CacheInv, CacheTypes
    <2> QED
      BY <2>1, <2>2, CacheStays
  <1>2. CASE WebNext
    <2>1. part = "cache" /\ Cache!CacheNext
      BY <1>2 DEF WebNext, Rest13, Rest11, Rest10, Rest9, Rest6
    <2>2. CacheInv
      BY <2>1 DEF CachePart
    <2> QED
      BY <2>1, <2>2, CacheAfterRegisters, CacheAfterActivates, CacheAfterRemovesWorker,
         CacheAfterReloads, CacheAfterChanges, CacheAfterFetches, CacheAfterServed,
         CacheAfterArrives, CacheAfterStored, CacheAfterNetworkFails, CacheAfterReadsKeys,
         CacheAfterEvicts
         DEF Cache!CacheNext
  <1> QED
    BY <1>1, <1>2

\* A page that was evicted from the offline cache is neither kept nor shown as it was
\* before, for every number of versions and of overlapping fetches and evictions, except
\* a copy whose answer was on its way to the cache when the worker looked for what to
\* evict: that one is kept, and shown, until the page is stored again or evicted.
THEOREM CachePromise == WebSpec => []EvictionHolds
  <1>1. CachePart => EvictionHolds
    <2> SUFFICES ASSUME CacheInv PROVE Cache!EvictedStaysAway
      BY DEF CachePart, EvictionHolds
    <2> QED
      BY DEF CacheInv, CacheEvictions, CachedFrom, CacheShows, Cache!EvictedStaysAway, Cache!Mutable,
             Cache!AppShell
  <1> QED
    BY <1>1, CacheInitial, CacheStep, PTL DEF WebSpec

-----------------------------------------------------------------------------
(* The tags (TagInput) *)

\* the step of dedupeTags: the tag s[n] after the tags f[n - 1]
TagStep(s, f, n) ==
  IF n = 0 THEN <<>>
  ELSE IF s[n] = None \/ s[n][1] \in Tagging!Names(f[n - 1]) THEN f[n - 1]
  ELSE Append(f[n - 1], s[n])

\* dedupeTags goes through the tags one by one.
LEMMA FrontsStep ==
  ASSUME NEW s, Len(s) \in Nat
  PROVE  Tagging!Fronts(s) = [n \in 0..Len(s) |-> TagStep(s, Tagging!Fronts(s), n)]
  <1> DEFINE N == Len(s)
             Is(f, m) == f = [n \in 0..m |-> TagStep(s, f, n)]
             T == {m \in 0..N : \E f : Is(f, m)}
  <1>1. 0 \in T
    <2>1. Is([n \in 0..0 |-> <<>>], 0)
      BY DEF TagStep
    <2> QED
      BY <2>1
  <1>2. ASSUME NEW m \in 0..N, m > 0, m - 1 \in T PROVE m \in T
    <2>1. PICK f : Is(f, m - 1)
      BY <1>2
    <2> DEFINE g == [n \in 0..m |-> IF n = m THEN TagStep(s, f, m) ELSE f[n]]
    <2>2. ASSUME NEW n \in 0..m PROVE g[n] = TagStep(s, g, n)
      <3>1. n > 0 => n - 1 \in 0..m /\ n - 1 # m /\ g[n - 1] = f[n - 1]
        OBVIOUS
      <3>2. TagStep(s, g, n) = TagStep(s, f, n)
        BY <3>1 DEF TagStep
      <3>3. n # m => f[n] = TagStep(s, f, n)
        BY <2>1
      <3> QED
        BY <3>2, <3>3
    <2>3. Is(g, m)
      BY <2>2
    <2> QED
      BY <2>3
  <1>3. N \in T
    <2> HIDE DEF T
    <2> QED
      BY <1>1, <1>2, UpTo
  <1>4. \E f : Is(f, N)
    BY <1>3
  <1>5. Tagging!Fronts(s) = CHOOSE f : Is(f, N)
    BY DEF Tagging!Fronts, TagStep
  <1> QED
    BY <1>4, <1>5

\* No tag is blank, and no two have one name.
IsClean(s) == /\ \A i \in 1..Len(s) : s[i] # None
              /\ \A i, j \in 1..Len(s) : s[i][1] = s[j][1] => i = j

\* What the first n tags come to is clean; and it is these tags if they are clean.
LEMMA FrontsHold ==
  ASSUME NEW V, NEW s \in Seq(V), NEW n \in 0..Len(s)
  PROVE  LET f == Tagging!Fronts(s)[n]
         IN  /\ f \in Seq(V) /\ IsClean(f) /\ Len(f) <= n
             /\ (\A i \in 1..n : s[i] # None) /\ (\A i, j \in 1..n : s[i][1] = s[j][1] => i = j)
                  => Len(f) = n /\ \A i \in 1..n : f[i] = s[i]
  <1> DEFINE f(m) == Tagging!Fronts(s)[m]
             Alike(m) == (\A i \in 1..m : s[i] # None) /\ (\A i, j \in 1..m : s[i][1] = s[j][1] => i = j)
             Holds(m) == /\ f(m) \in Seq(V) /\ IsClean(f(m)) /\ Len(f(m)) <= m
                         /\ Alike(m) => Len(f(m)) = m /\ \A i \in 1..m : f(m)[i] = s[i]
             T == {m \in 0..Len(s) : Holds(m)}
  <1>0. Len(s) \in Nat
    OBVIOUS
  <1>1. \A m \in 0..Len(s) : f(m) = TagStep(s, Tagging!Fronts(s), m)
    <2>1. Tagging!Fronts(s) = [m \in 0..Len(s) |-> TagStep(s, Tagging!Fronts(s), m)]
      BY <1>0, FrontsStep
    <2> QED
      BY <2>1
  <1>2. 0 \in T
    <2>1. f(0) = <<>> /\ 0 \in 0..Len(s)
      BY <1>0, <1>1 DEF TagStep
    <2> HIDE DEF f
    <2>2. <<>> \in Seq(V) /\ Len(<<>>) = 0 /\ IsClean(<<>>)
      BY DEF IsClean
    <2>3. f(0) \in Seq(V) /\ IsClean(f(0)) /\ Len(f(0)) = 0
      BY <2>1, <2>2, Zenon
    <2>4. \A i \in 1..0 : f(0)[i] = s[i]
      OBVIOUS
    <2>5. Len(f(0)) <= 0
      BY <2>3
    <2>6. Holds(0)
      BY <2>3, <2>4, <2>5
    <2> HIDE DEF Holds
    <2> QED
      BY <2>1, <2>6
  <1>3. ASSUME NEW m \in 0..Len(s), m > 0, m - 1 \in T PROVE m \in T
    <2>1. Holds(m - 1)
      BY <1>3
    <2>2. f(m) = IF s[m] = None \/ s[m][1] \in Tagging!Names(f(m - 1)) THEN f(m - 1)
                 ELSE Append(f(m - 1), s[m])
      <3>1. f(m) = TagStep(s, Tagging!Fronts(s), m)
        BY <1>1
      <3> QED
        BY <3>1, <1>3 DEF TagStep
    <2>3. Tagging!Names(f(m - 1)) = {f(m - 1)[i][1] : i \in 1..Len(f(m - 1))}
      BY <2>1 DEF Tagging!Names
    <2> HIDE DEF f
    <2>4. m \in 1..Len(s) /\ s[m] \in V
      BY <1>3
    <2>5. Alike(m) => Alike(m - 1)
      BY <1>3
    <2>6. CASE s[m] = None \/ s[m][1] \in Tagging!Names(f(m - 1))
      <3>1. ~Alike(m)
        <4>1. ASSUME Alike(m), s[m] # None PROVE FALSE
          <5>1. PICK i \in 1..Len(f(m - 1)) : s[m][1] = f(m - 1)[i][1]
            BY <2>3, <2>6, <4>1
          <5>2. i \in 1..(m - 1) /\ f(m - 1)[i] = s[i]
            BY <2>1, <2>5, <4>1
          <5> QED
            BY <2>4, <4>1, <5>1, <5>2
        <4> QED
          BY <2>4, <4>1
      <3> QED
        BY <2>1, <2>2, <2>6, <3>1, <1>3
    <2>7. CASE ~(s[m] = None \/ s[m][1] \in Tagging!Names(f(m - 1)))
      <3>1. f(m) = Append(f(m - 1), s[m])
        BY <2>2, <2>7
      <3>2. /\ f(m) \in Seq(V) /\ Len(f(m)) = Len(f(m - 1)) + 1
            /\ \A i \in 1..Len(f(m - 1)) : f(m)[i] = f(m - 1)[i]
            /\ f(m)[Len(f(m - 1)) + 1] = s[m]
        BY <2>1, <2>4, <3>1
      <3>3. IsClean(f(m))
        <4>1. ASSUME NEW i \in 1..Len(f(m)) PROVE f(m)[i] # None
          <5>1. CASE i \in 1..Len(f(m - 1))
            <6>1. f(m - 1)[i] # None
              BY <2>1, <5>1 DEF IsClean
            <6> QED
              BY <3>2, <5>1, <6>1
          <5>2. CASE i \notin 1..Len(f(m - 1))
            <6>1. i = Len(f(m - 1)) + 1
              BY <2>1, <3>2, <5>2
            <6> QED
              BY <2>7, <3>2, <6>1
          <5> QED
            BY <5>1, <5>2
        <4>2. ASSUME NEW i \in 1..Len(f(m)), NEW j \in 1..Len(f(m)), f(m)[i][1] = f(m)[j][1]
              PROVE  i = j
          <5>1. ASSUME NEW k \in 1..Len(f(m - 1)) PROVE f(m)[k][1] # s[m][1]
            <6>1. f(m - 1)[k][1] \in Tagging!Names(f(m - 1))
              BY <2>3, Zenon
            <6>2. f(m)[k] = f(m - 1)[k]
              BY <3>2, Zenon
            <6> QED
              BY <2>7, <6>1, <6>2, Zenon
          <5>2. CASE i \in 1..Len(f(m - 1)) /\ j \in 1..Len(f(m - 1))
            BY <2>1, <3>2, <4>2, <5>2 DEF IsClean
          <5>3. CASE ~(i \in 1..Len(f(m - 1)) /\ j \in 1..Len(f(m - 1)))
            <6>1. Len(f(m - 1)) \in Nat
              BY <2>1
            <6> QED
              BY <3>2, <4>2, <5>1, <5>3, <6>1
          <5> QED
            BY <5>2, <5>3
        <4> QED
          BY <4>1, <4>2 DEF IsClean
      <3>4. Alike(m) => Len(f(m)) = m /\ \A i \in 1..m : f(m)[i] = s[i]
        BY <2>1, <2>5, <3>2, <1>3
      <3>5. Holds(m)
        BY <2>1, <3>2, <3>3, <3>4, <1>3
      <3> QED
        BY <3>5, <1>3
    <2> QED
      BY <2>6, <2>7
  <1>4. n \in T
    <2> HIDE DEF T
    <2>1. Len(s) \in Nat
      OBVIOUS
    <2> QED
      BY <1>2, <1>3, <2>1, UpTo
  <1> QED
    BY <1>4

\* dedupeTags makes a list clean and leaves a clean one alone.
LEMMA DedupedIsClean ==
  ASSUME NEW V, NEW s \in Seq(V)
  PROVE  /\ Tagging!Deduped(s) \in Seq(V) /\ IsClean(Tagging!Deduped(s))
         /\ IsClean(s) => Tagging!Deduped(s) = s
  <1> DEFINE d == Tagging!Deduped(s)
  <1>1. d = Tagging!Fronts(s)[Len(s)] /\ Len(s) \in 0..Len(s)
    BY DEF Tagging!Deduped
  <1> HIDE DEF d
  <1>2. d \in Seq(V) /\ IsClean(d)
    BY <1>1, FrontsHold
  <1>3. IsClean(s) => Len(d) = Len(s) /\ \A i \in 1..Len(s) : d[i] = s[i]
    BY <1>1, FrontsHold DEF IsClean
  <1>4. IsClean(s) => d = s
    BY <1>2, <1>3
  <1> QED
    BY <1>2, <1>4 DEF d

\* A tag that is added to a clean list comes last or not at all.
LEMMA DedupedMore ==
  ASSUME NEW V, NEW s \in Seq(V), IsClean(s), NEW t
  PROVE  LET d == Tagging!Deduped(Append(s, t))
         IN  d = s \/ (d = Append(s, t) /\ IsClean(d))
  <1> DEFINE w == Append(s, t)  n == Len(s)  f == Tagging!Fronts(w)
  <1>1. /\ w \in Seq(V \cup {t}) /\ Len(w) = n + 1 /\ n \in 0..(n + 1) /\ n \in Nat
        /\ \A i \in 1..n : w[i] = s[i]
    OBVIOUS
  <1> HIDE DEF w
  <1>2. f[n] \in Seq(V \cup {t}) /\ Len(f[n]) = n /\ \A i \in 1..n : f[n][i] = w[i]
    <2>1. /\ \A i \in 1..n : w[i] # None
          /\ \A i, j \in 1..n : w[i][1] = w[j][1] => i = j
      BY <1>1 DEF IsClean
    <2>2. n \in 0..Len(w)
      BY <1>1
    <2> HIDE DEF n
    <2> QED
      BY <1>1, <2>1, <2>2, FrontsHold
  <1>3. f[n] = s
    <2>1. s \in Seq(V \cup {t})
      OBVIOUS
    <2> QED
      BY <1>1, <1>2, <2>1
  <1>4. f = [m \in 0..Len(w) |-> TagStep(w, f, m)]
    BY <1>1, FrontsStep
  <1>5. Tagging!Deduped(w) = f[n + 1]
    BY <1>1 DEF Tagging!Deduped
  <1>6. f[n + 1] = TagStep(w, f, n + 1)
    BY <1>1, <1>4
  <1>7. w[n + 1] = t
    BY DEF w
  <1>8. f[n + 1] = s \/ f[n + 1] = Append(s, t)
    BY <1>1, <1>3, <1>6, <1>7 DEF TagStep
  <1>9. IsClean(Tagging!Deduped(w))
    BY <1>1, DedupedIsClean
  <1> QED
    BY <1>5, <1>8, <1>9 DEF w

-----------------------------------------------------------------------------

\* A list is a sequence of whatever it holds.
IsList(s) == \E V : s \in Seq(V)

\* The open edit is on its tag, or the editor has put another one there, or its tag is
\* gone; the suggestions are not left open.
TagInv ==
  LET values == v1  editing == v3  open == v4  focus == v6  closing == v8  target == v9
  IN  /\ IsList(values) /\ IsClean(values)
      /\ editing = [index |-> editing.index, text |-> editing.text]
      /\ editing.index \in Nat
      /\ focus = "edit" => editing.index \in 1..Len(values)
      /\ target = [opened |-> target.opened, on |-> target.on, displaced |-> target.displaced]
      /\ target.displaced \in BOOLEAN /\ (~target.displaced => target.on = target.opened)
      /\ target.on # None => editing.index \in 1..Len(values) /\ values[editing.index] = target.on
      /\ open => focus = "draft" \/ closing

\* the invariant, while the part is the tags
TagPart == part = "tags" => TagInv

\* A list without its i-th tag.
LEMMA WithoutIs ==
  ASSUME NEW s, IsList(s), IsClean(s), NEW i \in 1..Len(s)
  PROVE  LET w == Tagging!Without(s, i)
         IN  /\ IsList(w) /\ IsClean(w) /\ Len(w) = Len(s) - 1
             /\ \A j \in 1..(Len(s) - 1) : w[j] = IF j < i THEN s[j] ELSE s[j + 1]
  <1> DEFINE w == Tagging!Without(s, i)
  <1>1. PICK V : s \in Seq(V)
    BY DEF IsList
  <1>2. w = [j \in 1..(Len(s) - 1) |-> IF j < i THEN s[j] ELSE s[j + 1]] /\ Len(s) \in Nat
    BY <1>1 DEF Tagging!Without
  <1> HIDE DEF w
  <1>3. w \in [1..(Len(s) - 1) -> V] /\ Len(s) - 1 \in Nat
    BY <1>1, <1>2
  <1>4. w \in Seq(V) /\ Len(w) = Len(s) - 1
    BY <1>3
  <1>5. \A j \in 1..(Len(s) - 1) : w[j] = IF j < i THEN s[j] ELSE s[j + 1]
    BY <1>2
  <1>6. IsClean(w)
    <2>1. ASSUME NEW j \in 1..Len(w)
          PROVE  /\ IF j < i THEN j \in 1..Len(s) /\ w[j] = s[j]
                             ELSE j + 1 \in 1..Len(s) /\ w[j] = s[j + 1]
                 /\ w[j] # None
      BY <1>2, <1>4, <1>5 DEF IsClean
    <2>2. ASSUME NEW j \in 1..Len(w), NEW k \in 1..Len(w), w[j][1] = w[k][1] PROVE j = k
      <3> DEFINE a == IF j < i THEN j ELSE j + 1
                 b == IF k < i THEN k ELSE k + 1
      <3>1. a \in 1..Len(s) /\ b \in 1..Len(s) /\ s[a][1] = s[b][1]
        BY <2>1, <2>2
      <3>2. a = b
        BY <3>1 DEF IsClean
      <3> QED
        BY <3>2, <1>2, <1>4
    <2> QED
      BY <2>1, <2>2 DEF IsClean
  <1> QED
    BY <1>4, <1>5, <1>6 DEF w, IsList

\* What an open edit comes to is clean.
LEMMA EditIs ==
  ASSUME NEW s, IsList(s), NEW i \in 1..Len(s), NEW t
  PROVE  LET d == Tagging!Deduped([s EXCEPT ![i] = t]) IN IsList(d) /\ IsClean(d)
  <1>1. PICK V : s \in Seq(V)
    BY DEF IsList
  <1>2. [s EXCEPT ![i] = t] \in Seq(V \cup {t})
    BY <1>1
  <1> QED
    BY <1>2, DedupedIsClean DEF IsList

\* A tag that is added comes last or not at all, and the others stay.
LEMMA MoreIs ==
  ASSUME NEW s, IsList(s), IsClean(s), NEW t
  PROVE  LET d == Tagging!Deduped(Append(s, t))
         IN  /\ IsList(d) /\ IsClean(d) /\ Len(s) \in Nat /\ Len(d) \in Nat /\ Len(s) <= Len(d)
             /\ \A i \in 1..Len(s) : i \in 1..Len(d) /\ d[i] = s[i]
  <1> DEFINE d == Tagging!Deduped(Append(s, t))
  <1>1. PICK V : s \in Seq(V)
    BY DEF IsList
  <1>2. d = s \/ (d = Append(s, t) /\ IsClean(d))
    BY <1>1, DedupedMore
  <1> HIDE DEF d
  <1>3. Append(s, t) \in Seq(V \cup {t}) /\ Len(Append(s, t)) = Len(s) + 1 /\ Len(s) \in Nat
        /\ \A i \in 1..Len(s) : Append(s, t)[i] = s[i]
    BY <1>1
  <1>4. IsList(d) /\ IsClean(d)
    BY <1>1, <1>2, <1>3 DEF IsList
  <1>5. Len(d) \in Nat /\ Len(s) <= Len(d) /\ \A i \in 1..Len(s) : i \in 1..Len(d) /\ d[i] = s[i]
    BY <1>2, <1>3
  <1> QED
    BY <1>3, <1>4, <1>5 DEF d

\* Each action of TagInput keeps the invariant.
LEMMA TagsAfterStartsEditing ==
  ASSUME TagInv, NEW i \in DOMAIN v1, Tagging!StartsEditing(i) PROVE TagInv'
  <1>1. DOMAIN v1 = 1..Len(v1) /\ Len(v1) \in Nat
    BY DEF TagInv, IsList
  <1> QED
    BY <1>1 DEF TagInv, Tagging!StartsEditing, Tagging!For

\* a click on a tag, or beside them
LEMMA TagsAfterClicks == TagInv /\ Tagging!Clicks => TagInv'
  <1> SUFFICES ASSUME TagInv, Tagging!Clicks PROVE TagInv'
    OBVIOUS
  <1>1. DOMAIN v1 = 1..Len(v1) /\ Len(v1) \in Nat
    BY DEF TagInv, IsList
  <1> QED
    BY <1>1 DEF TagInv, Tagging!Clicks

\* typing over a tag
LEMMA TagsAfterTypesEdit == \A t : TagInv /\ Tagging!TypesEdit(t) => TagInv'
  BY DEF TagInv, Tagging!TypesEdit

\* an edit ends
LEMMA TagsAfterCommitsEdit == TagInv /\ Tagging!CommitsEdit => TagInv'
  <1> SUFFICES ASSUME TagInv, Tagging!CommitsEdit PROVE TagInv'
    OBVIOUS
  <1>1. v3.index \in 1..Len(v1) /\ IsList(v1) /\ IsClean(v1)
    BY DEF TagInv, Tagging!CommitsEdit
  <1>2. IsList(v1') /\ IsClean(v1')
    <2>1. CASE v3.text = None
      <3> DEFINE w == Tagging!Without(v1, v3.index)
      <3>1. IsList(w) /\ IsClean(w)
        BY <1>1, WithoutIs
      <3> HIDE DEF w
      <3>2. IsList(Tagging!Deduped(w)) /\ IsClean(Tagging!Deduped(w))
        BY <3>1, DedupedIsClean DEF IsList
      <3> QED
        BY <2>1, <3>2 DEF Tagging!CommitsEdit, w
    <2>2. CASE v3.text # None
      <3>1. v1' = Tagging!Deduped([v1 EXCEPT ![v3.index] = v3.text])
        BY <2>2 DEF Tagging!CommitsEdit
      <3> QED
        BY <1>1, <3>1, EditIs
    <2> QED
      BY <2>1, <2>2
  <1> QED
    BY <1>2 DEF TagInv, Tagging!CommitsEdit, Tagging!NoEdit, Tagging!For

\* an edit is given up
LEMMA TagsAfterCancelsEdit == TagInv /\ Tagging!CancelsEdit => TagInv'
  BY DEF TagInv, Tagging!CancelsEdit, Tagging!NoEdit, Tagging!For

\* An open edit moves with its tag.
LEMMA TagsAfterRemoval ==
  ASSUME TagInv, NEW i \in 1..Len(v1), Tagging!Removes(i), v6 # "edit", v6' = v6, UNCHANGED <<v4, v8>>
  PROVE  TagInv'
  <1>1. IsList(v1) /\ IsClean(v1) /\ Len(v1) \in Nat
    BY DEF TagInv, IsList
  <1>2. /\ IsList(v1') /\ IsClean(v1') /\ Len(v1') = Len(v1) - 1
        /\ \A j \in 1..(Len(v1) - 1) : v1'[j] = IF j < i THEN v1[j] ELSE v1[j + 1]
    BY <1>1, WithoutIs DEF Tagging!Removes
  <1>3. v3 = [index |-> v3.index, text |-> v3.text] /\ v3.index \in Nat
    BY DEF TagInv
  <1>4. CASE v3.index = i
    BY <1>2, <1>4 DEF TagInv, Tagging!Removes, Tagging!AfterRemoval, Tagging!NoEdit, Tagging!For
  <1>5. CASE i < v3.index
    <2>1. v3' = [index |-> v3.index - 1, text |-> v3.text] /\ v9' = v9
      BY <1>3, <1>5 DEF Tagging!Removes, Tagging!AfterRemoval
    <2>2. v9.on # None => v3.index - 1 \in 1..Len(v1') /\ v1'[v3.index - 1] = v9.on
      BY <1>1, <1>2, <1>3, <1>5 DEF TagInv
    <2>3. v3.index - 1 \in Nat
      BY <1>3, <1>5
    <2> QED
      BY <1>2, <2>1, <2>2, <2>3 DEF TagInv
  <1>6. CASE v3.index < i
    <2>1. v3' = v3 /\ v9' = v9
      BY <1>3, <1>6 DEF Tagging!Removes, Tagging!AfterRemoval
    <2>2. v9.on # None => v3.index \in 1..Len(v1') /\ v1'[v3.index] = v9.on
      BY <1>1, <1>2, <1>3, <1>6 DEF TagInv
    <2> QED
      BY <1>2, <2>1, <2>2 DEF TagInv
  <1> QED
    BY <1>1, <1>3, <1>4, <1>5, <1>6

\* a tag goes
LEMMA TagsAfterRemovesTag ==
  ASSUME TagInv, NEW i \in DOMAIN v1, Tagging!RemovesTag(i) PROVE TagInv'
  <1>1. DOMAIN v1 = 1..Len(v1)
    BY DEF TagInv, IsList
  <1> QED
    BY <1>1, TagsAfterRemoval DEF Tagging!RemovesTag

\* Backspace in the empty field
LEMMA TagsAfterBackspaces == TagInv /\ Tagging!Backspaces => TagInv'
  <1> SUFFICES ASSUME TagInv, Tagging!Backspaces PROVE TagInv'
    OBVIOUS
  <1>1. Len(v1) \in 1..Len(v1)
    BY DEF TagInv, IsList, Tagging!Backspaces
  <1> QED
    BY <1>1, TagsAfterRemoval DEF Tagging!Backspaces, Tagging!Key

\* The keys that leave the tags alone.
LEMMA TagsAfterKeys ==
  TagInv /\ (\/ Tagging!Composes \/ Tagging!Enters \/ Tagging!Leaves \/ Tagging!Closes
             \/ Tagging!Escapes \/ \E t : Tagging!Types(t))
    => TagInv'
  BY DEF TagInv, Tagging!Composes, Tagging!Enters, Tagging!Leaves, Tagging!Closes,
         Tagging!Escapes, Tagging!Types, Tagging!Key

\* the arrow keys
LEMMA TagsAfterMoves == TagInv /\ Tagging!Moves => TagInv'
  <1> SUFFICES ASSUME TagInv, Tagging!Moves PROVE TagInv'
    OBVIOUS
  <1>1. v6 = "draft" /\ UNCHANGED <<v1, v3, v6, v8, v9>>
    BY DEF Tagging!Moves, Tagging!Key
  <1> QED
    BY <1>1 DEF TagInv

\* A tag that is added leaves the open edit where it is.
LEMMA TagsAfterCommit ==
  ASSUME TagInv, NEW t, Tagging!Commits(t), UNCHANGED <<v3, v6, v9>>, v6 = "draft"
  PROVE  TagInv'
  <1>1. IsList(v1) /\ IsClean(v1)
    BY DEF TagInv
  <1>2. /\ IsList(v1') /\ IsClean(v1') /\ Len(v1) \in Nat /\ Len(v1') \in Nat /\ Len(v1) <= Len(v1')
        /\ \A i \in 1..Len(v1) : i \in 1..Len(v1') /\ v1'[i] = v1[i]
    BY <1>1, MoreIs DEF Tagging!Commits
  <1> QED
    BY <1>2 DEF TagInv

\* a suggestion is taken
LEMMA TagsAfterTakesSuggestion == TagInv /\ Tagging!TakesSuggestion => TagInv'
  <1> SUFFICES ASSUME TagInv, Tagging!TakesSuggestion PROVE TagInv'
    OBVIOUS
  <1>1. \E t : Tagging!Commits(t)
    BY DEF Tagging!TakesSuggestion
  <1> QED
    BY <1>1, TagsAfterCommit DEF Tagging!TakesSuggestion

\* Enter on what was typed
LEMMA TagsAfterCommitsDraft == TagInv /\ Tagging!CommitsDraft => TagInv'
  BY TagsAfterCommit DEF Tagging!CommitsDraft, Tagging!Key

\* another list comes in
LEMMA TagsAfterReplaced ==
  ASSUME TagInv, NEW s \in Tagging!Clean, Tagging!Replaced(s) PROVE TagInv'
  <1>1. PICK n \in 0..3 : s \in [1..n -> Tags]
    BY DEF Tagging!Clean
  <1>2. s \in Seq(Tags) /\ Tagging!Deduped(s) = s
    BY <1>1 DEF Tagging!Clean
  <1>3. IsList(s) /\ IsClean(s)
    BY <1>2, DedupedIsClean DEF IsList
  <1>4. DOMAIN s = 1..Len(s) /\ DOMAIN v1 = 1..Len(v1) /\ Len(s) \in Nat /\ Len(v1) \in Nat
    BY <1>2 DEF TagInv, IsList
  <1>5. v6' = "edit" => v3.index \in 1..Len(s)
    BY <1>4 DEF Tagging!Replaced, TagInv
  <1>6. v1' = s /\ UNCHANGED <<v3, v4, v8>> /\ (v6' = v6 \/ (v6 = "edit" /\ v6' = "elsewhere"))
    BY DEF Tagging!Replaced
  <1>7. CASE v9' = v9 /\ v3.index \in 1..Len(s) /\ v3.index \in 1..Len(v1) /\ s[v3.index] = v1[v3.index]
    BY <1>3, <1>5, <1>6, <1>7 DEF TagInv
  <1>8. CASE v9' = Tagging!For(None)
    BY <1>3, <1>5, <1>6, <1>8 DEF TagInv, Tagging!For
  <1>9. CASE v3.index \in 1..Len(s) /\ v9' = [v9 EXCEPT !.on = s[v3.index], !.displaced = TRUE]
    <2>1. v9' = [opened |-> v9.opened, on |-> s[v3.index], displaced |-> TRUE]
      BY <1>9 DEF TagInv
    <2> QED
      BY <1>3, <1>5, <1>6, <1>9, <2>1 DEF TagInv
  <1> QED
    BY <1>4, <1>7, <1>8, <1>9 DEF Tagging!Replaced

\* every step of the tags
LEMMA TagsStep == TagInv /\ Tagging!TagNext => TagInv'
  BY TagsAfterStartsEditing, TagsAfterClicks, TagsAfterTypesEdit, TagsAfterCommitsEdit,
     TagsAfterCancelsEdit, TagsAfterRemovesTag, TagsAfterBackspaces, TagsAfterKeys, TagsAfterMoves,
     TagsAfterTakesSuggestion, TagsAfterCommitsDraft, TagsAfterReplaced DEF Tagging!TagNext

\* the tags as they begin
LEMMA TagsInitial == Tagging!TagInit => TagInv
  <1> SUFFICES ASSUME Tagging!TagInit PROVE TagInv
    OBVIOUS
  <1>1. IsList(v1) /\ IsClean(v1)
    <2>1. CASE v1 = <<>>
      <3>1. <<>> \in Seq({}) /\ Len(<<>>) = 0
        OBVIOUS
      <3> QED
        BY <2>1, <3>1 DEF IsList, IsClean
    <2>2. ASSUME NEW t \in Tags, v1 = <<t>> PROVE IsList(v1) /\ IsClean(v1)
      <3>1. <<t>> \in Seq(Tags) /\ Len(<<t>>) = 1 /\ <<t>>[1] = t /\ t # None
        BY NoneAssumption
      <3> QED
        BY <2>2, <3>1 DEF IsList, IsClean
    <2> QED
      BY <2>1, <2>2 DEF Tagging!TagInit
  <1> QED
    BY <1>1 DEF TagInv, Tagging!TagInit, Tagging!NoEdit, Tagging!For

\* The invariant says what is promised of the tags.
LEMMA TagsPromised == TagInv => Tagging!TagsAreWhatWasMeant
  <1> SUFFICES ASSUME TagInv PROVE Tagging!TagsAreWhatWasMeant
    OBVIOUS
  <1>1. Tagging!Deduped(v1) = v1
    BY DedupedIsClean DEF TagInv, IsList
  <1>2. DOMAIN v1 = 1..Len(v1)
    BY DEF TagInv, IsList
  <1> QED
    BY <1>1, <1>2 DEF TagInv, Tagging!TagsAreWhatWasMeant

\* The tags are changed as it was meant, for every set of tags and suggestions and any
\* number of keys, clicks and timers (TagInput.tsx); but the edit under which the editor
\* has put another tag changes that one, and no other from then on.
THEOREM TagPromise == WebSpec => []TagsAreMeant
  <1>1. WebInit => TagPart
    BY TagsInitial DEF WebInit, TagPart
  <1>2. TagPart /\ [WebNext]_web => TagPart'
    <2> SUFFICES ASSUME TagPart, [WebNext]_web PROVE TagPart'
      OBVIOUS
    <2>1. CASE UNCHANGED web
      BY <2>1 DEF TagPart, TagInv, web
    <2>2. CASE WebNext
      BY <2>2, TagsStep DEF WebNext, TagPart, Rest13, Rest11, Rest10, Rest9, Rest6
    <2> QED
      BY <2>1, <2>2
  <1>3. TagPart => TagsAreMeant
    BY TagsPromised DEF TagPart, TagsAreMeant
  <1> QED
    BY <1>1, <1>2, <1>3, PTL DEF WebSpec

-----------------------------------------------------------------------------
(* The protected Markdown (ProtectedText) *)

\* The least of a set of numbers, and the greatest of a bounded one.
LEMMA LeastOf ==
  ASSUME NEW T \in SUBSET Nat, T # {}
  PROVE  Protected!Min(T) \in T /\ \A n \in T : Protected!Min(T) <= n
  <1>1. \E m \in T : \A n \in T : m <= n
    BY LeastNatural
  <1> QED
    BY <1>1 DEF Protected!Min

LEMMA GreatestOf ==
  ASSUME NEW n \in Nat, NEW T \in SUBSET (0..n), T # {}
  PROVE  Protected!Max(T) \in T /\ \A m \in T : m <= Protected!Max(T)
  <1> DEFINE U == {n - m : m \in T}
  <1>1. U \in SUBSET Nat /\ U # {}
    <2>1. \A m \in T : n - m \in Nat
      OBVIOUS
    <2> QED
      BY <2>1
  <1>2. PICK u \in U : \A w \in U : u <= w
    BY <1>1, LeastNatural
  <1>3. PICK m \in T : u = n - m
    OBVIOUS
  <1>4. \A k \in T : m >= k
    <2> TAKE k \in T
    <2>1. n - k \in U
      OBVIOUS
    <2> QED
      BY <1>2, <1>3, <2>1
  <1>5. Protected!Max(T) \in T /\ \A k \in T : Protected!Max(T) >= k
    BY <1>4 DEF Protected!Max
  <1> QED
    BY <1>5

\* The first line of some kinds.
LEMMA FirstFromIs ==
  ASSUME NEW d \in Seq(Protected!Kinds), NEW i \in Nat, NEW kinds, NEW e
  PROVE  LET f == Protected!FirstFrom(d, i, kinds, e)
         IN  \/ f = e /\ \A j \in i..Len(d) : d[j] \notin kinds
             \/ f \in i..Len(d) /\ d[f] \in kinds /\ \A j \in i..(f - 1) : d[j] \notin kinds
  <1> DEFINE s == {j \in i..Len(d) : d[j] \in kinds}
  <1>1. s \in SUBSET Nat /\ Len(d) \in Nat
    OBVIOUS
  <1>2. CASE s = {}
    BY <1>2 DEF Protected!FirstFrom
  <1>3. CASE s # {}
    <2>1. Protected!Min(s) \in s /\ \A n \in s : Protected!Min(s) <= n
      BY <1>1, <1>3, LeastOf
    <2>2. PICK f : f = Protected!FirstFrom(d, i, kinds, e)
      OBVIOUS
    <2>3. f = Protected!Min(s)
      BY <1>3, <2>2 DEF Protected!FirstFrom
    <2>4. f \in i..Len(d) /\ d[f] \in kinds /\ \A n \in s : f <= n
      BY <2>1, <2>3
    <2>5. ASSUME NEW j \in i..(f - 1) PROVE d[j] \notin kinds
      BY <1>1, <2>4
    <2> QED
      BY <2>2, <2>4, <2>5
  <1> QED
    BY <1>2, <1>3

\* The end of a run of lines.
LEMMA RunEndIs ==
  ASSUME NEW d \in Seq(Protected!Kinds), NEW i \in 1..Len(d), NEW kinds
  PROVE  LET e == Protected!RunEnd(d, i, kinds)
         IN  e \in i..Len(d) /\ \A m \in (i + 1)..e : d[m] \in kinds
  <1> DEFINE s == {j \in i..Len(d) : \A m \in (i + 1)..j : d[m] \in kinds}
  <1>1. i \in s /\ s \in SUBSET (0..Len(d)) /\ Len(d) \in Nat
    OBVIOUS
  <1>2. Protected!Max(s) \in s
    BY <1>1, GreatestOf
  <1> QED
    BY <1>2 DEF Protected!RunEnd

\* The comment that begins in a block.
LEMMA CommentStartIs ==
  ASSUME NEW d \in Seq(Protected!Kinds), NEW i \in 1..Len(d)
  PROVE  LET c == Protected!CommentStart(d, i)
         IN  \/ c = 0 /\ \A j \in i..Len(d) : d[j] \in {"comment", "remark"} =>
                              \E m \in i..j : d[m] = "blank" \/ Protected!Fenced(d[m])
             \/ c \in i..Len(d)
  <1> DEFINE s == {j \in i..Len(d) : /\ d[j] \in {"comment", "remark"}
                                     /\ \A m \in i..j : d[m] # "blank" /\ ~Protected!Fenced(d[m])}
  <1>1. s \in SUBSET Nat
    OBVIOUS
  <1>2. CASE s = {}
    BY <1>2 DEF Protected!CommentStart
  <1>3. CASE s # {}
    BY <1>1, <1>3, LeastOf DEF Protected!CommentStart
  <1> QED
    BY <1>2, <1>3

\* The lines of a comment: they end after the first end of a comment, or with the text.
LEMMA CommentEndIs ==
  ASSUME NEW d \in Seq(Protected!Kinds), NEW c \in 1..Len(d)
  PROVE  LET e == Protected!CommentEnd(d, c)
         IN  e \in c..Len(d) /\ (e = Len(d) \/ \E m \in c..e : d[m] \in {"commentEnd", "remark"})
  <1> DEFINE f == Protected!FirstFrom(d, c, {"commentEnd", "remark"}, Len(d))
  <1>1. c \in Nat /\ Len(d) \in Nat
    OBVIOUS
  <1>2. f \in c..Len(d) /\ (f = Len(d) \/ d[f] \in {"commentEnd", "remark"})
    BY <1>1, FirstFromIs
  <1>3. f \in 1..Len(d)
    BY <1>2
  <1> HIDE DEF f
  <1>4. Protected!RunEnd(d, f, Protected!NotBlank) \in f..Len(d)
    BY <1>3, RunEndIs
  <1>5. Protected!CommentEnd(d, c) = Protected!RunEnd(d, f, Protected!NotBlank)
    BY DEF Protected!CommentEnd, f
  <1> QED
    BY <1>1, <1>2, <1>4, <1>5

\* The lines of a footnote are indented below the first.
LEMMA FootnoteEndIs ==
  ASSUME NEW d \in Seq(Protected!Kinds), NEW i \in 1..Len(d)
  PROVE  LET e == Protected!FootnoteEnd(d, i)
         IN  e \in i..Len(d) /\ \A m \in (i + 1)..e : d[m] \in {"cont", "blank"}
  <1> DEFINE r == Protected!RunEnd(d, i, {"cont", "blank"})
             s == {i} \cup {j \in i..r : d[j] = "cont"}
  <1>1. r \in i..Len(d) /\ \A m \in (i + 1)..r : d[m] \in {"cont", "blank"}
    BY RunEndIs
  <1> HIDE DEF r
  <1>2. s \in SUBSET (0..Len(d)) /\ s # {} /\ Len(d) \in Nat
    BY <1>1
  <1>3. Protected!Max(s) \in s
    BY <1>2, GreatestOf
  <1>4. PICK e : e = Protected!FootnoteEnd(d, i)
    OBVIOUS
  <1>5. e = Protected!Max(s)
    BY <1>4 DEF Protected!FootnoteEnd, r
  <1>6. e = i \/ e \in i..r
    BY <1>3, <1>5
  <1> QED
    BY <1>1, <1>2, <1>4, <1>6

\* What the scanner says of a block that is kept as it is wherever it ends: the end is
\* not before it; what is not kept is a fence; a raw block that begins in it does not
\* go beyond it, unless the block has an end of another kind.
LEMMA SpecialEndIs ==
  ASSUME NEW d \in Seq(Protected!Kinds), NEW i \in 1..Len(d), d[i] # "blank"
  PROVE  LET e == Protected!SpecialEnd(d, i)
         IN  /\ e = 0 \/ e \in i..Len(d)
             /\ e = 0 => /\ ~Protected!Fenced(d[i]) /\ d[i] # "raw"
                         /\ \A j \in i..Len(d) : d[j] \in {"comment", "remark"} =>
                              \E m \in i..j : d[m] = "blank" \/ Protected!Fenced(d[m])
             /\ Protected!Fenced(d[i]) =>
                  /\ e = Len(d) \/ (e > i /\ d[e] \in Protected!Closers(d[i]))
                  /\ \A m \in (i + 1)..(e - 1) : d[m] \notin Protected!Closers(d[i])
             /\ e # 0 => \A j \in i..e : d[j] = "raw" /\ (\A m \in j..e : d[m] # "rawEnd") =>
                           e = Len(d) \/ \E m \in i..e : d[m] \in Protected!Enders
  <1> DEFINE e == Protected!SpecialEnd(d, i)
  <1>0. i \in Nat /\ i + 1 \in Nat /\ Len(d) \in Nat
    OBVIOUS
  <1>1. CASE Protected!Fenced(d[i])
    <2> DEFINE c == Protected!Closers(d[i])
    <2>1. e = Protected!FirstFrom(d, i + 1, c, Len(d))
      BY <1>1 DEF Protected!SpecialEnd, Protected!FenceEnd
    <2>2. c \subseteq Protected!Enders
      BY DEF Protected!Closers, Protected!Enders
    <2> HIDE DEF e, c
    <2>3. \/ e = Len(d) /\ \A j \in (i + 1)..Len(d) : d[j] \notin c
          \/ e \in (i + 1)..Len(d) /\ d[e] \in c /\ \A j \in (i + 1)..(e - 1) : d[j] \notin c
      BY <1>0, <2>1, FirstFromIs
    <2>4. /\ e \in i..Len(d) /\ e # 0 /\ (e = Len(d) \/ (e > i /\ d[e] \in c))
          /\ \A m \in (i + 1)..(e - 1) : d[m] \notin c
      BY <1>0, <2>3
    <2>5. e = Len(d) \/ \E m \in i..e : d[m] \in Protected!Enders
      BY <1>0, <2>2, <2>4
    <2> QED
      BY <2>4, <2>5 DEF e, c
  <1>2. CASE ~Protected!Fenced(d[i]) /\ d[i] = "raw"
    <2>1. e = Protected!FirstFrom(d, i, {"rawEnd"}, Len(d))
      BY <1>2 DEF Protected!SpecialEnd, Protected!RawEnd
    <2>2. \/ e = Len(d)
          \/ e \in i..Len(d) /\ d[e] = "rawEnd"
      BY <1>0, <2>1, FirstFromIs
    <2> HIDE DEF e
    <2> QED
      BY <1>0, <1>2, <2>2 DEF Protected!Enders, e
  <1>3. CASE ~Protected!Fenced(d[i]) /\ d[i] # "raw" /\ Protected!CommentStart(d, i) # 0
    <2> DEFINE c == Protected!CommentStart(d, i)
    <2>1. c \in i..Len(d)
      BY <1>3, CommentStartIs
    <2>2. c \in 1..Len(d)
      BY <1>0, <2>1
    <2>3. e = Protected!CommentEnd(d, c)
      BY <1>3 DEF Protected!SpecialEnd
    <2> HIDE DEF c, e
    <2>4. e \in c..Len(d) /\ (e = Len(d) \/ \E m \in c..e : d[m] \in {"commentEnd", "remark"})
      BY <2>2, <2>3, CommentEndIs
    <2>5. e \in i..Len(d) /\ (e = Len(d) \/ \E m \in i..e : d[m] \in Protected!Enders)
      BY <1>0, <2>1, <2>4 DEF Protected!Enders
    <2> QED
      BY <1>0, <1>3, <2>5 DEF e
  <1>4. CASE ~Protected!Fenced(d[i]) /\ d[i] # "raw" /\ Protected!CommentStart(d, i) = 0
    <2>1. \A j \in i..Len(d) : d[j] \in {"comment", "remark"} =>
             \E m \in i..j : d[m] = "blank" \/ Protected!Fenced(d[m])
      BY <1>0, <1>4, CommentStartIs
    <2>3. SUFFICES /\ e = 0 \/ e \in i..Len(d)
                   /\ e # 0 => \A j \in i..e : d[j] = "raw" =>
                                 e = Len(d) \/ \E m \in i..e : d[m] \in Protected!Enders
      BY <1>0, <1>4, <2>1 DEF e
    <2>4. CASE d[i] = "note"
      <3>1. e = Protected!FootnoteEnd(d, i)
        BY <1>4, <2>4 DEF Protected!SpecialEnd
      <3> HIDE DEF e
      <3>2. e \in i..Len(d) /\ \A m \in (i + 1)..e : d[m] \in {"cont", "blank"}
        BY <3>1, FootnoteEndIs
      <3> QED
        BY <1>0, <2>4, <3>2
    <2>5. CASE d[i] = "open"
      <3>1. e = Protected!FirstFrom(d, i + 1, {"close"}, i)
        BY <1>4, <2>5 DEF Protected!SpecialEnd, Protected!DirectiveEnd
      <3> HIDE DEF e
      <3>2. e = i \/ (e \in (i + 1)..Len(d) /\ d[e] = "close")
        BY <1>0, <3>1, FirstFromIs
      <3> QED
        BY <1>0, <2>5, <3>2 DEF Protected!Enders
    <2>6. CASE d[i] = "math"
      <3>1. e = Protected!FirstFrom(d, i + 1, {"math"}, i)
        BY <1>4, <2>6 DEF Protected!SpecialEnd, Protected!MathEnd
      <3> HIDE DEF e
      <3>2. e = i \/ (e \in (i + 1)..Len(d) /\ d[e] = "math")
        BY <1>0, <3>1, FirstFromIs
      <3> QED
        BY <1>0, <2>6, <3>2 DEF Protected!Enders
    <2>7. CASE d[i] \notin {"note", "open", "math"} /\ i < Len(d) /\ d[i + 1] = "delim"
      <3>1. e = Protected!RunEnd(d, i + 1, {"row", "delim"})
        BY <1>4, <2>7 DEF Protected!SpecialEnd, Protected!TableEnd
      <3> HIDE DEF e
      <3>2. i + 1 \in 1..Len(d)
        BY <1>0, <2>7
      <3>3. e \in (i + 1)..Len(d) /\ \A m \in (i + 2)..e : d[m] \in {"row", "delim"}
        BY <1>0, <3>1, <3>2, RunEndIs
      <3>4. \A j \in i..e : d[j] # "raw"
        <4> TAKE j \in i..e
        <4>1. j = i \/ j = i + 1 \/ j \in (i + 2)..e
          BY <1>0, <3>3
        <4> QED
          BY <1>4, <2>7, <3>3, <4>1
      <3> QED
        BY <1>0, <3>3, <3>4
    <2>8. CASE d[i] \notin {"note", "open", "math"} /\ ~(i < Len(d) /\ d[i + 1] = "delim")
      <3>1. e = 0
        BY <1>4, <2>8 DEF Protected!SpecialEnd
      <3> QED
        BY <3>1
    <2> QED
      BY <2>4, <2>5, <2>6, <2>7, <2>8
  <1> QED
    BY <1>1, <1>2, <1>3, <1>4

\* The lines of the block that begins at i.  One that is not protected has no line the
\* editor cannot show, but in code; the code ends with its closing fence or the text.
LEMMA BlockIs ==
  ASSUME NEW d \in Seq(Protected!Kinds), NEW i \in 1..Len(d), d[i] # "blank"
  PROVE  LET b == Protected!Block(d, i)
         IN  /\ b.last \in i..Len(d) /\ b.kept \in BOOLEAN
             /\ ~b.kept => \A j \in i..b.last :
                             d[j] \in Protected!Unsupported => Protected!Fenced(d[i]) /\ j # i
             /\ ~b.kept /\ Protected!Fenced(d[i]) =>
                  /\ b.last = Len(d) \/ (b.last > i /\ d[b.last] \in Protected!Closers(d[i]))
                  /\ \A m \in (i + 1)..(b.last - 1) : d[m] \notin Protected!Closers(d[i])
             /\ ~b.kept /\ ~Protected!Fenced(d[i]) => \A j \in i..b.last : ~Protected!Fenced(d[j])
             /\ b.kept => \A j \in i..b.last : d[j] = "raw" /\ (\A m \in j..b.last : d[m] # "rawEnd") =>
                             b.last = Len(d) \/ \E m \in i..b.last : d[m] \in Protected!Enders
  <1> DEFINE s == Protected!SpecialEnd(d, i)
             e == Protected!ParagraphEnd(d, i)
             nested == e < Len(d) /\ d[e + 1] = "raw"
             b == Protected!Block(d, i)
  <1>0. i \in Nat /\ Len(d) \in Nat /\ \A j \in 1..Len(d) : d[j] \in Protected!Kinds
    OBVIOUS
  <1>1. /\ s = 0 \/ s \in i..Len(d)
        /\ s = 0 => /\ ~Protected!Fenced(d[i]) /\ d[i] # "raw"
                    /\ \A j \in i..Len(d) : d[j] \in {"comment", "remark"} =>
                         \E m \in i..j : d[m] = "blank" \/ Protected!Fenced(d[m])
        /\ Protected!Fenced(d[i]) =>
             /\ s = Len(d) \/ (s > i /\ d[s] \in Protected!Closers(d[i]))
             /\ \A m \in (i + 1)..(s - 1) : d[m] \notin Protected!Closers(d[i])
        /\ s # 0 => \A j \in i..s : d[j] = "raw" /\ (\A m \in j..s : d[m] # "rawEnd") =>
                      s = Len(d) \/ \E m \in i..s : d[m] \in Protected!Enders
    BY SpecialEndIs
  <1>2. CASE s # 0
    <2> DEFINE kept == ~Protected!Fenced(d[i]) \/ d[i] = "info"
    <2>1. b = [last |-> s, kept |-> kept]
      BY <1>2 DEF Protected!Block
    <2>4. kept \in BOOLEAN
      BY Zenon
    <2>5. ~kept => Protected!Fenced(d[i]) /\ d[i] \notin Protected!Unsupported
      BY DEF Protected!Fenced, Protected!FenceLines, Protected!Unsupported
    <2> HIDE DEF b, s, kept
    <2>2. b.last = s
      BY <2>1
    <2>3. b.kept = kept
      BY <2>1
    <2>6. ~b.kept => Protected!Fenced(d[i]) /\ d[i] \notin Protected!Unsupported
      BY <2>3, <2>5
    <2>7. b.kept \in BOOLEAN
      BY <2>3, <2>4
    <2>8. ~b.kept => \A j \in i..b.last :
                        d[j] \in Protected!Unsupported => Protected!Fenced(d[i]) /\ j # i
      BY <2>6
    <2> QED
      BY <1>1, <1>2, <2>2, <2>6, <2>7, <2>8 DEF b
  <1>3. CASE s = 0
    <2>1. e \in i..Len(d)
          /\ \A m \in (i + 1)..e : d[m] \in Protected!NotBlank \ (Protected!FenceLines \cup {"raw"})
      BY RunEndIs DEF Protected!ParagraphEnd
    <2>2. b = IF nested THEN [last |-> Protected!RawEnd(d, e + 1), kept |-> TRUE]
              ELSE [last |-> e, kept |-> Protected!ProtectsBlock(d, i, e)]
      BY <1>3 DEF Protected!Block
    <2> HIDE DEF e, s, b
    <2>3. \A m \in i..e : d[m] \notin {"raw", "blank"} /\ ~Protected!Fenced(d[m])
      <3> TAKE m \in i..e
      <3>1. m = i \/ m \in (i + 1)..e
        BY <1>0, <2>1
      <3> QED
        BY <1>1, <1>3, <2>1, <3>1 DEF Protected!Fenced, Protected!NotBlank
    <2>4. CASE nested
      <3>1. b.last = Protected!FirstFrom(d, e + 1, {"rawEnd"}, Len(d)) /\ b.kept = TRUE
        BY <2>2, <2>4 DEF Protected!RawEnd
      <3>2. e + 1 \in Nat /\ e + 1 <= Len(d)
        BY <1>0, <2>1, <2>4
      <3>3. \/ b.last = Len(d)
            \/ b.last \in (e + 1)..Len(d) /\ d[b.last] = "rawEnd"
        BY <3>1, <3>2, FirstFromIs
      <3>4. b.last \in i..Len(d)
        BY <1>0, <2>1, <3>2, <3>3
      <3>5. ASSUME NEW j \in i..b.last, \A m \in j..b.last : d[m] # "rawEnd"
            PROVE  b.last = Len(d)
        BY <1>0, <3>3, <3>4, <3>5
      <3> QED
        BY <3>1, <3>4, <3>5 DEF b
    <2>5. CASE ~nested
      <3>1. b.last = e /\ b.kept = Protected!ProtectsBlock(d, i, e)
        BY <2>2, <2>5
      <3>2. \A m \in i..e : d[m] \in Protected!Unsupported =>
              d[m] \in {"inline", "rawEnd", "note", "open", "close"}
        <4> TAKE m \in i..e
        <4>1. d[m] \notin {"comment", "remark"}
          <5> SUFFICES ASSUME d[m] \in {"comment", "remark"} PROVE FALSE
            OBVIOUS
          <5>1. m \in i..Len(d)
            BY <1>0, <2>1
          <5>2. PICK k \in i..m : d[k] = "blank" \/ Protected!Fenced(d[k])
            BY <1>1, <1>3, <5>1
          <5>3. k \in i..e
            BY <1>0, <2>1, <5>1
          <5> QED
            BY <2>3, <5>2, <5>3
        <4>2. d[m] # "raw" /\ d[m] # "info"
          BY <2>3 DEF Protected!Fenced, Protected!FenceLines
        <4> QED
          BY <4>1, <4>2 DEF Protected!Unsupported
      <3>3. ~b.kept => \A m \in i..e : d[m] \notin Protected!Unsupported
        BY <3>1, <3>2 DEF Protected!ProtectsBlock
      <3>4. b.kept \in BOOLEAN
        BY <3>1 DEF Protected!ProtectsBlock
      <3> QED
        BY <1>1, <1>3, <2>1, <2>3, <3>1, <3>3, <3>4 DEF b
    <2> QED
      BY <2>4, <2>5
  <1> QED
    BY <1>2, <1>3

\* the step of collectProtectedRanges: the ranges f from line i on
ScanStep(d, f, i) ==
  IF i > Len(d) THEN <<>>
  ELSE IF d[i] = "blank" THEN f[i + 1]
  ELSE (IF Protected!Block(d, i).kept THEN <<Protected!Span(i, Protected!Block(d, i).last)>> ELSE <<>>)
         \o f[Protected!Block(d, i).last + 1]

\* collectProtectedRanges goes from block to block.
LEMMA ScansStep ==
  ASSUME NEW d \in Seq(Protected!Kinds)
  PROVE  Protected!Scans(d) = [i \in 1..(Len(d) + 1) |-> ScanStep(d, Protected!Scans(d), i)]
  <1> DEFINE N == Len(d)
             Is(f, m) == f = [i \in (N + 1 - m)..(N + 1) |-> ScanStep(d, f, i)]
             T == {m \in 0..N : \E f : Is(f, m)}
  <1>0. N \in Nat
    OBVIOUS
  <1>1. 0 \in T
    <2>1. \A f : ScanStep(d, f, N + 1) = <<>>
      BY <1>0 DEF ScanStep
    <2> DEFINE g == [i \in (N + 1)..(N + 1) |-> <<>>]
    <2>2. g = [i \in (N + 1)..(N + 1) |-> ScanStep(d, g, i)]
      <3>1. \A i \in (N + 1)..(N + 1) : i = N + 1
        BY <1>0
      <3>2. \A i \in (N + 1)..(N + 1) : ScanStep(d, g, i) = <<>>
        BY <2>1, <3>1
      <3> QED
        BY <3>2
    <2>3. N + 1 - 0 = N + 1
      BY <1>0
    <2>4. Is(g, 0)
      BY <2>2, <2>3
    <2>5. 0 \in 0..N
      BY <1>0
    <2> HIDE DEF g, Is, N
    <2> QED
      BY <2>4, <2>5
  <1>2. ASSUME NEW m \in 0..N, m > 0, m - 1 \in T PROVE m \in T
    <2>1. PICK f : Is(f, m - 1)
      BY <1>2
    <2> DEFINE a == N + 1 - m
               g == [i \in a..(N + 1) |-> IF i = a THEN ScanStep(d, f, a) ELSE f[i]]
    <2>2. a \in 1..N /\ N + 1 - (m - 1) = a + 1
      BY <1>0, <1>2
    <2>3. ASSUME NEW i \in a..(N + 1) PROVE g[i] = ScanStep(d, g, i)
      <3>1. \A k \in (i + 1)..(N + 1) : k \in a..(N + 1) /\ k # a /\ g[k] = f[k]
        <4> HIDE DEF N, a
        <4> QED
          BY <1>0, <2>2
      <3>2. i \in 1..N /\ d[i] # "blank" => Protected!Block(d, i).last + 1 \in (i + 1)..(N + 1)
        <4> SUFFICES ASSUME i \in 1..N, d[i] # "blank"
                     PROVE  Protected!Block(d, i).last + 1 \in (i + 1)..(N + 1)
          OBVIOUS
        <4>1. Protected!Block(d, i).last \in i..N
          BY BlockIs
        <4> QED
          BY <1>0, <4>1
      <3>3. ~(i > N) => i \in 1..N /\ i + 1 \in (i + 1)..(N + 1)
        BY <1>0, <2>2
      <3>4. ScanStep(d, g, i) = ScanStep(d, f, i)
        <4> HIDE DEF g
        <4> QED
          BY <3>1, <3>2, <3>3 DEF ScanStep
      <3>5. i # a => f[i] = ScanStep(d, f, i)
        <4> SUFFICES ASSUME i # a PROVE f[i] = ScanStep(d, f, i)
          OBVIOUS
        <4>1. i \in (N + 1 - (m - 1))..(N + 1)
          BY <1>0, <2>2
        <4> QED
          BY <2>1, <4>1
      <3> QED
        BY <3>4, <3>5
    <2>4. Is(g, m)
      BY <2>3
    <2> QED
      BY <2>4
  <1>3. N \in T
    <2> HIDE DEF T, N
    <2> QED
      BY <1>0, <1>1, <1>2, UpTo
  <1>4. \E f : f = [i \in 1..(N + 1) |-> ScanStep(d, f, i)]
    <2>1. N + 1 - N = 1
      BY <1>0
    <2> QED
      BY <1>3, <2>1
  <1>5. Protected!Scans(d) = CHOOSE f : f = [i \in 1..(N + 1) |-> ScanStep(d, f, i)]
    BY DEF Protected!Scans, ScanStep
  <1> QED
    BY <1>4, <1>5

\* ranges of lines
Spans == [first : Int, last : Int]

\* The blocks of the text d that begin at the lines S and are not protected: one after
\* the other and beside the ranges r.
PlainBlocks(d, r, S) ==
  /\ \A a \in S : /\ d[a] # "blank" /\ ~Protected!Block(d, a).kept
                  /\ \A k \in 1..Len(r) : Protected!Block(d, a).last < r[k].first \/ r[k].last < a
  /\ \A a, b \in S : a < b => Protected!Block(d, a).last < b

\* The ranges r are of the blocks from line i on that are protected, in order; each
\* line from i on is blank, in a range, or in a block that is not protected.
RangesFrom(d, i, r) ==
  /\ r \in Seq(Spans)
  /\ \A k \in 1..Len(r) :
       /\ r[k].first \in i..Len(d) /\ d[r[k].first] # "blank"
       /\ Protected!Block(d, r[k].first).kept
       /\ r[k].last = Protected!Block(d, r[k].first).last
  /\ \A k, m \in 1..Len(r) : k < m => r[k].last < r[m].first
  /\ \E S \in SUBSET (i..Len(d)) :
       /\ PlainBlocks(d, r, S)
       /\ \A j \in i..Len(d) : \/ d[j] = "blank"
                               \/ \E k \in 1..Len(r) : r[k].first <= j /\ j <= r[k].last
                               \/ \E a \in S : a <= j /\ j <= Protected!Block(d, a).last

\* Below the last line there is no range.
LEMMA RangesNone ==
  ASSUME NEW d \in Seq(Protected!Kinds) PROVE RangesFrom(d, Len(d) + 1, <<>>)
  <1>1. Len(d) \in Nat /\ (Len(d) + 1)..Len(d) = {} /\ <<>> \in Seq(Spans) /\ Len(<<>>) = 0 /\ 1..0 = {}
    OBVIOUS
  <1>2. PlainBlocks(d, <<>>, {})
    BY DEF PlainBlocks
  <1> QED
    BY <1>1, <1>2 DEF RangesFrom

\* A blank line needs no range.
LEMMA RangesBlank ==
  ASSUME NEW d \in Seq(Protected!Kinds), NEW i \in 1..Len(d), NEW r, d[i] = "blank",
         RangesFrom(d, i + 1, r)
  PROVE  RangesFrom(d, i, r)
  <1>0. i \in Nat /\ Len(d) \in Nat
    OBVIOUS
  <1>1. /\ r \in Seq(Spans)
        /\ \A k \in 1..Len(r) :
             /\ r[k].first \in (i + 1)..Len(d) /\ d[r[k].first] # "blank"
             /\ Protected!Block(d, r[k].first).kept
             /\ r[k].last = Protected!Block(d, r[k].first).last
        /\ \A k, m \in 1..Len(r) : k < m => r[k].last < r[m].first
    BY DEF RangesFrom
  <1>2. \A k \in 1..Len(r) : r[k].first \in i..Len(d)
    BY <1>0, <1>1
  <1>3. PICK S \in SUBSET ((i + 1)..Len(d)) :
          /\ PlainBlocks(d, r, S)
          /\ \A j \in (i + 1)..Len(d) : \/ d[j] = "blank"
                                        \/ \E k \in 1..Len(r) : r[k].first <= j /\ j <= r[k].last
                                        \/ \E a \in S : a <= j /\ j <= Protected!Block(d, a).last
    BY DEF RangesFrom
  <1>4. S \in SUBSET (i..Len(d)) /\ \A j \in i..Len(d) : j = i \/ j \in (i + 1)..Len(d)
    BY <1>0
  <1> QED
    BY <1>1, <1>2, <1>3, <1>4 DEF RangesFrom

\* a sequence and the one element before it
LEMMA Prepended ==
  ASSUME NEW V, NEW x \in V, NEW r \in Seq(V)
  PROVE  LET s == <<x>> \o r
         IN  /\ s \in Seq(V) /\ Len(s) = Len(r) + 1 /\ s[1] = x
             /\ \A k \in 1..Len(s) : k # 1 => k - 1 \in 1..Len(r) /\ s[k] = r[k - 1]
             /\ \A k \in 1..Len(r) : k + 1 \in 1..Len(s) /\ s[k + 1] = r[k]
  OBVIOUS

\* The range of a protected block goes before those of the lines below it.
LEMMA RangesKept ==
  ASSUME NEW d \in Seq(Protected!Kinds), NEW i \in 1..Len(d), NEW r, d[i] # "blank",
         Protected!Block(d, i).kept, RangesFrom(d, Protected!Block(d, i).last + 1, r)
  PROVE  RangesFrom(d, i, <<Protected!Span(i, Protected!Block(d, i).last)>> \o r)
  <1> DEFINE e == Protected!Block(d, i).last
             x == Protected!Span(i, e)
             s == <<x>> \o r
  <1>0. i \in Nat /\ Len(d) \in Nat /\ e \in i..Len(d)
    BY BlockIs
  <1>1. x \in Spans /\ x.first = i /\ x.last = e
    BY <1>0 DEF Protected!Span, Spans
  <1> HIDE DEF x, e
  <1>2. /\ r \in Seq(Spans)
        /\ \A k \in 1..Len(r) :
             /\ r[k].first \in (e + 1)..Len(d) /\ d[r[k].first] # "blank"
             /\ Protected!Block(d, r[k].first).kept
             /\ r[k].last = Protected!Block(d, r[k].first).last
        /\ \A k, m \in 1..Len(r) : k < m => r[k].last < r[m].first
    BY DEF RangesFrom, e
  <1>3. /\ s \in Seq(Spans) /\ Len(s) = Len(r) + 1 /\ s[1] = x
        /\ \A k \in 1..Len(s) : k # 1 => k - 1 \in 1..Len(r) /\ s[k] = r[k - 1]
        /\ \A k \in 1..Len(r) : k + 1 \in 1..Len(s) /\ s[k + 1] = r[k]
    BY <1>1, <1>2, Prepended
  <1> HIDE DEF s
  <1>4. Len(r) \in Nat /\ Len(s) \in Nat /\ 1 \in 1..Len(s)
    BY <1>2, <1>3
  <1>5. ASSUME NEW k \in 1..Len(s)
        PROVE  /\ s[k].first \in i..Len(d) /\ d[s[k].first] # "blank"
               /\ Protected!Block(d, s[k].first).kept
               /\ s[k].last = Protected!Block(d, s[k].first).last
    <2>1. CASE k = 1
      BY <1>0, <1>1, <1>3, <2>1 DEF e
    <2>2. CASE k # 1
      <3>1. r[k - 1].first \in i..Len(d)
        BY <1>0, <1>2, <1>3, <2>2
      <3>2. k - 1 \in 1..Len(r) /\ s[k] = r[k - 1]
        BY <1>3, <2>2
      <3> QED
        BY <1>2, <3>1, <3>2, Zenon
    <2> QED
      BY <2>1, <2>2
  <1>6. ASSUME NEW k \in 1..Len(s), NEW m \in 1..Len(s), k < m
        PROVE  s[k].last < s[m].first
    <2>1. m # 1 /\ k - 1 < m - 1
      BY <1>4, <1>6
    <2>2. CASE k = 1
      <3>1. r[m - 1].first \in (e + 1)..Len(d)
        BY <1>2, <1>3, <2>1
      <3> QED
        BY <1>0, <1>1, <1>3, <2>1, <2>2, <3>1
    <2>3. CASE k # 1
      BY <1>2, <1>3, <2>1, <2>3
    <2> QED
      BY <2>2, <2>3
  <1>7. PICK S \in SUBSET ((e + 1)..Len(d)) :
          /\ PlainBlocks(d, r, S)
          /\ \A j \in (e + 1)..Len(d) : \/ d[j] = "blank"
                                        \/ \E k \in 1..Len(r) : r[k].first <= j /\ j <= r[k].last
                                        \/ \E a \in S : a <= j /\ j <= Protected!Block(d, a).last
    BY DEF RangesFrom, e
  <1>8. S \in SUBSET (i..Len(d)) /\ \A a \in S : e < a
    BY <1>0
  <1>9. PlainBlocks(d, s, S)
    <2>1. ASSUME NEW a \in S, NEW k \in 1..Len(s)
          PROVE  Protected!Block(d, a).last < s[k].first \/ s[k].last < a
      <3>1. CASE k = 1
        BY <1>1, <1>3, <1>8, <3>1
      <3>2. CASE k # 1
        BY <1>3, <1>7, <3>2 DEF PlainBlocks
      <3> QED
        BY <3>1, <3>2
    <2> QED
      BY <1>7, <2>1 DEF PlainBlocks
  <1>10. ASSUME NEW j \in i..Len(d)
         PROVE  \/ d[j] = "blank"
                \/ \E k \in 1..Len(s) : s[k].first <= j /\ j <= s[k].last
                \/ \E a \in S : a <= j /\ j <= Protected!Block(d, a).last
    <2>1. CASE j <= e
      BY <1>0, <1>1, <1>3, <1>4, <2>1
    <2>2. CASE ~(j <= e)
      <3>1. j \in (e + 1)..Len(d)
        BY <1>0, <2>2
      <3> QED
        BY <1>3, <1>7, <3>1
    <2> QED
      BY <2>1, <2>2
  <1> QED
    BY <1>3, <1>5, <1>6, <1>8, <1>9, <1>10 DEF RangesFrom, s, x, e

\* A block that is not protected has no range.
LEMMA RangesPlain ==
  ASSUME NEW d \in Seq(Protected!Kinds), NEW i \in 1..Len(d), NEW r, d[i] # "blank",
         ~Protected!Block(d, i).kept, RangesFrom(d, Protected!Block(d, i).last + 1, r)
  PROVE  RangesFrom(d, i, <<>> \o r)
  <1> DEFINE e == Protected!Block(d, i).last
  <1>0. i \in Nat /\ Len(d) \in Nat /\ e \in i..Len(d)
    BY BlockIs
  <1>1. /\ r \in Seq(Spans)
        /\ \A k \in 1..Len(r) :
             /\ r[k].first \in (e + 1)..Len(d) /\ d[r[k].first] # "blank"
             /\ Protected!Block(d, r[k].first).kept
             /\ r[k].last = Protected!Block(d, r[k].first).last
        /\ \A k, m \in 1..Len(r) : k < m => r[k].last < r[m].first
    BY DEF RangesFrom
  <1>2. <<>> \o r = r
    BY <1>1
  <1>3. \A k \in 1..Len(r) : r[k].first \in i..Len(d) /\ e < r[k].first
    BY <1>0, <1>1
  <1>4. PICK S \in SUBSET ((e + 1)..Len(d)) :
          /\ PlainBlocks(d, r, S)
          /\ \A j \in (e + 1)..Len(d) : \/ d[j] = "blank"
                                        \/ \E k \in 1..Len(r) : r[k].first <= j /\ j <= r[k].last
                                        \/ \E a \in S : a <= j /\ j <= Protected!Block(d, a).last
    BY DEF RangesFrom
  <1> DEFINE U == S \cup {i}
  <1>5. U \in SUBSET (i..Len(d)) /\ \A a \in S : e < a /\ i < a
    BY <1>0
  <1> HIDE DEF e
  <1>6. PlainBlocks(d, r, U)
    <2>1. ASSUME NEW a \in U, NEW k \in 1..Len(r)
          PROVE  Protected!Block(d, a).last < r[k].first \/ r[k].last < a
      BY <1>3, <1>4, <2>1 DEF PlainBlocks, e
    <2>2. ASSUME NEW a \in U, NEW b \in U, a < b PROVE Protected!Block(d, a).last < b
      <3>1. b \in S
        BY <1>0, <1>5, <2>2
      <3>2. CASE a = i
        BY <1>5, <3>1, <3>2 DEF e
      <3>3. CASE a \in S
        BY <1>4, <2>2, <3>1, <3>3 DEF PlainBlocks
      <3> QED
        BY <3>2, <3>3
    <2>3. \A a \in U : d[a] # "blank" /\ ~Protected!Block(d, a).kept
      BY <1>4 DEF PlainBlocks
    <2> QED
      BY <2>1, <2>2, <2>3 DEF PlainBlocks
  <1>7. ASSUME NEW j \in i..Len(d)
        PROVE  \/ d[j] = "blank"
               \/ \E k \in 1..Len(r) : r[k].first <= j /\ j <= r[k].last
               \/ \E a \in U : a <= j /\ j <= Protected!Block(d, a).last
    <2>1. CASE j <= e
      BY <1>0, <2>1 DEF e
    <2>2. CASE ~(j <= e)
      <3>1. j \in (e + 1)..Len(d)
        BY <1>0, <2>2
      <3> QED
        BY <1>4, <3>1
    <2> QED
      BY <2>1, <2>2
  <1> HIDE DEF U
  <1> QED
    BY <1>1, <1>2, <1>3, <1>5, <1>6, <1>7 DEF RangesFrom

\* The scan of the whole text, from each line on.
LEMMA ScansAre ==
  ASSUME NEW d \in Seq(Protected!Kinds)
  PROVE  RangesFrom(d, 1, Protected!Scan(d))
  <1> DEFINE N == Len(d)
             f == Protected!Scans(d)
             T == {m \in 0..N : \A i \in (N + 1 - m)..(N + 1) : RangesFrom(d, i, f[i])}
  <1>0. N \in Nat
    OBVIOUS
  <1>1. \A i \in 1..(N + 1) : f[i] = ScanStep(d, f, i)
    <2>1. f = [i \in 1..(N + 1) |-> ScanStep(d, f, i)]
      BY ScansStep
    <2> QED
      BY <2>1, Zenon
  <1> HIDE DEF f
  <1>2. 0 \in T
    <2>0. N + 1 \in 1..(N + 1) /\ N + 1 > N
      BY <1>0
    <2>1. f[N + 1] = <<>>
      <3> HIDE DEF N
      <3>1. f[N + 1] = ScanStep(d, f, N + 1)
        BY <1>1, <2>0
      <3> QED
        BY <2>0, <3>1 DEF ScanStep, N
    <2>2. RangesFrom(d, N + 1, f[N + 1])
      BY <2>1, RangesNone
    <2>3. \A i \in (N + 1 - 0)..(N + 1) : i = N + 1
      BY <1>0
    <2> HIDE DEF N
    <2> QED
      BY <1>0, <2>2, <2>3
  <1>3. ASSUME NEW m \in 0..N, m > 0, m - 1 \in T PROVE m \in T
    <2> DEFINE a == N + 1 - m
    <2>1. a \in 1..N /\ N + 1 - (m - 1) = a + 1 /\ a + 1 \in 1..(N + 1)
      BY <1>0, <1>3
    <2>2. \A i \in (a + 1)..(N + 1) : RangesFrom(d, i, f[i])
      BY <1>3, <2>1
    <2>3. RangesFrom(d, a, f[a])
      <3>1. f[a] = ScanStep(d, f, a) /\ ~(a > N)
        BY <1>0, <1>1, <2>1
      <3>2. CASE d[a] = "blank"
        <4>1. RangesFrom(d, a + 1, f[a + 1])
          BY <1>0, <2>1, <2>2
        <4>2. f[a] = f[a + 1]
          BY <3>1, <3>2 DEF ScanStep
        <4> HIDE DEF a, N
        <4> QED
          BY <2>1, <3>2, <4>1, <4>2, RangesBlank DEF N
      <3>3. CASE d[a] # "blank"
        <4> DEFINE b == Protected!Block(d, a)
        <4>1. b.last \in a..N
          BY <2>1, <3>3, BlockIs
        <4>2. b.last + 1 \in (a + 1)..(N + 1)
          BY <1>0, <2>1, <4>1
        <4>3. RangesFrom(d, b.last + 1, f[b.last + 1])
          BY <2>2, <4>2
        <4>4. f[a] = (IF b.kept THEN <<Protected!Span(a, b.last)>> ELSE <<>>) \o f[b.last + 1]
          BY <3>1, <3>3 DEF ScanStep
        <4>5. CASE b.kept
          <5>1. f[a] = <<Protected!Span(a, b.last)>> \o f[b.last + 1]
            BY <4>4, <4>5
          <5> HIDE DEF a
          <5> QED
            BY <2>1, <3>3, <4>3, <4>5, <5>1, RangesKept
        <4>6. CASE ~b.kept
          <5>1. f[a] = <<>> \o f[b.last + 1]
            BY <4>4, <4>6
          <5> HIDE DEF a
          <5> QED
            BY <2>1, <3>3, <4>3, <4>6, <5>1, RangesPlain
        <4> QED
          BY <4>5, <4>6
      <3> QED
        BY <3>2, <3>3
    <2>4. \A i \in a..(N + 1) : i = a \/ i \in (a + 1)..(N + 1)
      BY <1>0, <2>1
    <2>5. \A i \in a..(N + 1) : RangesFrom(d, i, f[i])
      BY <2>2, <2>3, <2>4
    <2> QED
      BY <2>5
  <1>4. N \in T
    <2> HIDE DEF T, N
    <2> QED
      BY <1>0, <1>2, <1>3, UpTo
  <1>5. N + 1 - N = 1 /\ 1 \in 1..(N + 1)
    BY <1>0
  <1>6. RangesFrom(d, 1, f[1])
    BY <1>4, <1>5
  <1> QED
    BY <1>6 DEF Protected!Scan, f

\* the step of FlattenSeq: the elements of the first i sequences of s
FlatStep(s, f, i) == IF i = 1 THEN s[i] ELSE f[i - 1] \o s[i]

Flats(s) == CHOOSE f : f = [i \in 1..Len(s) |-> FlatStep(s, f, i)]

\* Flats is one function, each value made from the one before.
LEMMA FlatsStep ==
  ASSUME NEW s, Len(s) \in Nat \ {0}
  PROVE  /\ Flats(s) = [i \in 1..Len(s) |-> FlatStep(s, Flats(s), i)]
         /\ Protected!FlattenSeq(s) = Flats(s)[Len(s)]
  <1> DEFINE N == Len(s)
             Is(f, m) == f = [i \in 1..m |-> FlatStep(s, f, i)]
             T == {m \in 0..N : \E f : Is(f, m)}
  <1>1. 0 \in T
    <2> DEFINE g == [i \in 1..0 |-> <<>>]
    <2>1. Is(g, 0)
      <3>1. \A i \in 1..0 : FlatStep(s, g, i) = <<>>
        OBVIOUS
      <3> QED
        BY <3>1
    <2>2. 0 \in 0..N
      OBVIOUS
    <2> HIDE DEF g, Is, N
    <2> QED
      BY <2>1, <2>2
  <1>2. ASSUME NEW m \in 0..N, m > 0, m - 1 \in T PROVE m \in T
    <2>1. PICK f : Is(f, m - 1)
      BY <1>2
    <2> DEFINE g == [i \in 1..m |-> IF i = m THEN FlatStep(s, f, m) ELSE f[i]]
    <2>2. ASSUME NEW i \in 1..m PROVE g[i] = FlatStep(s, g, i)
      <3>1. i # 1 => i - 1 \in 1..m /\ i - 1 # m /\ g[i - 1] = f[i - 1]
        OBVIOUS
      <3>2. FlatStep(s, g, i) = FlatStep(s, f, i)
        BY <3>1 DEF FlatStep
      <3>3. i # m => f[i] = FlatStep(s, f, i)
        BY <2>1
      <3> QED
        BY <3>2, <3>3
    <2>3. Is(g, m)
      BY <2>2
    <2> QED
      BY <2>3
  <1>3. N \in T
    <2> HIDE DEF T
    <2>1. 0..N \subseteq T
      BY <1>1, <1>2, UpTo
    <2> QED
      BY <2>1
  <1>4. \E f : Is(f, N)
    BY <1>3
  <1>5. Flats(s) = CHOOSE f : Is(f, N)
    BY DEF Flats
  <1>6. Flats(s) = [i \in 1..Len(s) |-> FlatStep(s, Flats(s), i)]
    BY <1>4, <1>5
  <1>7. Protected!FlattenSeq(s) = Flats(s)[Len(s)]
    BY DEF Protected!FlattenSeq, Flats, FlatStep
  <1> QED
    BY <1>6, <1>7

\* Sequences are put together one after the other.
LEMMA FlattenNone == Protected!FlattenSeq(<<>>) = <<>>
  BY DEF Protected!FlattenSeq

\* The elements of the sequences of a sequence, one after the other.
LEMMA FlattenIs ==
  ASSUME NEW E, NEW s \in Seq(Seq(E))
  PROVE  Protected!FlattenSeq(s) \in Seq(E)
  <1>1. CASE Len(s) = 0
    <2>1. s = <<>> /\ <<>> \in Seq(E)
      BY <1>1
    <2> QED
      BY <2>1, FlattenNone
  <1>2. CASE Len(s) # 0
    <2> DEFINE f == Flats(s)
               T == {m \in 0..Len(s) : m # 0 => f[m] \in Seq(E)}
    <2>1. Len(s) \in Nat \ {0}
      BY <1>2
    <2>2. /\ f = [i \in 1..Len(s) |-> FlatStep(s, f, i)]
          /\ Protected!FlattenSeq(s) = f[Len(s)]
      BY <2>1, FlatsStep
    <2> HIDE DEF f
    <2>3. 0 \in T
      BY <2>1
    <2>4. ASSUME NEW m \in 0..Len(s), m > 0, m - 1 \in T PROVE m \in T
      <3>0. m \in 1..Len(s)
        BY <2>1, <2>4
      <3>1. f[m] = FlatStep(s, f, m)
        BY <2>2, <3>0
      <3>4. s[m] \in Seq(E)
        BY <3>0
      <3>2. m # 1 => f[m - 1] \in Seq(E)
        BY <2>4
      <3>3. f[m] \in Seq(E)
        BY <3>1, <3>2, <3>4 DEF FlatStep
      <3> QED
        BY <3>3
    <2>5. Len(s) \in T
      <3> HIDE DEF T
      <3>1. 0..Len(s) \subseteq T
        BY <2>1, <2>3, <2>4, UpTo
      <3> QED
        BY <2>1, <3>1
    <2> QED
      BY <2>1, <2>2, <2>5
  <1> QED
    BY <1>1, <1>2

\* One more sequence comes after the others.
LEMMA FlattenNext ==
  ASSUME NEW E, NEW s \in Seq(Seq(E)), NEW x \in Seq(E)
  PROVE  Protected!FlattenSeq(Append(s, x)) = Protected!FlattenSeq(s) \o x
  <1> DEFINE t == Append(s, x)
             g == Flats(t)
  <1>1. /\ Len(t) = Len(s) + 1 /\ Len(s) \in Nat /\ Len(t) \in Nat \ {0}
        /\ t[Len(t)] = x /\ \A i \in 1..Len(s) : t[i] = s[i]
    OBVIOUS
  <1>2. /\ g = [i \in 1..Len(t) |-> FlatStep(t, g, i)]
        /\ Protected!FlattenSeq(t) = g[Len(t)]
    BY <1>1, FlatsStep
  <1> HIDE DEF t, g
  <1>3. CASE Len(s) = 0
    <2>1. s = <<>> /\ <<>> \o x = x
      BY <1>3
    <2>2. g[1] = x
      BY <1>1, <1>2, <1>3 DEF FlatStep
    <2> QED
      BY <1>1, <1>2, <1>3, <2>1, <2>2, FlattenNone DEF t
  <1>4. CASE Len(s) # 0
    <2> DEFINE f == Flats(s)
               T == {m \in 0..Len(s) : m # 0 => f[m] = g[m]}
    <2>1. Len(s) \in Nat \ {0}
      BY <1>1, <1>4
    <2>2. /\ f = [i \in 1..Len(s) |-> FlatStep(s, f, i)]
          /\ Protected!FlattenSeq(s) = f[Len(s)]
      BY <2>1, FlatsStep
    <2> HIDE DEF f
    <2>3. 0 \in T
      BY <2>1
    <2>4. ASSUME NEW m \in 0..Len(s), m > 0, m - 1 \in T PROVE m \in T
      <3>0. m \in 1..Len(s) /\ m \in 1..Len(t)
        BY <1>1, <2>1, <2>4
      <3>1. f[m] = FlatStep(s, f, m) /\ g[m] = FlatStep(t, g, m) /\ s[m] = t[m]
        BY <1>1, <1>2, <2>2, <3>0
      <3>2. m # 1 => f[m - 1] = g[m - 1]
        BY <2>4
      <3>3. f[m] = g[m]
        BY <3>1, <3>2 DEF FlatStep
      <3> QED
        BY <3>3
    <2>5. Len(s) \in T
      <3> HIDE DEF T
      <3>1. 0..Len(s) \subseteq T
        BY <2>1, <2>3, <2>4, UpTo
      <3> QED
        BY <2>1, <3>1
    <2>6. f[Len(s)] = g[Len(s)]
      BY <2>1, <2>5
    <2>7. g[Len(t)] = g[Len(s)] \o x
      <3>1. g[Len(t)] = FlatStep(t, g, Len(t))
        BY <1>1, <1>2
      <3>2. Len(t) # 1 /\ Len(t) - 1 = Len(s)
        BY <1>1, <1>4
      <3> QED
        BY <1>1, <3>1, <3>2 DEF FlatStep
    <2> QED
      BY <1>2, <2>2, <2>6, <2>7 DEF t
  <1> QED
    BY <1>3, <1>4

\* One more sequence of one element.
LEMMA FlattenSingle ==
  ASSUME NEW E, NEW s \in Seq(Seq(E)), NEW p \in Seq(Seq(E)), NEW w \in Seq(E), NEW q \in Seq(E),
         NEW e \in E, Protected!FlattenSeq(s \o p) = w \o q
  PROVE  Protected!FlattenSeq(s \o Append(p, <<e>>)) = w \o Append(q, e)
  <1>1. s \o Append(p, <<e>>) = Append(s \o p, <<e>>)
    OBVIOUS
  <1>2. s \o p \in Seq(Seq(E)) /\ <<e>> \in Seq(E)
    OBVIOUS
  <1>3. Protected!FlattenSeq(s \o Append(p, <<e>>)) = Protected!FlattenSeq(s \o p) \o <<e>>
    BY <1>1, <1>2, FlattenNext
  <1>4. (w \o q) \o <<e>> = w \o Append(q, e)
    <2>1. \A r \in Seq(E) : r \o <<e>> = Append(r, e)
      OBVIOUS
    <2>2. w \o q \in Seq(E)
      OBVIOUS
    <2>3. w \o Append(q, e) = Append(w \o q, e)
      OBVIOUS
    <2> QED
      BY <2>1, <2>2, <2>3
  <1> QED
    BY <1>3, <1>4

\* ... and the elements of one, each on its own.
LEMMA FlattenSingles ==
  ASSUME NEW E, NEW s \in Seq(Seq(E)), NEW x \in Seq(E)
  PROVE  Protected!FlattenSeq(s \o [i \in 1..Len(x) |-> <<x[i]>>]) = Protected!FlattenSeq(s) \o x
  <1> DEFINE p(m) == [i \in 1..m |-> <<x[i]>>]
             q(m) == [i \in 1..m |-> x[i]]
             w == Protected!FlattenSeq(s)
             T == {m \in 0..Len(x) : Protected!FlattenSeq(s \o p(m)) = w \o q(m)}
  <1>0. Len(x) \in Nat /\ w \in Seq(E)
    BY FlattenIs
  <1> HIDE DEF w
  <1>1. 0 \in T
    <2>1. p(0) = <<>> /\ q(0) = <<>>
      OBVIOUS
    <2>2. s \o <<>> = s /\ w \o <<>> = w
      BY <1>0
    <2> QED
      BY <1>0, <2>1, <2>2 DEF w
  <1>2. ASSUME NEW m \in 0..Len(x), m > 0, m - 1 \in T PROVE m \in T
    <2>1. p(m - 1) \in Seq(Seq(E)) /\ q(m - 1) \in Seq(E) /\ x[m] \in E
      BY <1>0, <1>2
    <2>2. p(m) = Append(p(m - 1), <<x[m]>>) /\ q(m) = Append(q(m - 1), x[m])
      BY <1>0, <1>2
    <2>3. Protected!FlattenSeq(s \o p(m - 1)) = w \o q(m - 1)
      BY <1>2
    <2> HIDE DEF p, q
    <2>4. Protected!FlattenSeq(s \o Append(p(m - 1), <<x[m]>>)) = w \o Append(q(m - 1), x[m])
      BY <1>0, <2>1, <2>3, FlattenSingle
    <2>5. Protected!FlattenSeq(s \o p(m)) = w \o q(m)
      BY <2>2, <2>4
    <2> QED
      BY <2>5
  <1>3. Len(x) \in T
    <2> HIDE DEF T
    <2>1. 0..Len(x) \subseteq T
      BY <1>0, <1>1, <1>2, UpTo
    <2> QED
      BY <1>0, <2>1
  <1>4. q(Len(x)) = x
    OBVIOUS
  <1> QED
    BY <1>3, <1>4 DEF w

\* what a text of the editor is made of: lines, and the first n tokens
AnyLine     == {Protected!Line(x) : x \in Protected!Kinds \cup {"typed"}}
Elements(n) == AnyLine \cup {Protected!Token(k) : k \in 1..n}

\* No token is in the text twice.
DistinctTokens(s) == \A i, j \in 1..Len(s) : s[i][1] = "token" /\ s[i] = s[j] => i = j

\* what an element stands for when the text is restored
Piece(x)  == IF x[1] = "token" THEN Protected!Source(x[2]) ELSE <<x>>
Pieces(s) == [i \in 1..Len(s) |-> Piece(s[i])]

\* A line is a line and a token is a token.
LEMMA LineIs == \A x \in AnyLine : x[1] = "line"
  BY DEF AnyLine, Protected!Line

LEMMA TokenIs ==
  \A k : Protected!Token(k)[1] = "token" /\ Protected!Token(k)[2] = k
  BY DEF Protected!Token

\* An element of the text is one or the other.
LEMMA ElementIs ==
  ASSUME NEW n \in Nat, NEW x \in Elements(n)
  PROVE  \/ x \in AnyLine /\ x[1] = "line"
         \/ x[1] = "token" /\ x[2] \in 1..n /\ x = Protected!Token(x[2])
  BY LineIs, TokenIs DEF Elements

\* The lines of the text from a to b.
LEMMA LinesAre ==
  ASSUME NEW d \in Seq(Protected!Kinds), NEW a \in Nat, NEW b \in Nat, 1 <= a, a <= b + 1, b <= Len(d)
  PROVE  /\ Protected!Lines(d, a, b) \in Seq(AnyLine) /\ Len(Protected!Lines(d, a, b)) = b - a + 1
         /\ \A i \in 1..(b - a + 1) : Protected!Lines(d, a, b)[i] = Protected!Line(d[a + i - 1])
  <1> DEFINE l == Protected!Lines(d, a, b)
  <1>1. b - a + 1 \in Nat /\ l = [i \in 1..(b - a + 1) |-> Protected!Line(d[a + i - 1])]
    BY DEF Protected!Lines
  <1>2. \A i \in 1..(b - a + 1) : Protected!Line(d[a + i - 1]) \in AnyLine
    <2>1. \A i \in 1..(b - a + 1) : a + i - 1 \in 1..Len(d)
      OBVIOUS
    <2> QED
      BY <2>1 DEF AnyLine
  <1> HIDE DEF l
  <1> QED
    BY <1>1, <1>2 DEF l

\* two sequences, one after the other
LEMMA Joined ==
  ASSUME NEW E, NEW s \in Seq(E), NEW t \in Seq(E)
  PROVE  /\ s \o t \in Seq(E) /\ Len(s \o t) = Len(s) + Len(t)
         /\ \A i \in 1..Len(s) : (s \o t)[i] = s[i]
         /\ \A i \in 1..Len(t) : (s \o t)[Len(s) + i] = t[i]
  OBVIOUS

\* Sequences of the same elements are the same.
LEMMA SameSequence ==
  ASSUME NEW E, NEW s \in Seq(E), NEW t \in Seq(E), Len(s) = Len(t), \A i \in 1..Len(s) : s[i] = t[i]
  PROVE  s = t
  <1>1. s = [i \in 1..Len(s) |-> s[i]] /\ t = [i \in 1..Len(t) |-> t[i]]
    OBVIOUS
  <1> QED
    BY <1>1, Zenon

\* The lines from a to b, then those up to c.
LEMMA LinesJoin ==
  ASSUME NEW d \in Seq(Protected!Kinds), NEW a \in Nat, NEW b \in Nat, NEW c \in Nat,
         1 <= a, a <= b + 1, b <= c, c <= Len(d)
  PROVE  Protected!Lines(d, a, b) \o Protected!Lines(d, b + 1, c) = Protected!Lines(d, a, c)
  <1> DEFINE l == Protected!Lines(d, a, b)
             m == Protected!Lines(d, b + 1, c)
             n == Protected!Lines(d, a, c)
  <1>0. /\ Len(d) \in Nat /\ b + 1 \in Nat /\ 1 <= b + 1 /\ b + 1 <= c + 1
        /\ b <= Len(d) /\ a <= c + 1
    OBVIOUS
  <1>1. /\ l \in Seq(AnyLine) /\ Len(l) = b - a + 1
        /\ \A i \in 1..(b - a + 1) : l[i] = Protected!Line(d[a + i - 1])
    BY <1>0, LinesAre, Zenon
  <1>2. /\ m \in Seq(AnyLine) /\ Len(m) = c - (b + 1) + 1
        /\ \A i \in 1..(c - (b + 1) + 1) : m[i] = Protected!Line(d[b + 1 + i - 1])
    BY <1>0, LinesAre, Zenon
  <1>3. /\ n \in Seq(AnyLine) /\ Len(n) = c - a + 1
        /\ \A i \in 1..(c - a + 1) : n[i] = Protected!Line(d[a + i - 1])
    BY <1>0, LinesAre, Zenon
  <1> HIDE DEF l, m, n
  <1>4. /\ l \o m \in Seq(AnyLine) /\ Len(l \o m) = Len(l) + Len(m)
        /\ \A i \in 1..Len(l) : (l \o m)[i] = l[i]
        /\ \A i \in 1..Len(m) : (l \o m)[Len(l) + i] = m[i]
    <2>1. l \in Seq(AnyLine) /\ m \in Seq(AnyLine)
      BY <1>1, <1>2
    <2> QED
      BY <2>1, Joined
  <1>5. Len(l \o m) = Len(n)
    BY <1>1, <1>2, <1>3, <1>4
  <1>6. ASSUME NEW i \in 1..Len(n) PROVE (l \o m)[i] = n[i]
    <2>1. CASE i <= b - a + 1
      <3>1. i \in 1..Len(l) /\ i \in 1..(b - a + 1)
        BY <1>1, <1>3, <2>1
      <3> QED
        BY <1>1, <1>3, <1>4, <3>1
    <2>2. CASE ~(i <= b - a + 1)
      <3> DEFINE j == i - (b - a + 1)
      <3>1. j \in 1..(c - (b + 1) + 1) /\ b + 1 + j - 1 = a + i - 1 /\ i = Len(l) + j
        BY <1>1, <1>3, <2>2
      <3> HIDE DEF j
      <3>2. (l \o m)[i] = m[j]
        BY <1>2, <1>4, <3>1
      <3> QED
        BY <1>2, <1>3, <3>1, <3>2
    <2> QED
      BY <2>1, <2>2
  <1>7. l \o m = n
    <2>1. Len(l \o m) = Len(n) /\ \A i \in 1..Len(l \o m) : (l \o m)[i] = n[i]
      BY <1>5, <1>6, Zenon
    <2> QED
      BY <1>3, <1>4, <2>1, SameSequence, Zenon
  <1> QED
    BY <1>7 DEF l, m, n

-----------------------------------------------------------------------------

\* the step of restoreMarkdownFromNovel
PutStep(s, f, k) == IF k = 0 THEN s ELSE Protected!Put(f[k - 1], k)

\* Texts is one function, each value made from the one before.
LEMMA TextsStep ==
  ASSUME NEW s, Len(v2) \in Nat
  PROVE  Protected!Texts(s) = [k \in 0..Len(v2) |-> PutStep(s, Protected!Texts(s), k)]
  <1> DEFINE N == Len(v2)
             Is(f, m) == f = [k \in 0..m |-> PutStep(s, f, k)]
             T == {m \in 0..N : \E f : Is(f, m)}
  <1>1. 0 \in T
    <2> DEFINE g == [k \in 0..0 |-> s]
    <2>1. Is(g, 0)
      <3>1. \A k \in 0..0 : PutStep(s, g, k) = s
        BY DEF PutStep
      <3> QED
        BY <3>1
    <2>2. 0 \in 0..N
      OBVIOUS
    <2> HIDE DEF g, Is, N
    <2> QED
      BY <2>1, <2>2
  <1>2. ASSUME NEW m \in 0..N, m > 0, m - 1 \in T PROVE m \in T
    <2>1. PICK f : Is(f, m - 1)
      BY <1>2
    <2> DEFINE g == [k \in 0..m |-> IF k = m THEN PutStep(s, f, m) ELSE f[k]]
    <2>2. ASSUME NEW k \in 0..m PROVE g[k] = PutStep(s, g, k)
      <3>1. k > 0 => k - 1 \in 0..m /\ k - 1 # m /\ g[k - 1] = f[k - 1]
        OBVIOUS
      <3>2. PutStep(s, g, k) = PutStep(s, f, k)
        BY <3>1 DEF PutStep
      <3>3. k # m => f[k] = PutStep(s, f, k)
        BY <2>1
      <3> QED
        BY <3>2, <3>3
    <2>3. Is(g, m)
      BY <2>2
    <2> QED
      BY <2>3
  <1>3. N \in T
    <2> HIDE DEF T
    <2>1. 0..N \subseteq T
      BY <1>1, <1>2, UpTo
    <2> QED
      BY <2>1
  <1>4. \E f : Is(f, N)
    BY <1>3
  <1>5. Protected!Texts(s) = CHOOSE f : Is(f, N)
    BY DEF Protected!Texts, PutStep
  <1> QED
    BY <1>4, <1>5

\* the text s when the first k tokens have their sources
Given(s, k) == [i \in 1..Len(s) |-> IF s[i][1] = "token" /\ s[i][2] <= k
                                    THEN <<"source", s[i][2]>> ELSE s[i]]

\* Each token is replaced where it is.
LEMMA TokenPut ==
  ASSUME NEW n \in Nat, NEW s \in Seq(Elements(n)), DistinctTokens(s), NEW k \in 1..n
  PROVE  Protected!Put(Given(s, k - 1), k) = Given(s, k)
  <1> DEFINE t == Given(s, k - 1)
             at == {i \in DOMAIN t : t[i] = Protected!Token(k)}
  <1>1. \A i \in 1..Len(s) : \/ s[i] \in AnyLine /\ s[i][1] = "line"
                             \/ s[i][1] = "token" /\ s[i][2] \in 1..n /\ s[i] = Protected!Token(s[i][2])
    <2>1. \A i \in 1..Len(s) : s[i] \in Elements(n)
      OBVIOUS
    <2> QED
      BY <2>1, ElementIs
  <1>2. DOMAIN t = 1..Len(s) /\ Len(s) \in Nat
    BY DEF Given
  <1>3. \A i \in 1..Len(s) : t[i] = IF s[i][1] = "token" /\ s[i][2] <= k - 1
                                    THEN <<"source", s[i][2]>> ELSE s[i]
    BY DEF Given
  <1> HIDE DEF t
  <1>4. \A x : <<"source", x>> # Protected!Token(k)
    BY DEF Protected!Token
  <1>5. \A i \in 1..Len(s) : t[i] = Protected!Token(k) <=> s[i] = Protected!Token(k)
    <2> TAKE i \in 1..Len(s)
    <2>1. ASSUME s[i] = Protected!Token(k) PROVE t[i] = s[i]
      <3>1. s[i][2] = k
        BY <2>1, TokenIs
      <3>2. ~(k <= k - 1)
        OBVIOUS
      <3>3. t[i] = IF s[i][1] = "token" /\ s[i][2] <= k - 1 THEN <<"source", s[i][2]>> ELSE s[i]
        BY <1>3
      <3> QED
        BY <3>1, <3>2, <3>3
    <2>2. ASSUME t[i] = Protected!Token(k) PROVE t[i] = s[i]
      <3>1. t[i] = IF s[i][1] = "token" /\ s[i][2] <= k - 1 THEN <<"source", s[i][2]>> ELSE s[i]
        BY <1>3
      <3>2. t[i] = <<"source", s[i][2]>> \/ t[i] = s[i]
        BY <3>1
      <3> QED
        BY <1>4, <2>2, <3>2
    <2> QED
      BY <2>1, <2>2
  <1>6. \A i \in 1..Len(s) : s[i] # Protected!Token(k) =>
           (s[i][1] = "token" /\ s[i][2] <= k <=> s[i][1] = "token" /\ s[i][2] <= k - 1)
    <2> TAKE i \in 1..Len(s)
    <2>1. s[i][1] = "token" => s[i][2] \in 1..n /\ s[i] = Protected!Token(s[i][2])
      BY <1>1
    <2> QED
      BY <2>1
  <1>7. CASE at = {}
    <2>1. \A i \in 1..Len(s) : s[i] # Protected!Token(k)
      BY <1>2, <1>5, <1>7
    <2>2. Given(s, k) = [i \in 1..Len(s) |-> IF s[i][1] = "token" /\ s[i][2] <= k - 1
                                             THEN <<"source", s[i][2]>> ELSE s[i]]
      BY <1>6, <2>1 DEF Given
    <2>3. Given(s, k) = t
      BY <2>2 DEF t, Given
    <2> QED
      BY <1>7, <2>3 DEF Protected!Put, t
  <1>8. CASE at # {}
    <2>1. at \in SUBSET Nat
      BY <1>2
    <2> DEFINE m == Protected!Min(at)
    <2>2. m \in at
      BY <1>8, <2>1, LeastOf
    <2>3. Protected!Put(t, k) = [t EXCEPT ![m] = <<"source", k>>]
      BY <1>8 DEF Protected!Put
    <2> HIDE DEF m
    <2>4. m \in 1..Len(s) /\ s[m] = Protected!Token(k)
      BY <1>2, <1>5, <2>2
    <2>5. s[m][1] = "token" /\ s[m][2] = k
      BY <2>4, TokenIs
    <2>6. \A i \in 1..Len(s) : i # m => s[i] # Protected!Token(k)
      BY <2>4, <2>5 DEF DistinctTokens
    <2>7. [t EXCEPT ![m] = <<"source", k>>] = [i \in 1..Len(s) |-> IF i = m THEN <<"source", k>> ELSE t[i]]
      BY <1>2, <1>3, <2>4 DEF t, Given
    <2>8. \A i \in 1..Len(s) : (IF i = m THEN <<"source", k>> ELSE t[i])
             = IF s[i][1] = "token" /\ s[i][2] <= k THEN <<"source", s[i][2]>> ELSE s[i]
      BY <1>3, <1>6, <2>5, <2>6
    <2>9. Given(s, k) = [i \in 1..Len(s) |-> IF i = m THEN <<"source", k>> ELSE t[i]]
      BY <2>8 DEF Given
    <2> QED
      BY <2>3, <2>7, <2>9 DEF t
  <1> QED
    BY <1>7, <1>8

\* After the k-th step the first k tokens have their source.
LEMMA TextsAre ==
  ASSUME Len(v2) \in Nat, NEW s \in Seq(Elements(Len(v2))), DistinctTokens(s)
  PROVE  Protected!Texts(s)[Len(v2)] = Given(s, Len(v2))
  <1> DEFINE N == Len(v2)
             f == Protected!Texts(s)
             T == {k \in 0..N : f[k] = Given(s, k)}
  <1>1. \A k \in 0..N : f[k] = PutStep(s, f, k)
    <2>1. f = [k \in 0..N |-> PutStep(s, f, k)]
      BY TextsStep
    <2> QED
      BY <2>1, Zenon
  <1> HIDE DEF f
  <1>2. 0 \in T
    <2>1. f[0] = s /\ 0 \in 0..N
      BY <1>1 DEF PutStep
    <2>2. \A i \in 1..Len(s) : ~(s[i][1] = "token" /\ s[i][2] <= 0)
      <3> TAKE i \in 1..Len(s)
      <3>1. s[i] \in Elements(N)
        OBVIOUS
      <3>2. \/ s[i] \in AnyLine /\ s[i][1] = "line"
            \/ s[i][1] = "token" /\ s[i][2] \in 1..N /\ s[i] = Protected!Token(s[i][2])
        BY <3>1, ElementIs
      <3> QED
        BY <3>2
    <2>3. Given(s, 0) = [i \in 1..Len(s) |-> s[i]]
      BY <2>2 DEF Given
    <2>4. [i \in 1..Len(s) |-> s[i]] = s
      OBVIOUS
    <2> QED
      BY <2>1, <2>3, <2>4
  <1>3. ASSUME NEW k \in 0..N, k > 0, k - 1 \in T PROVE k \in T
    <2>1. f[k] = Protected!Put(f[k - 1], k) /\ f[k - 1] = Given(s, k - 1) /\ k \in 1..N
      BY <1>1, <1>3 DEF PutStep
    <2>2. Protected!Put(Given(s, k - 1), k) = Given(s, k)
      <3> HIDE DEF N
      <3> QED
        BY <2>1, TokenPut DEF N
    <2> QED
      BY <2>1, <2>2
  <1>4. N \in T
    <2> HIDE DEF T
    <2>1. 0..N \subseteq T
      BY <1>2, <1>3, UpTo
    <2> QED
      BY <2>1
  <1> QED
    BY <1>4 DEF f

\* What is saved is the sources and the lines, in the editor's order.
LEMMA RestoredIs ==
  ASSUME Len(v2) \in Nat, NEW s \in Seq(Elements(Len(v2))), DistinctTokens(s)
  PROVE  Protected!Restored(s) = Protected!FlattenSeq(Pieces(s))
  <1> DEFINE N == Len(v2)
             t == Protected!Texts(s)[N]
             p == [i \in DOMAIN s |-> IF t[i][1] = "source" THEN Protected!Source(t[i][2]) ELSE <<t[i]>>]
  <1>1. t = Given(s, N)
    BY TextsAre
  <1>2. DOMAIN s = 1..Len(s)
    OBVIOUS
  <1>3. Protected!Restored(s) = Protected!FlattenSeq(p)
    BY DEF Protected!Restored
  <1> HIDE DEF t
  <1>4. ASSUME NEW i \in 1..Len(s)
        PROVE  (IF t[i][1] = "source" THEN Protected!Source(t[i][2]) ELSE <<t[i]>>) = Piece(s[i])
    <2>1. \/ s[i] \in AnyLine /\ s[i][1] = "line"
          \/ s[i][1] = "token" /\ s[i][2] \in 1..N /\ s[i] = Protected!Token(s[i][2])
      <3>1. s[i] \in Elements(N)
        OBVIOUS
      <3> QED
        BY <3>1, ElementIs
    <2>2. t[i] = IF s[i][1] = "token" /\ s[i][2] <= N THEN <<"source", s[i][2]>> ELSE s[i]
      BY <1>1 DEF Given
    <2>3. CASE s[i][1] = "line"
      <3>1. t[i] = s[i]
        BY <2>2, <2>3
      <3> QED
        BY <2>3, <3>1 DEF Piece
    <2>4. CASE s[i][1] = "token" /\ s[i][2] \in 1..N
      <3>1. t[i] = <<"source", s[i][2]>>
        BY <2>2, <2>4
      <3>2. t[i][1] = "source" /\ t[i][2] = s[i][2]
        BY <3>1
      <3> QED
        BY <2>4, <3>2 DEF Piece
    <2> QED
      BY <2>1, <2>3, <2>4
  <1>5. p = Pieces(s)
    BY <1>2, <1>4 DEF Pieces
  <1> QED
    BY <1>3, <1>5

\* The ranges are those of the whole text that was opened.
ScanOK == v1 \in Seq(Protected!Kinds) /\ RangesFrom(v1, 1, v2)

\* What a scan says of its ranges.
LEMMA RangeIs ==
  ASSUME ScanOK
  PROVE  /\ v1 \in Seq(Protected!Kinds) /\ v2 \in Seq(Spans) /\ Len(v2) \in Nat /\ Len(v1) \in Nat
         /\ \A k \in 1..Len(v2) :
              /\ v2[k].first \in Nat /\ v2[k].last \in Nat /\ 1 <= v2[k].first
              /\ v2[k].first <= v2[k].last /\ v2[k].last <= Len(v1)
         /\ \A k \in 1..Len(v2) : k > 1 => k - 1 \in 1..Len(v2) /\ v2[k - 1].last < v2[k].first
  <1>1. /\ v1 \in Seq(Protected!Kinds) /\ v2 \in Seq(Spans) /\ Len(v2) \in Nat /\ Len(v1) \in Nat
        /\ \A k \in 1..Len(v2) :
             /\ v2[k].first \in 1..Len(v1) /\ v1[v2[k].first] # "blank"
             /\ v2[k].last = Protected!Block(v1, v2[k].first).last
        /\ \A k, m \in 1..Len(v2) : k < m => v2[k].last < v2[m].first
    BY DEF ScanOK, RangesFrom
  <1>2. ASSUME NEW k \in 1..Len(v2)
        PROVE  /\ v2[k].first \in Nat /\ v2[k].last \in Nat /\ 1 <= v2[k].first
               /\ v2[k].first <= v2[k].last /\ v2[k].last <= Len(v1)
    <2>1. v2[k].last \in v2[k].first..Len(v1)
      BY <1>1, BlockIs
    <2> QED
      BY <1>1, <2>1
  <1>3. ASSUME NEW k \in 1..Len(v2), k > 1
        PROVE  k - 1 \in 1..Len(v2) /\ v2[k - 1].last < v2[k].first
    <2>1. k - 1 \in 1..Len(v2) /\ k - 1 < k
      BY <1>1, <1>3
    <2> QED
      BY <1>1, <2>1
  <1> QED
    BY <1>1, <1>2, <1>3

\* What an element stands for is lines.
LEMMA PieceIs ==
  ASSUME ScanOK, NEW n \in 0..Len(v2), NEW x \in Elements(n)
  PROVE  Piece(x) \in Seq(AnyLine)
  <1>0. Len(v2) \in Nat /\ n \in Nat
    BY RangeIs
  <1>1. \/ x \in AnyLine /\ x[1] = "line"
        \/ x[1] = "token" /\ x[2] \in 1..n /\ x = Protected!Token(x[2])
    BY <1>0, ElementIs
  <1>2. CASE x[1] = "line" /\ x \in AnyLine
    <2>1. Piece(x) = <<x>>
      BY <1>2 DEF Piece
    <2> QED
      BY <1>2, <2>1
  <1>3. CASE x[1] = "token" /\ x[2] \in 1..n
    <2>1. PICK k \in 1..Len(v2) : k = x[2]
      BY <1>0, <1>3
    <2>2. Piece(x) = Protected!Lines(v1, v2[k].first, v2[k].last)
      BY <1>3, <2>1 DEF Piece, Protected!Source
    <2>3. /\ v2[k].first \in Nat /\ v2[k].last \in Nat /\ 1 <= v2[k].first
          /\ v2[k].first <= v2[k].last /\ v2[k].last <= Len(v1) /\ v1 \in Seq(Protected!Kinds)
      BY RangeIs
    <2>4. v2[k].first <= v2[k].last + 1
      BY <2>3
    <2> QED
      BY <2>2, <2>3, <2>4, LinesAre
  <1> QED
    BY <1>1, <1>2, <1>3

\* What a text stands for is sequences of lines.
LEMMA PiecesAre ==
  ASSUME ScanOK, NEW n \in 0..Len(v2), NEW s \in Seq(Elements(n))
  PROVE  Pieces(s) \in Seq(Seq(AnyLine)) /\ Len(Pieces(s)) = Len(s)
  <1>1. \A i \in 1..Len(s) : s[i] \in Elements(n)
    OBVIOUS
  <1>2. \A i \in 1..Len(s) : Piece(s[i]) \in Seq(AnyLine)
    BY <1>1, PieceIs
  <1>3. Len(s) \in Nat
    OBVIOUS
  <1> QED
    BY <1>2, <1>3 DEF Pieces

\* Lines after a text.
LEMMA WithLines ==
  ASSUME ScanOK, NEW n \in 0..Len(v2), NEW s \in Seq(Elements(n)), DistinctTokens(s),
         NEW l \in Seq(AnyLine)
  PROVE  /\ s \o l \in Seq(Elements(n)) /\ DistinctTokens(s \o l)
         /\ Protected!FlattenSeq(Pieces(s \o l)) = Protected!FlattenSeq(Pieces(s)) \o l
  <1> DEFINE t == s \o l
             p == [i \in 1..Len(l) |-> <<l[i]>>]
  <1>1. l \in Seq(Elements(n))
    BY DEF Elements
  <1>2. /\ t \in Seq(Elements(n)) /\ Len(t) = Len(s) + Len(l)
        /\ \A i \in 1..Len(s) : t[i] = s[i]
        /\ \A i \in 1..Len(l) : t[Len(s) + i] = l[i]
    BY <1>1, Joined
  <1> HIDE DEF t
  <1>3. Len(s) \in Nat /\ Len(l) \in Nat /\ Len(t) \in Nat
    BY <1>2
  <1>4. \A i \in 1..Len(l) : l[i] \in AnyLine /\ l[i][1] = "line"
    BY LineIs
  <1>5. \A i \in 1..Len(t) : i \in 1..Len(s) \/ (i - Len(s) \in 1..Len(l) /\ t[i] = l[i - Len(s)])
    <2> TAKE i \in 1..Len(t)
    <2>1. SUFFICES ASSUME i \notin 1..Len(s)
                   PROVE  i - Len(s) \in 1..Len(l) /\ t[i] = l[i - Len(s)]
      OBVIOUS
    <2>2. i - Len(s) \in 1..Len(l) /\ i = Len(s) + (i - Len(s))
      BY <1>2, <1>3, <2>1
    <2> QED
      BY <1>2, <2>2
  <1>6. DistinctTokens(t)
    <2>1. \A i \in 1..Len(t) : t[i][1] = "token" => i \in 1..Len(s) /\ t[i] = s[i]
      BY <1>2, <1>4, <1>5
    <2> QED
      BY <2>1 DEF DistinctTokens
  <1>7. /\ p \in Seq(Seq(AnyLine)) /\ Len(p) = Len(l)
        /\ \A i \in 1..Len(l) : p[i] = <<l[i]>>
    BY <1>3, <1>4
  <1> HIDE DEF p
  <1>8. Pieces(s) \in Seq(Seq(AnyLine)) /\ Len(Pieces(s)) = Len(s)
        /\ Pieces(t) \in Seq(Seq(AnyLine)) /\ Len(Pieces(t)) = Len(t)
    BY <1>2, PiecesAre
  <1>9. /\ Pieces(s) \o p \in Seq(Seq(AnyLine)) /\ Len(Pieces(s) \o p) = Len(Pieces(s)) + Len(p)
        /\ \A i \in 1..Len(Pieces(s)) : (Pieces(s) \o p)[i] = Pieces(s)[i]
        /\ \A i \in 1..Len(p) : (Pieces(s) \o p)[Len(Pieces(s)) + i] = p[i]
    <2>1. Pieces(s) \in Seq(Seq(AnyLine)) /\ p \in Seq(Seq(AnyLine))
      BY <1>7, <1>8
    <2> QED
      BY <2>1, Joined
  <1>10. ASSUME NEW i \in 1..Len(t) PROVE Pieces(t)[i] = (Pieces(s) \o p)[i]
    <2>0. Pieces(t)[i] = Piece(t[i])
      BY DEF Pieces
    <2>1. CASE i \in 1..Len(s)
      <3>1. Pieces(s)[i] = Piece(s[i])
        BY <2>1 DEF Pieces
      <3> QED
        BY <1>2, <1>8, <1>9, <2>0, <2>1, <3>1
    <2>2. CASE i \notin 1..Len(s)
      <3>1. PICK j \in 1..Len(l) : i = Len(s) + j /\ t[i] = l[j]
        BY <1>3, <1>5, <2>2
      <3>2. Piece(t[i]) = <<l[j]>>
        BY <1>4, <3>1 DEF Piece
      <3>3. (Pieces(s) \o p)[i] = p[j]
        BY <1>7, <1>8, <1>9, <3>1
      <3> QED
        BY <1>7, <2>0, <3>2, <3>3
    <2> QED
      BY <2>1, <2>2
  <1>11. Pieces(t) = Pieces(s) \o p
    <2>1. Len(Pieces(s) \o p) = Len(t) /\ Len(Pieces(t)) = Len(t)
      BY <1>2, <1>7, <1>8, <1>9
    <2>2. \A i \in 1..Len(Pieces(t)) : Pieces(t)[i] = (Pieces(s) \o p)[i]
      BY <1>10, <2>1, Zenon
    <2>3. Len(Pieces(t)) = Len(Pieces(s) \o p) /\ Pieces(t) \in Seq(Seq(AnyLine))
          /\ Pieces(s) \o p \in Seq(Seq(AnyLine))
      BY <1>8, <1>9, <2>1
    <2> QED
      BY <2>2, <2>3, SameSequence, Zenon
  <1>12. Protected!FlattenSeq(Pieces(s) \o p) = Protected!FlattenSeq(Pieces(s)) \o l
    <2>1. Pieces(s) \in Seq(Seq(AnyLine))
      BY <1>8
    <2> QED
      BY <2>1, FlattenSingles DEF p
  <1> QED
    BY <1>2, <1>6, <1>11, <1>12 DEF t

\* The next token after a text.
LEMMA WithToken ==
  ASSUME ScanOK, NEW k \in 1..Len(v2), NEW s \in Seq(Elements(k - 1)), DistinctTokens(s)
  PROVE  LET t == s \o <<Protected!Token(k)>>
         IN  /\ t \in Seq(Elements(k)) /\ DistinctTokens(t)
             /\ Protected!FlattenSeq(Pieces(t)) = Protected!FlattenSeq(Pieces(s)) \o Protected!Source(k)
  <1> DEFINE x == Protected!Token(k)
             t == s \o <<x>>
  <1>0. Len(v2) \in Nat /\ k - 1 \in Nat /\ k \in 0..Len(v2) /\ k - 1 \in 0..Len(v2)
    BY RangeIs
  <1>1. x[1] = "token" /\ x[2] = k /\ x \in Elements(k)
    <2>1. k \in 1..k
      BY <1>0
    <2> QED
      BY <2>1, TokenIs DEF Elements
  <1>2. \A y \in Elements(k - 1) : y \in Elements(k) /\ y # x
    <2> TAKE y \in Elements(k - 1)
    <2>1. \/ y \in AnyLine /\ y[1] = "line"
          \/ y[1] = "token" /\ y[2] \in 1..(k - 1) /\ y = Protected!Token(y[2])
      BY <1>0, ElementIs
    <2>2. \A m \in 1..(k - 1) : m \in 1..k /\ m # k
      BY <1>0
    <2> QED
      BY <1>1, <2>1, <2>2 DEF Elements
  <1> HIDE DEF x
  <1>3. s \in Seq(Elements(k)) /\ Len(s) \in Nat /\ \A i \in 1..Len(s) : s[i] # x
    BY <1>2
  <1>4. /\ t \in Seq(Elements(k)) /\ Len(t) = Len(s) + 1 /\ t[Len(s) + 1] = x
        /\ \A i \in 1..Len(s) : t[i] = s[i]
    BY <1>1, <1>3
  <1> HIDE DEF t
  <1>5. \A i \in 1..Len(t) : i \in 1..Len(s) \/ i = Len(s) + 1
    BY <1>3, <1>4
  <1>6. DistinctTokens(t)
    <2>1. ASSUME NEW i \in 1..Len(t), NEW j \in 1..Len(t), t[i][1] = "token", t[i] = t[j]
          PROVE  i = j
      <3>1. CASE i \in 1..Len(s) /\ j \in 1..Len(s)
        BY <1>4, <2>1, <3>1 DEF DistinctTokens
      <3>2. CASE i = Len(s) + 1 \/ j = Len(s) + 1
        BY <1>3, <1>4, <1>5, <2>1, <3>2
      <3> QED
        BY <1>5, <3>1, <3>2
    <2> QED
      BY <2>1 DEF DistinctTokens
  <1>7. /\ Pieces(s) \in Seq(Seq(AnyLine)) /\ Len(Pieces(s)) = Len(s)
        /\ Pieces(t) \in Seq(Seq(AnyLine)) /\ Len(Pieces(t)) = Len(t)
    BY <1>0, <1>4, PiecesAre
  <1>8. Protected!Source(k) \in Seq(AnyLine) /\ Piece(x) = Protected!Source(k)
    <2>1. Piece(x) = Protected!Source(k)
      BY <1>1 DEF Piece
    <2>2. Piece(x) \in Seq(AnyLine)
      BY <1>0, <1>1, PieceIs
    <2> QED
      BY <2>1, <2>2
  <1>9. Pieces(t) = Append(Pieces(s), Protected!Source(k))
    <2> DEFINE q == Append(Pieces(s), Protected!Source(k))
    <2>1. /\ q \in Seq(Seq(AnyLine)) /\ Len(q) = Len(s) + 1 /\ q[Len(s) + 1] = Protected!Source(k)
          /\ \A i \in 1..Len(s) : q[i] = Pieces(s)[i]
      <3>1. \A a \in Seq(Seq(AnyLine)), b \in Seq(AnyLine) :
               /\ Append(a, b) \in Seq(Seq(AnyLine)) /\ Len(Append(a, b)) = Len(a) + 1
               /\ Append(a, b)[Len(a) + 1] = b
               /\ \A i \in 1..Len(a) : Append(a, b)[i] = a[i]
        OBVIOUS
      <3> QED
        BY <1>7, <1>8, <3>1
    <2> HIDE DEF q
    <2>2. ASSUME NEW i \in 1..Len(Pieces(t)) PROVE Pieces(t)[i] = q[i]
      <3>1. i \in 1..Len(t)
        BY <1>7
      <3>2. Pieces(t)[i] = Piece(t[i])
        BY <3>1 DEF Pieces
      <3>3. CASE i \in 1..Len(s)
        <4>1. Pieces(s)[i] = Piece(s[i])
          BY <3>3 DEF Pieces
        <4> QED
          BY <1>4, <2>1, <3>2, <3>3, <4>1
      <3>4. CASE i = Len(s) + 1
        BY <1>4, <1>8, <2>1, <3>2, <3>4
      <3> QED
        BY <1>5, <3>1, <3>3, <3>4
    <2>3. Len(Pieces(t)) = Len(q) /\ Pieces(t) \in Seq(Seq(AnyLine))
      BY <1>4, <1>7, <2>1
    <2>4. Pieces(t) = q
      BY <2>1, <2>2, <2>3, SameSequence, Zenon
    <2> QED
      BY <2>4 DEF q
  <1>10. Protected!FlattenSeq(Pieces(t)) = Protected!FlattenSeq(Pieces(s)) \o Protected!Source(k)
    <2>1. Pieces(s) \in Seq(Seq(AnyLine)) /\ Protected!Source(k) \in Seq(AnyLine)
      BY <1>7, <1>8
    <2> QED
      BY <1>9, <2>1, FlattenNext
  <1> QED
    BY <1>4, <1>6, <1>10 DEF t, x

-----------------------------------------------------------------------------

\* the step of prepareMarkdownForNovel: up to the end of the k-th range
OutputStep(d, r, f, k) ==
  IF k = 0 THEN <<>>
  ELSE f[k - 1] \o Protected!Lines(d, IF k = 1 THEN 1 ELSE r[k - 1].last + 1, r[k].first - 1)
                \o <<Protected!Token(k)>>

\* Outputs is one function, each value made from the one before.
LEMMA OutputsStep ==
  ASSUME NEW d, NEW r, Len(r) \in Nat
  PROVE  Protected!Outputs(d, r) = [k \in 0..Len(r) |-> OutputStep(d, r, Protected!Outputs(d, r), k)]
  <1> DEFINE N == Len(r)
             Is(f, m) == f = [k \in 0..m |-> OutputStep(d, r, f, k)]
             T == {m \in 0..N : \E f : Is(f, m)}
  <1>1. 0 \in T
    <2> DEFINE g == [k \in 0..0 |-> <<>>]
    <2>1. Is(g, 0)
      <3>1. \A k \in 0..0 : OutputStep(d, r, g, k) = <<>>
        BY DEF OutputStep
      <3> QED
        BY <3>1
    <2>2. 0 \in 0..N
      OBVIOUS
    <2> HIDE DEF g, Is, N
    <2> QED
      BY <2>1, <2>2
  <1>2. ASSUME NEW m \in 0..N, m > 0, m - 1 \in T PROVE m \in T
    <2>1. PICK f : Is(f, m - 1)
      BY <1>2
    <2> DEFINE g == [k \in 0..m |-> IF k = m THEN OutputStep(d, r, f, m) ELSE f[k]]
    <2>2. ASSUME NEW k \in 0..m PROVE g[k] = OutputStep(d, r, g, k)
      <3>1. k > 0 => k - 1 \in 0..m /\ k - 1 # m /\ g[k - 1] = f[k - 1]
        OBVIOUS
      <3>2. OutputStep(d, r, g, k) = OutputStep(d, r, f, k)
        BY <3>1 DEF OutputStep
      <3>3. k # m => f[k] = OutputStep(d, r, f, k)
        BY <2>1
      <3> QED
        BY <3>2, <3>3
    <2>3. Is(g, m)
      BY <2>2
    <2> QED
      BY <2>3
  <1>3. N \in T
    <2> HIDE DEF T
    <2>1. 0..N \subseteq T
      BY <1>1, <1>2, UpTo
    <2> QED
      BY <2>1
  <1>4. \E f : Is(f, N)
    BY <1>3
  <1>5. Protected!Outputs(d, r) = CHOOSE f : Is(f, N)
    BY DEF Protected!Outputs, OutputStep
  <1> QED
    BY <1>4, <1>5

\* The text up to the end of the k-th range has its tokens once, and its lines.
LEMMA OutputsAre ==
  ASSUME ScanOK, NEW k \in 0..Len(v2)
  PROVE  LET o == Protected!Outputs(v1, v2)[k]
         IN  /\ o \in Seq(Elements(k)) /\ DistinctTokens(o)
             /\ Protected!FlattenSeq(Pieces(o))
                  = Protected!Lines(v1, 1, IF k = 0 THEN 0 ELSE v2[k].last)
  <1> DEFINE f == Protected!Outputs(v1, v2)
             e(m) == IF m = 0 THEN 0 ELSE v2[m].last
             Good(m) == /\ f[m] \in Seq(Elements(m)) /\ DistinctTokens(f[m])
                        /\ Protected!FlattenSeq(Pieces(f[m])) = Protected!Lines(v1, 1, e(m))
             T == {m \in 0..Len(v2) : Good(m)}
  <1>0. /\ v1 \in Seq(Protected!Kinds) /\ v2 \in Seq(Spans) /\ Len(v2) \in Nat /\ Len(v1) \in Nat
        /\ \A m \in 1..Len(v2) :
             /\ v2[m].first \in Nat /\ v2[m].last \in Nat /\ 1 <= v2[m].first
             /\ v2[m].first <= v2[m].last /\ v2[m].last <= Len(v1)
        /\ \A m \in 1..Len(v2) : m > 1 => m - 1 \in 1..Len(v2) /\ v2[m - 1].last < v2[m].first
    BY RangeIs
  <1>1. \A m \in 0..Len(v2) : f[m] = OutputStep(v1, v2, f, m)
    <2>1. f = [m \in 0..Len(v2) |-> OutputStep(v1, v2, f, m)]
      BY <1>0, OutputsStep
    <2> QED
      BY <2>1, Zenon
  <1> HIDE DEF f
  <1>2. 0 \in T
    <2>0. 0 \in 0..Len(v2)
      BY <1>0
    <2>1. f[0] = <<>>
      <3>1. f[0] = OutputStep(v1, v2, f, 0)
        BY <1>1, <2>0
      <3> QED
        BY <3>1 DEF OutputStep
    <2>2. <<>> \in Seq(Elements(0)) /\ Len(<<>>) = 0 /\ 1..0 = {}
      OBVIOUS
    <2>3. DistinctTokens(<<>>)
      BY <2>2 DEF DistinctTokens
    <2>4. Pieces(<<>>) = <<>>
      BY <2>2 DEF Pieces
    <2>5. Protected!Lines(v1, 1, 0) = <<>>
      BY DEF Protected!Lines
    <2>6. e(0) = 0
      OBVIOUS
    <2> QED
      BY <2>0, <2>1, <2>2, <2>3, <2>4, <2>5, <2>6, FlattenNone
  <1>3. ASSUME NEW m \in 0..Len(v2), m > 0, m - 1 \in T PROVE m \in T
    <2> DEFINE a == e(m - 1)
               b == v2[m].first
               c == v2[m].last
               l == Protected!Lines(v1, a + 1, b - 1)
    <2>0. m # 0
      BY <1>3
    <2>1. m \in 1..Len(v2) /\ m - 1 \in 0..Len(v2) /\ Good(m - 1)
      BY <1>0, <1>3
    <2>2. /\ a \in Nat /\ b \in Nat /\ c \in Nat /\ a < b /\ b <= c /\ c <= Len(v1) /\ 1 <= b
          /\ a + 1 = IF m = 1 THEN 1 ELSE v2[m - 1].last + 1
      <3>1. CASE m = 1
        BY <1>0, <2>1, <3>1
      <3>2. CASE m # 1
        <4>1. m > 1 /\ m - 1 # 0
          BY <1>0, <2>1, <3>2
        <4> QED
          BY <1>0, <2>1, <3>2, <4>1
      <3> QED
        BY <3>1, <3>2
    <2>3. f[m] = (f[m - 1] \o l) \o <<Protected!Token(m)>>
      <3>1. f[m] = OutputStep(v1, v2, f, m)
        BY <1>1
      <3>2. f[m] = f[m - 1] \o Protected!Lines(v1, IF m = 1 THEN 1 ELSE v2[m - 1].last + 1, v2[m].first - 1)
                            \o <<Protected!Token(m)>>
        BY <2>0, <3>1, Zenon DEF OutputStep
      <3>3. v2[m].first - 1 = b - 1
        OBVIOUS
      <3> HIDE DEF a, b
      <3> QED
        BY <2>2, <3>2, <3>3
    <2> HIDE DEF e, a, b, c
    <2>4. /\ 1 \in Nat /\ 1 <= 1 /\ a + 1 \in Nat /\ b - 1 \in Nat /\ 1 <= a + 1
          /\ a + 1 <= (b - 1) + 1 /\ b - 1 <= Len(v1) /\ a <= b - 1
          /\ b - 1 <= c /\ 1 <= (b - 1) + 1 /\ (b - 1) + 1 = b
      BY <1>0, <2>2
    <2>5. l \in Seq(AnyLine)
      BY <1>0, <2>4, LinesAre
    <2>6. /\ f[m - 1] \in Seq(Elements(m - 1)) /\ DistinctTokens(f[m - 1])
          /\ Protected!FlattenSeq(Pieces(f[m - 1])) = Protected!Lines(v1, 1, a)
      BY <2>1 DEF a
    <2> DEFINE o == f[m - 1] \o l
    <2>7. /\ o \in Seq(Elements(m - 1)) /\ DistinctTokens(o)
          /\ Protected!FlattenSeq(Pieces(o)) = Protected!FlattenSeq(Pieces(f[m - 1])) \o l
      <3> HIDE DEF l
      <3> QED
        BY <2>1, <2>5, <2>6, WithLines
    <2>8. Protected!Lines(v1, 1, a) \o l = Protected!Lines(v1, 1, b - 1)
      <3>1. /\ v1 \in Seq(Protected!Kinds) /\ 1 \in Nat /\ a \in Nat /\ b - 1 \in Nat
            /\ 1 <= 1 /\ 1 <= a + 1 /\ a <= b - 1 /\ b - 1 <= Len(v1)
        BY <1>0, <2>2, <2>4
      <3> QED
        BY <3>1, LinesJoin, Zenon
    <2>9. /\ f[m] \in Seq(Elements(m)) /\ DistinctTokens(f[m])
          /\ Protected!FlattenSeq(Pieces(f[m])) = Protected!FlattenSeq(Pieces(o)) \o Protected!Source(m)
      <3>1. f[m] = o \o <<Protected!Token(m)>>
        BY <2>3
      <3> HIDE DEF o
      <3> QED
        BY <2>1, <2>7, <3>1, WithToken
    <2>10. Protected!Lines(v1, 1, b - 1) \o Protected!Source(m) = Protected!Lines(v1, 1, c)
      <3>1. Protected!Source(m) = Protected!Lines(v1, (b - 1) + 1, c)
        BY <2>4 DEF Protected!Source, b, c
      <3>2. Protected!Lines(v1, 1, b - 1) \o Protected!Lines(v1, (b - 1) + 1, c) = Protected!Lines(v1, 1, c)
        BY <1>0, <2>2, <2>4, LinesJoin
      <3> QED
        BY <3>1, <3>2
    <2>11. e(m) = c
      BY <2>1 DEF e, c
    <2>12. Protected!FlattenSeq(Pieces(f[m])) = Protected!Lines(v1, 1, e(m))
      <3> HIDE DEF l, o
      <3> QED
        BY <2>6, <2>7, <2>8, <2>9, <2>10, <2>11
    <2> QED
      BY <1>3, <2>9, <2>12
  <1>4. k \in T
    <2> HIDE DEF T
    <2>1. 0..Len(v2) \subseteq T
      BY <1>0, <1>2, <1>3, UpTo
    <2> QED
      BY <2>1
  <1> QED
    BY <1>4 DEF f

\* The text the editor gets.
LEMMA PreparedIs ==
  ASSUME ScanOK
  PROVE  LET p == Protected!Prepared(v1, v2)
         IN  /\ p \in Seq(Elements(Len(v2))) /\ DistinctTokens(p)
             /\ Protected!FlattenSeq(Pieces(p)) = Protected!Lines(v1, 1, Len(v1))
  <1> DEFINE n == Len(v2)
             o == Protected!Outputs(v1, v2)[n]
             a == IF n = 0 THEN 0 ELSE v2[n].last
             l == Protected!Lines(v1, a + 1, Len(v1))
  <1>0. /\ v1 \in Seq(Protected!Kinds) /\ v2 \in Seq(Spans) /\ n \in Nat /\ Len(v1) \in Nat
        /\ n # 0 => v2[n].last \in Nat /\ v2[n].last <= Len(v1)
    BY RangeIs
  <1>1. a \in Nat /\ a <= Len(v1) /\ a + 1 \in Nat /\ 1 <= a + 1 /\ a + 1 <= Len(v1) + 1 /\ n \in 0..n
    BY <1>0
  <1>2. Protected!Prepared(v1, v2) = o \o l
    <2>1. v2 = <<>> <=> n = 0
      BY <1>0
    <2>2. (IF v2 = <<>> THEN 1 ELSE v2[Len(v2)].last + 1) = a + 1
      BY <2>1
    <2> QED
      BY <2>2 DEF Protected!Prepared
  <1>3. /\ o \in Seq(Elements(n)) /\ DistinctTokens(o)
        /\ Protected!FlattenSeq(Pieces(o)) = Protected!Lines(v1, 1, a)
    BY <1>1, OutputsAre
  <1> HIDE DEF o, a
  <1>4. l \in Seq(AnyLine)
    BY <1>0, <1>1, LinesAre
  <1>5. Protected!Lines(v1, 1, a) \o l = Protected!Lines(v1, 1, Len(v1))
    <2>1. 1 \in Nat /\ 1 <= 1 /\ 1 <= a + 1 /\ Len(v1) <= Len(v1)
      BY <1>0, <1>1
    <2> QED
      BY <1>0, <1>1, <2>1, LinesJoin
  <1> HIDE DEF l
  <1>6. /\ o \o l \in Seq(Elements(n)) /\ DistinctTokens(o \o l)
        /\ Protected!FlattenSeq(Pieces(o \o l)) = Protected!FlattenSeq(Pieces(o)) \o l
    BY <1>1, <1>3, <1>4, WithLines
  <1> QED
    BY <1>2, <1>3, <1>5, <1>6

-----------------------------------------------------------------------------

\* What the editor has is lines and tokens, each token once, and the text that is
\* meant is their lines; before any edit that is the text that was opened.
TextOK ==
  /\ v3 \in Seq(Elements(Len(v2))) /\ DistinctTokens(v3) /\ v4 = Pieces(v3) /\ v5 \in Nat
  /\ v5 = 0 => Protected!FlattenSeq(v4) = Protected!Lines(v1, 1, Len(v1))

\* What is prepared for the editor is the text that was opened.
LEMMA TextStart ==
  ASSUME Documents \subseteq Seq(Protected!Kinds), Protected!TextInit PROVE ScanOK /\ TextOK
  <1>1. /\ v1 \in Documents /\ v2 = Protected!Scan(v1) /\ v3 = Protected!Prepared(v1, v2) /\ v5 = 0
        /\ v4 = [i \in DOMAIN v3 |-> IF v3[i][1] = "token" THEN Protected!Source(v3[i][2])
                                     ELSE <<v3[i]>>]
    BY DEF Protected!TextInit
  <1>2. v1 \in Seq(Protected!Kinds)
    BY <1>1
  <1>3. ScanOK
    <2>1. RangesFrom(v1, 1, v2)
      BY <1>1, <1>2, ScansAre
    <2> QED
      BY <1>2, <2>1 DEF ScanOK
  <1>4. /\ v3 \in Seq(Elements(Len(v2))) /\ DistinctTokens(v3)
        /\ Protected!FlattenSeq(Pieces(v3)) = Protected!Lines(v1, 1, Len(v1))
    BY <1>1, <1>3, PreparedIs
  <1>5. v4 = Pieces(v3)
    <2>1. DOMAIN v3 = 1..Len(v3)
      BY <1>4
    <2> QED
      BY <1>1, <2>1 DEF Pieces, Piece
  <1> QED
    BY <1>1, <1>3, <1>4, <1>5 DEF TextOK

\* An element less, an element more.
LEMMA Removed ==
  ASSUME NEW E, NEW s \in Seq(E), NEW i \in 1..Len(s)
  PROVE  LET t == Protected!RemoveAt(s, i)
         IN  /\ t \in Seq(E) /\ Len(t) = Len(s) - 1
             /\ \A k \in 1..(Len(s) - 1) : t[k] = IF k < i THEN s[k] ELSE s[k + 1]
  <1> DEFINE x == SubSeq(s, 1, i - 1)
             y == SubSeq(s, i + 1, Len(s))
             t == x \o y
  <1>0. Len(s) \in Nat
    OBVIOUS
  <1>1. x \in Seq(E) /\ Len(x) = i - 1 /\ \A k \in 1..(i - 1) : x[k] = s[k]
    OBVIOUS
  <1>2. /\ y \in Seq(E) /\ Len(y) = Len(s) - i
        /\ \A k \in 1..(Len(s) - i) : y[k] = s[i + k]
    OBVIOUS
  <1> HIDE DEF x, y
  <1>3. /\ t \in Seq(E) /\ Len(t) = Len(x) + Len(y)
        /\ \A k \in 1..Len(x) : t[k] = x[k]
        /\ \A k \in 1..Len(y) : t[Len(x) + k] = y[k]
    <2>1. x \in Seq(E) /\ y \in Seq(E)
      BY <1>1, <1>2
    <2> QED
      BY <2>1, Joined
  <1> HIDE DEF t
  <1>4. ASSUME NEW k \in 1..(Len(s) - 1) PROVE t[k] = IF k < i THEN s[k] ELSE s[k + 1]
    <2>1. CASE k < i
      BY <1>1, <1>3, <2>1
    <2>2. CASE ~(k < i)
      <3> DEFINE j == k - (i - 1)
      <3>1. j \in 1..Len(y) /\ Len(x) + j = k /\ i + j = k + 1 /\ j \in 1..(Len(s) - i)
        BY <1>0, <1>1, <1>2, <2>2
      <3> HIDE DEF j
      <3> QED
        BY <1>2, <1>3, <2>2, <3>1
    <2> QED
      BY <2>1, <2>2
  <1>5. Len(t) = Len(s) - 1
    BY <1>0, <1>1, <1>2, <1>3
  <1>6. Protected!RemoveAt(s, i) = t
    BY DEF Protected!RemoveAt, t, x, y
  <1> QED
    BY <1>3, <1>4, <1>5, <1>6

\* An element is put before the i-th of a sequence.
LEMMA Inserted ==
  ASSUME NEW E, NEW s \in Seq(E), NEW i \in 1..Len(s), NEW e \in E
  PROVE  LET t == Protected!InsertAt(s, i, e)
         IN  /\ t \in Seq(E) /\ Len(t) = Len(s) + 1
             /\ \A k \in 1..(Len(s) + 1) :
                  (k < i => t[k] = s[k]) /\ (k = i => t[k] = e) /\ (k > i => t[k] = s[k - 1])
  <1> DEFINE x == SubSeq(s, 1, i - 1) \o <<e>>
             y == SubSeq(s, i, Len(s))
             t == x \o y
  <1>0. Len(s) \in Nat
    OBVIOUS
  <1>1. x \in Seq(E) /\ Len(x) = i /\ x[i] = e /\ \A k \in 1..(i - 1) : x[k] = s[k]
    OBVIOUS
  <1>2. /\ y \in Seq(E) /\ Len(y) = Len(s) - i + 1
        /\ \A k \in 1..(Len(s) - i + 1) : y[k] = s[i + k - 1]
    OBVIOUS
  <1> HIDE DEF x, y
  <1>3. /\ t \in Seq(E) /\ Len(t) = Len(x) + Len(y)
        /\ \A k \in 1..Len(x) : t[k] = x[k]
        /\ \A k \in 1..Len(y) : t[Len(x) + k] = y[k]
    <2>1. x \in Seq(E) /\ y \in Seq(E)
      BY <1>1, <1>2
    <2> QED
      BY <2>1, Joined
  <1> HIDE DEF t
  <1>4. ASSUME NEW k \in 1..(Len(s) + 1)
        PROVE  (k < i => t[k] = s[k]) /\ (k = i => t[k] = e) /\ (k > i => t[k] = s[k - 1])
    <2>1. CASE k <= i
      <3>1. k \in 1..Len(x) /\ (k < i \/ k = i)
        BY <1>1, <2>1
      <3>2. t[k] = x[k]
        BY <1>3, <3>1
      <3>3. k < i => k \in 1..(i - 1)
        OBVIOUS
      <3> QED
        BY <1>1, <3>1, <3>2, <3>3
    <2>2. CASE ~(k <= i)
      <3> DEFINE j == k - i
      <3>1. j \in 1..Len(y) /\ Len(x) + j = k /\ i + j - 1 = k - 1 /\ j \in 1..(Len(s) - i + 1)
        BY <1>0, <1>1, <1>2, <2>2
      <3> HIDE DEF j
      <3>2. t[k] = s[k - 1]
        BY <1>2, <1>3, <3>1
      <3>3. ~(k < i) /\ k # i
        BY <2>2
      <3> QED
        BY <3>2, <3>3
    <2> QED
      BY <2>1, <2>2
  <1>5. Len(t) = Len(s) + 1
    BY <1>0, <1>1, <1>2, <1>3
  <1>6. Protected!InsertAt(s, i, e) = t
    BY DEF Protected!InsertAt, t, x, y
  <1> QED
    BY <1>3, <1>4, <1>5, <1>6

\* What the author does to the lines is what is done to the editor's pieces.
Same   == v1' = v1 /\ v2' = v2 /\ v5' = v5 + 1
Edited == /\ Same /\ v3' \in Seq(Elements(Len(v2))) /\ DistinctTokens(v3')
          /\ v4' = [k \in 1..Len(v3') |-> Piece(v3'[k])]

\* Two elements of a sequence change places.
LEMMA SwappedIs ==
  ASSUME NEW E, NEW s \in Seq(E), NEW i \in 1..Len(s), NEW j \in 1..Len(s)
  PROVE  Protected!Swapped(s, i, j)
           = [k \in 1..Len(s) |-> IF k = i THEN s[j] ELSE IF k = j THEN s[i] ELSE s[k]]
  <1>1. DOMAIN s = 1..Len(s)
    OBVIOUS
  <1> QED
    BY <1>1 DEF Protected!Swapped

\* Deletes removes an element from the text and its lines from what is meant.
LEMMA DeletesStep ==
  ASSUME ScanOK, TextOK, NEW i \in DOMAIN v3, Protected!Deletes(i)
  PROVE  Edited
  <1> DEFINE n == Len(v2)
  <1>1. /\ v3 \in Seq(Elements(n)) /\ DistinctTokens(v3) /\ v4 = Pieces(v3) /\ n \in 0..n
        /\ i \in 1..Len(v3) /\ Len(v3) \in Nat
    BY RangeIs DEF TextOK
  <1>2. Same /\ v3' = Protected!RemoveAt(v3, i) /\ v4' = Protected!RemoveAt(v4, i)
    BY DEF Protected!Deletes, Protected!Edit, Same
  <1>3. v4 \in Seq(Seq(AnyLine)) /\ Len(v4) = Len(v3)
    BY <1>1, PiecesAre
  <1> HIDE DEF n
  <1>4. /\ v3' \in Seq(Elements(n)) /\ Len(v3') = Len(v3) - 1
        /\ \A k \in 1..(Len(v3) - 1) : v3'[k] = IF k < i THEN v3[k] ELSE v3[k + 1]
    BY <1>1, <1>2, Removed
  <1>5. /\ v4' \in Seq(Seq(AnyLine)) /\ Len(v4') = Len(v4) - 1
        /\ \A k \in 1..(Len(v4) - 1) : v4'[k] = IF k < i THEN v4[k] ELSE v4[k + 1]
    <2>1. v4 \in Seq(Seq(AnyLine)) /\ i \in 1..Len(v4)
      BY <1>1, <1>3
    <2> QED
      BY <1>2, <2>1, Removed
  <1>6. \A k \in 1..Len(v3) : v4[k] = Piece(v3[k])
    BY <1>1 DEF Pieces
  <1>7. ASSUME NEW k \in 1..Len(v3') PROVE v4'[k] = Piece(v3'[k])
    <2>1. k \in 1..(Len(v3) - 1) /\ k \in 1..Len(v3) /\ k + 1 \in 1..Len(v3)
      BY <1>1, <1>4
    <2> QED
      BY <1>3, <1>4, <1>5, <1>6, <2>1
  <1>8. DistinctTokens(v3')
    <2> SUFFICES ASSUME NEW j \in 1..Len(v3'), NEW k \in 1..Len(v3'), v3'[j][1] = "token", v3'[j] = v3'[k]
                 PROVE  j = k
      BY DEF DistinctTokens
    <2> DEFINE a == IF j < i THEN j ELSE j + 1
               b == IF k < i THEN k ELSE k + 1
    <2>1. a \in 1..Len(v3) /\ b \in 1..Len(v3) /\ v3'[j] = v3[a] /\ v3'[k] = v3[b]
      BY <1>1, <1>4
    <2>2. a = b
      <3> HIDE DEF a, b
      <3> QED
        BY <1>1, <2>1 DEF DistinctTokens
    <2> QED
      BY <1>1, <1>4, <2>2
  <1>9. v4' = [k \in 1..Len(v3') |-> v4'[k]]
    BY <1>3, <1>4, <1>5
  <1>10. v4' = [k \in 1..Len(v3') |-> Piece(v3'[k])]
    BY <1>7, <1>9
  <1> QED
    BY <1>2, <1>4, <1>8, <1>10 DEF n, Edited

\* Types puts the same line into both.
LEMMA TypesStep ==
  ASSUME ScanOK, TextOK, NEW i \in 1..Len(v3), Protected!Types(i)
  PROVE  Edited
  <1> DEFINE n == Len(v2)
  <1>11. PICK x : x = Protected!Line("typed")
    OBVIOUS
  <1>12. PICK y : y = <<x>>
    OBVIOUS
  <1>1. /\ v3 \in Seq(Elements(n)) /\ DistinctTokens(v3) /\ v4 = Pieces(v3) /\ n \in 0..n
        /\ i \in 1..Len(v3) /\ Len(v3) \in Nat
    BY RangeIs DEF TextOK
  <1>2. Same /\ v3' = Protected!InsertAt(v3, i, x) /\ v4' = Protected!InsertAt(v4, i, y)
    BY <1>11, <1>12 DEF Protected!Types, Protected!Edit, Same
  <1>3. v4 \in Seq(Seq(AnyLine)) /\ Len(v4) = Len(v3)
    BY <1>1, PiecesAre
  <1>0. x \in AnyLine /\ x \in Elements(n) /\ y \in Seq(AnyLine) /\ x[1] = "line"
    <2>1. x \in AnyLine
      BY <1>11 DEF AnyLine
    <2> QED
      BY <1>12, <2>1, LineIs DEF Elements
  <1> HIDE DEF n
  <1>4. /\ v3' \in Seq(Elements(n)) /\ Len(v3') = Len(v3) + 1
        /\ \A k \in 1..(Len(v3) + 1) :
             (k < i => v3'[k] = v3[k]) /\ (k = i => v3'[k] = x) /\ (k > i => v3'[k] = v3[k - 1])
    <2>1. v3 \in Seq(Elements(n)) /\ i \in 1..Len(v3) /\ x \in Elements(n)
      BY <1>0, <1>1
    <2>2. LET t == Protected!InsertAt(v3, i, x)
          IN  /\ t \in Seq(Elements(n)) /\ Len(t) = Len(v3) + 1
              /\ \A k \in 1..(Len(v3) + 1) :
                   (k < i => t[k] = v3[k]) /\ (k = i => t[k] = x) /\ (k > i => t[k] = v3[k - 1])
      BY <2>1, Inserted
    <2> QED
      BY <1>2, <2>2
  <1>5. /\ v4' \in Seq(Seq(AnyLine)) /\ Len(v4') = Len(v4) + 1
        /\ \A k \in 1..(Len(v4) + 1) :
             (k < i => v4'[k] = v4[k]) /\ (k = i => v4'[k] = y) /\ (k > i => v4'[k] = v4[k - 1])
    <2>1. PICK F : F = Seq(AnyLine)
      OBVIOUS
    <2>2. v4 \in Seq(F) /\ i \in 1..Len(v4) /\ y \in F
      BY <1>0, <1>1, <1>3, <2>1
    <2>3. LET t == Protected!InsertAt(v4, i, y)
          IN  /\ t \in Seq(F) /\ Len(t) = Len(v4) + 1
              /\ \A k \in 1..(Len(v4) + 1) :
                   (k < i => t[k] = v4[k]) /\ (k = i => t[k] = y) /\ (k > i => t[k] = v4[k - 1])
      BY <2>2, Inserted
    <2> QED
      BY <1>2, <2>1, <2>3
  <1>6. \A k \in 1..Len(v3) : v4[k] = Piece(v3[k])
    BY <1>1 DEF Pieces
  <1>7. ASSUME NEW k \in 1..Len(v3') PROVE v4'[k] = Piece(v3'[k])
    <2>1. k \in 1..(Len(v3) + 1) /\ (k < i => k \in 1..Len(v3)) /\ (~(k < i) /\ k # i => k - 1 \in 1..Len(v3))
      BY <1>1, <1>4
    <2>2. Piece(x) = y
      BY <1>0, <1>12 DEF Piece
    <2>3. CASE k < i
      BY <1>3, <1>4, <1>5, <1>6, <2>1, <2>3
    <2>4. CASE k = i
      BY <1>3, <1>4, <1>5, <2>1, <2>2, <2>4
    <2>5. CASE k > i
      BY <1>1, <1>3, <1>4, <1>5, <1>6, <2>1, <2>5
    <2> QED
      BY <1>1, <2>1, <2>3, <2>4, <2>5
  <1>8. DistinctTokens(v3')
    <2> SUFFICES ASSUME NEW j \in 1..Len(v3'), NEW k \in 1..Len(v3'), v3'[j][1] = "token", v3'[j] = v3'[k]
                 PROVE  j = k
      BY DEF DistinctTokens
    <2> DEFINE a == IF j < i THEN j ELSE j - 1
               b == IF k < i THEN k ELSE k - 1
    <2>0. j # i /\ k # i
      BY <1>0, <1>1, <1>4
    <2>1. a \in 1..Len(v3) /\ b \in 1..Len(v3) /\ v3'[j] = v3[a] /\ v3'[k] = v3[b]
      BY <1>1, <1>4, <2>0
    <2>2. a = b
      <3> HIDE DEF a, b
      <3> QED
        BY <1>1, <2>1 DEF DistinctTokens
    <2> QED
      BY <1>1, <1>4, <2>0, <2>2
  <1>9. v4' = [k \in 1..Len(v3') |-> v4'[k]]
    BY <1>3, <1>4, <1>5
  <1>10. v4' = [k \in 1..Len(v3') |-> Piece(v3'[k])]
    BY <1>7, <1>9
  <1> QED
    BY <1>2, <1>4, <1>8, <1>10 DEF n, Edited

\* Moves swaps the same places of both.
LEMMA MovesStep ==
  ASSUME ScanOK, TextOK, NEW i \in DOMAIN v3, NEW j \in DOMAIN v3, Protected!Moves(i, j)
  PROVE  Edited
  <1> DEFINE n == Len(v2)
             at(k) == IF k = i THEN j ELSE IF k = j THEN i ELSE k
  <1>1. /\ v3 \in Seq(Elements(n)) /\ DistinctTokens(v3) /\ v4 = Pieces(v3) /\ n \in 0..n
        /\ i \in 1..Len(v3) /\ j \in 1..Len(v3) /\ Len(v3) \in Nat
    BY RangeIs DEF TextOK
  <1>2. Same /\ v3' = Protected!Swapped(v3, i, j) /\ v4' = Protected!Swapped(v4, i, j)
    BY DEF Protected!Moves, Protected!Edit, Same
  <1>3. v4 \in Seq(Seq(AnyLine)) /\ Len(v4) = Len(v3) /\ DOMAIN v4 = 1..Len(v3)
    <2>1. v4 \in Seq(Seq(AnyLine)) /\ Len(v4) = Len(v3)
      BY <1>1, PiecesAre
    <2> QED
      BY <2>1
  <1> HIDE DEF n
  <1>4. v3' = [k \in 1..Len(v3) |-> v3[at(k)]] /\ v4' = [k \in 1..Len(v3) |-> v4[at(k)]]
    <2>1. v3' = [k \in 1..Len(v3) |-> IF k = i THEN v3[j] ELSE IF k = j THEN v3[i] ELSE v3[k]]
      BY <1>1, <1>2, SwappedIs
    <2>2. v4' = [k \in 1..Len(v4) |-> IF k = i THEN v4[j] ELSE IF k = j THEN v4[i] ELSE v4[k]]
      <3>1. v4 \in Seq(Seq(AnyLine)) /\ i \in 1..Len(v4) /\ j \in 1..Len(v4)
        BY <1>1, <1>3
      <3> QED
        BY <1>2, <3>1, SwappedIs
    <2> QED
      BY <1>3, <2>1, <2>2
  <1>5. \A k \in 1..Len(v3) : at(k) \in 1..Len(v3)
    BY <1>1
  <1>6. \A k, m \in 1..Len(v3) : at(k) = at(m) => k = m
    BY <1>1
  <1> HIDE DEF at
  <1>7. \A k \in 1..Len(v3) : v4[k] = Piece(v3[k]) /\ v3[k] \in Elements(n)
    BY <1>1 DEF Pieces
  <1>8. v3' \in Seq(Elements(n)) /\ Len(v3') = Len(v3) /\ Len(v4') = Len(v3) /\ DOMAIN v4' = 1..Len(v3)
    BY <1>1, <1>4, <1>5, <1>7
  <1>9. ASSUME NEW k \in 1..Len(v3) PROVE v4'[k] = Piece(v3'[k]) /\ v3'[k] = v3[at(k)]
    BY <1>4, <1>5, <1>7
  <1>10. DistinctTokens(v3')
    <2> SUFFICES ASSUME NEW k \in 1..Len(v3), NEW m \in 1..Len(v3), v3'[k][1] = "token", v3'[k] = v3'[m]
                 PROVE  k = m
      BY <1>8 DEF DistinctTokens
    <2>1. at(k) \in 1..Len(v3) /\ at(m) \in 1..Len(v3) /\ v3[at(k)][1] = "token" /\ v3[at(k)] = v3[at(m)]
      BY <1>5, <1>9
    <2>2. at(k) = at(m)
      BY <1>1, <2>1 DEF DistinctTokens
    <2> QED
      BY <1>6, <2>2
  <1>11. v4' = [k \in 1..Len(v3') |-> Piece(v3'[k])]
    <2>1. \A k \in 1..Len(v3) : v4[at(k)] = Piece(v3'[k])
      BY <1>4, <1>9
    <2> QED
      BY <1>4, <1>8, <2>1
  <1> QED
    BY <1>2, <1>8, <1>10, <1>11 DEF n, Edited

\* Every edit keeps it.
LEMMA TextKept ==
  ASSUME ScanOK, TextOK, Protected!TextNext PROVE ScanOK' /\ TextOK'
  <1>1. Edited
    <2>1. CASE \E i \in DOMAIN v3 : Protected!Deletes(i)
      BY <2>1, DeletesStep
    <2>2. CASE \E i \in DOMAIN v3 : Protected!Types(i)
      <3>1. DOMAIN v3 = 1..Len(v3)
        BY DEF TextOK
      <3> QED
        BY <2>2, <3>1, TypesStep
    <2>3. CASE \E i, j \in DOMAIN v3 : Protected!Moves(i, j)
      BY <2>3, MovesStep
    <2> QED
      BY <2>1, <2>2, <2>3 DEF Protected!TextNext
  <1>2. ScanOK'
    BY <1>1 DEF ScanOK, Edited, Same
  <1>4. v4' = Pieces(v3)'
    BY <1>1 DEF Edited, Same, Pieces, Piece, Protected!Source
  <1>5. v3' \in Seq(Elements(Len(v2'))) /\ DistinctTokens(v3')
    BY <1>1 DEF Edited, Same
  <1>6. v5' \in Nat /\ v5' # 0
    BY <1>1 DEF Edited, Same, TextOK
  <1> QED
    BY <1>2, <1>4, <1>5, <1>6 DEF TextOK

\* the step of the reading of the text d: the line that opened the code block which
\* the first i lines end in
ReadStep(d, f, i) ==
  IF i = 0 THEN 0
  ELSE IF Protected!Covered(i) THEN f[i - 1]
  ELSE IF f[i - 1] = 0 THEN IF Protected!Fenced(d[i]) THEN i ELSE 0
  ELSE IF d[i] \in Protected!Closers(d[f[i - 1]]) THEN 0 ELSE f[i - 1]

\* Reading is one function, each value made from the one before.
LEMMA ReadingStep ==
  ASSUME NEW d, Len(d) \in Nat
  PROVE  Protected!Reading(d) = [i \in 0..Len(d) |-> ReadStep(d, Protected!Reading(d), i)]
  <1> DEFINE N == Len(d)
             Is(f, m) == f = [i \in 0..m |-> ReadStep(d, f, i)]
             T == {m \in 0..N : \E f : Is(f, m)}
  <1>1. 0 \in T
    <2> DEFINE g == [i \in 0..0 |-> 0]
    <2>1. Is(g, 0)
      <3>1. \A i \in 0..0 : ReadStep(d, g, i) = 0
        BY DEF ReadStep
      <3> QED
        BY <3>1
    <2>2. 0 \in 0..N
      OBVIOUS
    <2> HIDE DEF g, Is, N
    <2> QED
      BY <2>1, <2>2
  <1>2. ASSUME NEW m \in 0..N, m > 0, m - 1 \in T PROVE m \in T
    <2>1. PICK f : Is(f, m - 1)
      BY <1>2
    <2> DEFINE g == [i \in 0..m |-> IF i = m THEN ReadStep(d, f, m) ELSE f[i]]
    <2>2. ASSUME NEW i \in 0..m PROVE g[i] = ReadStep(d, g, i)
      <3>1. i > 0 => i - 1 \in 0..m /\ i - 1 # m /\ g[i - 1] = f[i - 1]
        OBVIOUS
      <3>2. ReadStep(d, g, i) = ReadStep(d, f, i)
        <4> HIDE DEF g
        <4>1. CASE i = 0
          BY <4>1 DEF ReadStep
        <4>2. CASE i # 0
          <5>1. g[i - 1] = f[i - 1]
            BY <3>1, <4>2
          <5> QED
            BY <4>2, <5>1, Zenon DEF ReadStep
        <4> QED
          BY <4>1, <4>2
      <3>3. i # m => f[i] = ReadStep(d, f, i)
        BY <2>1
      <3> QED
        BY <3>2, <3>3
    <2>3. Is(g, m)
      BY <2>2
    <2> QED
      BY <2>3
  <1>3. N \in T
    <2> HIDE DEF T
    <2>1. 0..N \subseteq T
      BY <1>1, <1>2, UpTo
    <2> QED
      BY <2>1
  <1>4. \E f : Is(f, N)
    BY <1>3
  <1>5. Protected!Reading(d) = CHOOSE f : Is(f, N)
    BY DEF Protected!Reading, ReadStep
  <1> QED
    BY <1>4, <1>5

\* S are the first lines of the blocks that are not protected.
Plain(S) ==
  /\ S \in SUBSET (1..Len(v1)) /\ PlainBlocks(v1, v2, S)
  /\ \A j \in 1..Len(v1) : \/ v1[j] = "blank"
                           \/ \E k \in 1..Len(v2) : v2[k].first <= j /\ j <= v2[k].last
                           \/ \E a \in S : a <= j /\ j <= Protected!Block(v1, a).last

\* the code block that opens at line a is open after the first i lines
OpenAt(a, i) == Protected!Fenced(v1[a]) /\ a <= i /\ i < Protected!Block(v1, a).last

\* After the first i lines, o is the line that opened the code block that is open.
CodeIs(S, o, i) ==
  /\ \A a \in S : OpenAt(a, i) => o = a
  /\ (i < Len(v1) /\ \A a \in S : ~OpenAt(a, i)) => o = 0

\* The next line opens, closes or goes on with the code block the scan says it does.
LEMMA NextLine ==
  ASSUME ScanOK, NEW S, Plain(S), NEW f, NEW i \in 1..Len(v1), CodeIs(S, f[i - 1], i - 1)
  PROVE  CodeIs(S, ReadStep(v1, f, i), i)
  <1> DEFINE last(a) == Protected!Block(v1, a).last
             o == f[i - 1]
             p == ReadStep(v1, f, i)
  <1>0. /\ v1 \in Seq(Protected!Kinds) /\ Len(v1) \in Nat /\ Len(v2) \in Nat /\ DOMAIN v2 = 1..Len(v2)
        /\ i \in Nat /\ i # 0 /\ i - 1 \in Nat /\ i - 1 < Len(v1) /\ i <= Len(v1)
        /\ \A k \in 1..Len(v2) : v2[k].first \in Nat /\ v2[k].last \in Nat
    BY RangeIs
  <1>1. p = IF Protected!Covered(i) THEN o
            ELSE IF o = 0 THEN IF Protected!Fenced(v1[i]) THEN i ELSE 0
            ELSE IF v1[i] \in Protected!Closers(v1[o]) THEN 0 ELSE o
    BY <1>0 DEF ReadStep
  <1>2. ASSUME NEW a \in S
        PROVE  /\ a \in 1..Len(v1) /\ last(a) \in a..Len(v1)
               /\ Protected!Fenced(v1[a]) =>
                    /\ last(a) = Len(v1) \/ (last(a) > a /\ v1[last(a)] \in Protected!Closers(v1[a]))
                    /\ \A m \in (a + 1)..(last(a) - 1) : v1[m] \notin Protected!Closers(v1[a])
               /\ ~Protected!Fenced(v1[a]) => \A j \in a..last(a) : ~Protected!Fenced(v1[j])
    <2>1. a \in 1..Len(v1) /\ v1[a] # "blank" /\ ~Protected!Block(v1, a).kept
      BY DEF Plain, PlainBlocks
    <2> QED
      BY <1>0, <2>1, BlockIs
  <1>3. /\ \A a \in S : OpenAt(a, i - 1) => o = a
        /\ (\A a \in S : ~OpenAt(a, i - 1)) => o = 0
    BY <1>0 DEF CodeIs
  <1>4. \A a, b \in S : a < b => last(a) < b
    BY DEF Plain, PlainBlocks
  <1>5. \A a \in S, k \in 1..Len(v2) : last(a) < v2[k].first \/ v2[k].last < a
    BY DEF Plain, PlainBlocks
  <1>6. \/ v1[i] = "blank"
        \/ \E k \in 1..Len(v2) : v2[k].first <= i /\ i <= v2[k].last
        \/ \E a \in S : a <= i /\ i <= last(a)
    BY DEF Plain
  <1>7. Protected!Covered(i) <=> \E k \in 1..Len(v2) : v2[k].first <= i /\ i <= v2[k].last
    BY <1>0 DEF Protected!Covered, Protected!Covering
  <1>8. \A a \in S : OpenAt(a, i) \/ OpenAt(a, i - 1) => a <= i /\ i <= last(a)
    BY <1>0, <1>2 DEF OpenAt
  <1> HIDE DEF o, p, last
  <1>9. CASE ~ \E a \in S : a <= i /\ i <= last(a)
    <2>1. \A a \in S : ~OpenAt(a, i) /\ ~OpenAt(a, i - 1)
      BY <1>8, <1>9
    <2>2. o = 0
      BY <1>3, <2>1
    <2>3. p = 0
      <3>1. CASE Protected!Covered(i)
        BY <1>1, <2>2, <3>1
      <3>2. CASE ~Protected!Covered(i)
        <4>1. v1[i] = "blank"
          BY <1>6, <1>7, <1>9, <3>2
        <4>2. ~Protected!Fenced(v1[i])
          BY <4>1 DEF Protected!Fenced, Protected!FenceLines
        <4> QED
          BY <1>1, <2>2, <3>2, <4>2
      <3> QED
        BY <3>1, <3>2
    <2> QED
      BY <2>1, <2>3 DEF CodeIs, p
  <1>10. ASSUME NEW a \in S, a <= i, i <= last(a) PROVE CodeIs(S, p, i)
    <2>0. a \in Nat /\ last(a) \in Nat
      BY <1>0, <1>2
    <2>1. \A b \in S : b <= i /\ i <= last(b) => b = a
      <3> TAKE b \in S
      <3>1. b \in Nat /\ last(b) \in Nat
        BY <1>0, <1>2
      <3> QED
        BY <1>0, <1>4, <1>10, <2>0, <3>1
    <2>2. ~Protected!Covered(i)
      BY <1>0, <1>5, <1>7, <1>10, <2>0
    <2>3. \A b \in S : OpenAt(b, i) \/ OpenAt(b, i - 1) => b = a
      BY <1>8, <2>1
    <2>4. CASE ~Protected!Fenced(v1[a])
      <3>1. \A b \in S : ~OpenAt(b, i) /\ ~OpenAt(b, i - 1)
        BY <2>3, <2>4 DEF OpenAt
      <3>2. ~Protected!Fenced(v1[i])
        BY <1>0, <1>2, <1>10, <2>0, <2>4
      <3>3. o = 0
        BY <1>3, <3>1
      <3>4. p = 0
        BY <1>1, <2>2, <3>2, <3>3
      <3> QED
        BY <3>1, <3>4 DEF CodeIs
    <2>5. CASE Protected!Fenced(v1[a]) /\ i = a
      <3>1. \A b \in S : ~OpenAt(b, i - 1)
        BY <1>0, <2>0, <2>3, <2>5 DEF OpenAt
      <3>2. o = 0
        BY <1>3, <3>1
      <3>3. p = a
        BY <1>1, <2>2, <2>5, <3>2
      <3>4. i < Len(v1) => OpenAt(a, i)
        BY <1>0, <1>2, <2>0, <2>5 DEF OpenAt, last
      <3> QED
        BY <2>3, <3>3, <3>4 DEF CodeIs
    <2>6. CASE Protected!Fenced(v1[a]) /\ i # a
      <3>1. OpenAt(a, i - 1)
        BY <1>0, <1>10, <2>0, <2>6 DEF OpenAt, last
      <3>2. o = a /\ a # 0
        BY <1>2, <1>3, <3>1
      <3>3. p = IF v1[i] \in Protected!Closers(v1[a]) THEN 0 ELSE a
        BY <1>1, <2>2, <3>2
      <3>4. CASE i < last(a)
        <4>1. i \in (a + 1)..(last(a) - 1)
          BY <1>0, <1>10, <2>0, <2>6, <3>4
        <4>2. p = a
          BY <1>2, <2>6, <3>3, <4>1
        <4>3. OpenAt(a, i)
          BY <1>10, <2>6, <3>4 DEF OpenAt, last
        <4> QED
          BY <2>3, <4>2, <4>3 DEF CodeIs
      <3>5. CASE i = last(a)
        <4>1. \A b \in S : ~OpenAt(b, i)
          BY <1>0, <2>3, <3>5 DEF OpenAt, last
        <4>2. i < Len(v1) => p = 0
          BY <1>0, <1>2, <2>6, <3>3, <3>5
        <4> QED
          BY <4>1, <4>2 DEF CodeIs
      <3> QED
        BY <1>0, <1>10, <2>0, <3>4, <3>5
    <2> QED
      BY <2>4, <2>5, <2>6
  <1>11. CodeIs(S, p, i)
    <2>1. CASE \E a \in S : a <= i /\ i <= last(a)
      <3>1. PICK a \in S : a <= i /\ i <= last(a)
        BY <2>1
      <3> QED
        BY <1>10, <3>1
    <2> QED
      BY <1>9, <2>1 DEF p
  <1> QED
    BY <1>11 DEF p

\* Markdown reads the text with the tokens as the scan has read the one without.
LEMMA ReadingIs ==
  ASSUME ScanOK, NEW S, Plain(S)
  PROVE  \A i \in 0..Len(v1) : CodeIs(S, Protected!Reading(v1)[i], i)
  <1> DEFINE N == Len(v1)
             f == Protected!Reading(v1)
             T == {i \in 0..N : CodeIs(S, f[i], i)}
  <1>0. N \in Nat
    BY RangeIs
  <1>1. \A i \in 0..N : f[i] = ReadStep(v1, f, i)
    <2>1. f = [i \in 0..N |-> ReadStep(v1, f, i)]
      BY <1>0, ReadingStep
    <2> QED
      BY <2>1, Zenon
  <1> HIDE DEF f
  <1>2. 0 \in T
    <2>1. f[0] = 0 /\ 0 \in 0..N
      BY <1>0, <1>1 DEF ReadStep
    <2>2. \A a \in S : ~OpenAt(a, 0)
      BY <1>0 DEF OpenAt, Plain
    <2>3. CodeIs(S, f[0], 0)
      BY <2>1, <2>2 DEF CodeIs
    <2> QED
      BY <2>1, <2>3
  <1>3. ASSUME NEW m \in 0..N, m > 0, m - 1 \in T PROVE m \in T
    <2>1. m \in 1..N /\ CodeIs(S, f[m - 1], m - 1)
      BY <1>0, <1>3
    <2>2. CodeIs(S, ReadStep(v1, f, m), m)
      BY <2>1, NextLine
    <2>3. CodeIs(S, f[m], m)
      BY <1>1, <2>2
    <2> QED
      BY <2>3
  <1>4. 0..N \subseteq T
    <2> HIDE DEF T, N
    <2> QED
      BY <1>0, <1>2, <1>3, UpTo
  <1> QED
    BY <1>4 DEF f

\* What the editor cannot show is in a range, or in code.
LEMMA LinesCovered ==
  ASSUME ScanOK, NEW i \in DOMAIN v1, v1[i] \in Protected!Unsupported
  PROVE  Protected!Covered(i) \/ Protected!InCode(i)
  <1>1. /\ v1 \in Seq(Protected!Kinds) /\ i \in 1..Len(v1) /\ DOMAIN v2 = 1..Len(v2)
        /\ Len(v1) \in Nat
    BY RangeIs
  <1>2. v1[i] # "blank"
    BY DEF Protected!Unsupported
  <1>3. SUFFICES ASSUME ~Protected!Covered(i) PROVE Protected!InCode(i)
    OBVIOUS
  <1>4. PICK S : Plain(S)
    BY DEF ScanOK, RangesFrom, Plain
  <1>5. PICK a \in S : a <= i /\ i <= Protected!Block(v1, a).last
    BY <1>1, <1>2, <1>3, <1>4 DEF Plain, Protected!Covered, Protected!Covering
  <1>6. a \in 1..Len(v1) /\ v1[a] # "blank" /\ ~Protected!Block(v1, a).kept
    BY <1>4 DEF Plain, PlainBlocks
  <1>7. Protected!Block(v1, a).last \in a..Len(v1) /\ i \in a..Protected!Block(v1, a).last
    <2>1. Protected!Block(v1, a).last \in a..Len(v1)
      BY <1>1, <1>6, BlockIs
    <2> QED
      BY <1>1, <1>5, <1>6, <2>1
  <1>8. Protected!Fenced(v1[a]) /\ i # a
    BY <1>1, <1>6, <1>7, BlockIs
  <1>9. OpenAt(a, i - 1) /\ i - 1 \in 0..Len(v1) /\ a # 0
    BY <1>1, <1>6, <1>7, <1>8 DEF OpenAt
  <1>10. Protected!Reading(v1)[i - 1] = a
    BY <1>4, <1>9, ReadingIs DEF CodeIs
  <1> QED
    BY <1>9, <1>10 DEF Protected!InCode

\* A raw block is in a range as far as the block it begins in.
LEMMA RawCovered ==
  ASSUME ScanOK, NEW i \in DOMAIN v1, NEW j \in DOMAIN v1, i < j, v1[i] = "raw",
         Protected!Covered(i), \A m \in i..(j - 1) : v1[m] # "rawEnd"
  PROVE  Protected!Covered(j) \/ \E k \in Protected!Covering(i), m \in 1..j :
                                   k \in Protected!Covering(m) /\ v1[m] \in Protected!Enders
  <1>1. /\ v1 \in Seq(Protected!Kinds) /\ i \in 1..Len(v1) /\ j \in 1..Len(v1) /\ DOMAIN v2 = 1..Len(v2)
        /\ Len(v1) \in Nat
    BY RangeIs
  <1>2. PICK k \in 1..Len(v2) : v2[k].first <= i /\ i <= v2[k].last
    BY <1>1 DEF Protected!Covered, Protected!Covering
  <1> DEFINE a == v2[k].first
             b == v2[k].last
  <1>3. /\ a \in 1..Len(v1) /\ v1[a] # "blank" /\ Protected!Block(v1, a).kept
        /\ b = Protected!Block(v1, a).last
    BY DEF ScanOK, RangesFrom
  <1> HIDE DEF a, b
  <1>4. b \in a..Len(v1)
    BY <1>1, <1>3, BlockIs
  <1>5. \A q \in a..b : v1[q] = "raw" /\ (\A m \in q..b : v1[m] # "rawEnd") =>
          b = Len(v1) \/ \E m \in a..b : v1[m] \in Protected!Enders
    BY <1>1, <1>3, BlockIs
  <1>6. \A m : m \in a..b => k \in Protected!Covering(m)
    BY <1>1, <1>3, <1>4 DEF Protected!Covering, a, b
  <1>7. i \in a..b
    BY <1>1, <1>2, <1>3, <1>4 DEF a, b
  <1>8. CASE j <= b
    <2>1. j \in a..b
      BY <1>1, <1>3, <1>4, <1>7, <1>8
    <2> QED
      BY <1>6, <2>1 DEF Protected!Covered
  <1>9. CASE ~(j <= b)
    <2>1. \A m \in i..b : m \in i..(j - 1)
      BY <1>1, <1>4, <1>9
    <2>2. b = Len(v1) \/ \E m \in a..b : v1[m] \in Protected!Enders
      BY <1>5, <1>7, <2>1
    <2>3. b # Len(v1)
      BY <1>1, <1>9
    <2>4. PICK m \in a..b : v1[m] \in Protected!Enders
      BY <2>2, <2>3
    <2>5. m \in 1..j
      BY <1>1, <1>3, <1>4, <1>9
    <2> QED
      BY <1>6, <1>7, <2>4, <2>5
  <1> QED
    BY <1>8, <1>9

\* What is saved is what is meant.
LEMMA TextPromised ==
  ASSUME ScanOK, TextOK PROVE Protected!EditingIsLossless
  <1>1. \A i \in DOMAIN v1 : v1[i] \in Protected!Unsupported => Protected!Covered(i) \/ Protected!InCode(i)
    BY LinesCovered
  <1>2. \A i, j \in DOMAIN v1 :
          i < j /\ v1[i] = "raw" /\ Protected!Covered(i) /\ (\A m \in i..(j - 1) : v1[m] # "rawEnd")
            => Protected!Covered(j) \/ \E k \in Protected!Covering(i), m \in 1..j :
                                k \in Protected!Covering(m) /\ v1[m] \in Protected!Enders
    BY RawCovered
  <1>3. \A k \in DOMAIN v2 : v2[k].first <= v2[k].last /\ (k > 1 => v2[k - 1].last < v2[k].first)
    <2>1. DOMAIN v2 = 1..Len(v2)
      BY RangeIs
    <2> QED
      BY <2>1, RangeIs
  <1>4. Protected!Restored(v3) = Protected!FlattenSeq(v4)
    <2>1. Len(v2) \in Nat
      BY RangeIs
    <2> QED
      BY <2>1, RestoredIs DEF TextOK
  <1>5. v5 = 0 => Protected!Restored(v3) = Protected!Lines(v1, 1, Len(v1))
    BY <1>4 DEF TextOK
  <1> QED
    BY <1>1, <1>2, <1>3, <1>4, <1>5 DEF Protected!EditingIsLossless

\* the invariant, while the part is the protected Markdown
TextPart == part = "protected" => ScanOK /\ TextOK

\* Every line of Markdown the editor cannot show is under a token or in a code block of
\* the text with the tokens, and what is saved has the lines that were meant, for every
\* text of lines and however often it is edited (markdown-compat.ts).
THEOREM MarkdownPromise == WebSpec => []MarkdownIsKept
  <1>1. WebInit => TextPart
    BY TextStart, DocumentsAssumption DEF WebInit, TextPart
  <1>2. TextPart /\ [WebNext]_web => TextPart'
    <2> SUFFICES ASSUME TextPart, [WebNext]_web PROVE TextPart'
      OBVIOUS
    <2>1. CASE UNCHANGED web
      BY <2>1 DEF TextPart, ScanOK, TextOK, Pieces, Piece, Protected!Source, web
    <2>2. CASE WebNext
      BY <2>2, TextKept DEF WebNext, TextPart, Rest13, Rest11, Rest10, Rest9, Rest6
    <2> QED
      BY <2>1, <2>2
  <1>3. TextPart => MarkdownIsKept
    BY TextPromised DEF TextPart, MarkdownIsKept
  <1> QED
    BY <1>1, <1>2, <1>3, PTL DEF WebSpec
=============================================================================
