------------------------------ MODULE Unsparse ------------------------------
(***************************************************************************)
(* The unsparse machine of lib/sparse/tegrabl_unsparse.c over a partition  *)
(* that is written and moved along by the callbacks of                     *)
(* lib/fastboot/tegrabl_fastboot_partinfo.c.                               *)
(*                                                                         *)
(* Bytes come in units, two units to an image header, to a chunk header, a *)
(* fill value and a block.  A unit is <<kind, k, v>>: unit k of the header *)
(* v, or a unit of data.  What was not written as a header does not read   *)
(* as a valid one.  Headers have the size of the structures.  The build    *)
(* has no TEGRABL_CONFIG_ENABLE_SPARSE_CRC32.                              *)
(*                                                                         *)
(* A partition under write is its data, the size, the offset, the number   *)
(* of writes so far and the number of the write at which the device fails, *)
(* 0 for none.  A failed write leaves torn units behind.                   *)
(***************************************************************************)
LOCAL INSTANCE Integers
LOCAL INSTANCE Sequences
LOCAL INSTANCE SequencesExt

UNITS == 2          \* of an image header, a chunk header, a fill value, a block
Torn == <<"torn", 0, 0>>

-----------------------------------------------------------------------------
(* The callbacks.                                                          *)

Overlay(data, offset, units) ==
    [k \in DOMAIN data |-> IF k \in offset + 1 .. offset + Len(units) THEN units[k - offset] ELSE data[k]]

Opened(data, failAt) ==
    [data |-> data, offset |-> 0, writes |-> 0, failAt |-> failAt, err |-> FALSE]

\* tegrabl_fastboot_partition_write on tegrabl_partition_write: nothing is
\* written behind the end; the offset advances whether the device fails or not.
tegrabl_fastboot_partition_write(p, units) ==
    IF units = <<>> \/ p.offset + Len(units) > Len(p.data) THEN [p EXCEPT !.err = TRUE]
    ELSE LET fails == p.writes + 1 = p.failAt IN
         [p EXCEPT !.data = Overlay(@, p.offset, IF fails THEN [k \in DOMAIN units |-> Torn] ELSE units),
                   !.offset = @ + Len(units), !.writes = @ + 1, !.err = fails]

\* tegrabl_fastboot_partition_seek on tegrabl_partition_seek
tegrabl_fastboot_partition_seek(p, size) ==
    IF p.offset + size > Len(p.data) THEN [p EXCEPT !.err = TRUE]
    ELSE [p EXCEPT !.offset = @ + size, !.err = FALSE]

-----------------------------------------------------------------------------
(* The machine.  u is the unsparse_state with the partition, the buffer    *)
(* that is left, the error and whether the loop runs for ever.             *)

NoHeader == [i \in 1 .. UNITS |-> Torn]

tegrabl_sparse_init_unsparse_state(p) ==
    [state |-> "IMAGE_HEADER", remaining |-> UNITS, offset |-> 0,
     image_header |-> NoHeader, chunk_header |-> NoHeader, fill |-> NoHeader,
     chunks_processed |-> 0, max |-> Len(p.data),
     part |-> p, buf |-> <<>>, err |-> FALSE, hung |-> FALSE]

\* The header that UNITS units in a row spell, if they do.
Spells(units, kind) == \A k \in 1 .. UNITS : units[k][1] = kind /\ units[k][2] = k /\ units[k][3] = units[1][3]
HeaderOf(units) == units[1][3]

tegrabl_sparse_validate_header(u) ==
    /\ Spells(u.image_header, "image")
    /\ HeaderOf(u.image_header).major = 1
    /\ HeaderOf(u.image_header).total_blks * UNITS <= u.max

tegrabl_sparse_validate_chunk_header(units) ==
    /\ Spells(units, "chunk")
    /\ LET h == HeaderOf(units) IN
       \/ h.type = "RAW" /\ h.total_sz = UNITS + h.chunk_sz * UNITS
       \/ h.type = "DONT_CARE" /\ h.total_sz = UNITS
       \/ h.type = "FILL" /\ h.total_sz = 2 * UNITS
       \/ h.type = "CRC"

\* size units of the buffer are consumed into a header or a fill value.
Consume(u, size) ==
    [u EXCEPT !.buf = SubSeq(@, size + 1, Len(@)), !.offset = @ + size]

Into(old, offset, units) ==
    [k \in 1 .. UNITS |-> IF k \in offset + 1 .. offset + Len(units) THEN units[k - offset] ELSE old[k]]

NextHeader(u) ==
    [u EXCEPT !.state = "CHUNK_HEADER", !.remaining = UNITS, !.offset = 0, !.chunk_header = NoHeader]

ImageHeader(u) ==
    LET size == IF Len(u.buf) < u.remaining THEN Len(u.buf) ELSE u.remaining
        v == [Consume(u, size) EXCEPT !.remaining = @ - size,
                 !.image_header = Into(@, u.offset, SubSeq(u.buf, 1, size))]
    IN IF v.remaining # 0 THEN v
       ELSE IF ~tegrabl_sparse_validate_header(v) THEN [v EXCEPT !.err = TRUE]
       ELSE NextHeader(v)

ChunkHeader(u) ==
    LET size == IF Len(u.buf) < u.remaining THEN Len(u.buf) ELSE u.remaining
        v == [Consume(u, size) EXCEPT !.remaining = @ - size,
                 !.chunk_header = Into(@, u.offset, SubSeq(u.buf, 1, size))]
        h == HeaderOf(v.chunk_header)
    IN IF v.remaining # 0 THEN v
       ELSE IF ~tegrabl_sparse_validate_chunk_header(v.chunk_header) THEN [v EXCEPT !.err = TRUE]
       ELSE IF v.chunks_processed + 1 > HeaderOf(v.image_header).total_chunks THEN [v EXCEPT !.err = TRUE]
       ELSE [v EXCEPT !.chunks_processed = @ + 1, !.state = h.type,
                      !.offset = 0, !.remaining = h.chunk_sz * UNITS]

RawChunk(u) ==
    LET size == IF Len(u.buf) < u.remaining THEN Len(u.buf) ELSE u.remaining
        p == tegrabl_fastboot_partition_write(u.part, SubSeq(u.buf, 1, size))
        v == [Consume(u, size) EXCEPT !.remaining = @ - size, !.part = p]
    IN IF p.err THEN [u EXCEPT !.part = p, !.err = TRUE]
       ELSE IF v.remaining = 0 THEN NextHeader(v) ELSE v

\* A whole fill value is taken from the buffer even if a part of it is there
\* already: a value that is cut swallows units of the header behind it.
FillChunk(u) ==
    LET size == IF Len(u.buf) < UNITS THEN Len(u.buf) ELSE UNITS
        v == [Consume(u, size) EXCEPT !.fill = Into(@, u.offset, SubSeq(u.buf, 1, size))]
        units == [k \in 1 .. u.remaining |-> v.fill[((k - 1) % UNITS) + 1]]
        p == IF units = <<>> THEN u.part ELSE tegrabl_fastboot_partition_write(u.part, units)
    IN IF v.offset < UNITS THEN v
       ELSE IF units # <<>> /\ p.err THEN [v EXCEPT !.part = p, !.err = TRUE]
       ELSE NextHeader([v EXCEPT !.part = p])

DontCareChunk(u) ==
    LET p == tegrabl_fastboot_partition_seek(u.part, u.remaining) IN
    IF p.err THEN [u EXCEPT !.part = p, !.err = TRUE] ELSE NextHeader([u EXCEPT !.part = p])

Turn(u) ==
    IF u.err \/ u.hung \/ (u.buf = <<>> /\ u.state # "DONT_CARE") THEN u
    ELSE CASE u.state = "IMAGE_HEADER" -> ImageHeader(u)
           [] u.state = "CHUNK_HEADER" -> ChunkHeader(u)
           [] u.state = "RAW" -> RawChunk(u)
           [] u.state = "FILL" -> FillChunk(u)
           [] u.state = "DONT_CARE" -> DontCareChunk(u)
           [] u.state = "CRC" -> [u EXCEPT !.hung = TRUE]

\* Mutant: the machine starts each buffer at the beginning of what it was in.
UnsparseFromStart(u, buf) ==
    LET turns == [i \in 1 .. 2 * Len(buf) + 2 |-> i] IN
    FoldLeft(LAMBDA v, i : Turn(v), [u EXCEPT !.buf = buf, !.offset = 0], turns)

\* A turn consumes a unit or is followed by one that does.
tegrabl_sparse_unsparse(u, buf) ==
    LET turns == [i \in 1 .. 2 * Len(buf) + 2 |-> i] IN
    FoldLeft(LAMBDA v, i : Turn(v), [u EXCEPT !.buf = buf], turns)

\* tegrabl_sparse_image_check: the magic number, the first unit of the header.
tegrabl_sparse_image_check(buf) == buf # <<>> /\ buf[1][1] = "image" /\ buf[1][2] = 1

-----------------------------------------------------------------------------
(* What a sparse image stands for: each chunk in its place.                *)

Headers(kind, v) == [k \in 1 .. UNITS |-> <<kind, k, v>>]

\* A chunk: its type, its data (RAW) or fill value, its size in blocks.
ChunkUnits(c) ==
    LET data == IF c.type = "DONT_CARE" THEN <<>> ELSE c.data IN
    Headers("chunk", [type |-> c.type, chunk_sz |-> c.blocks, total_sz |-> UNITS + Len(data)]) \o data

\* The stream of an image: a header and the chunks.
Stream(image) == Headers("image", image.header) \o FlattenSeq([i \in DOMAIN image.chunks |-> ChunkUnits(image.chunks[i])])

\* The blocks a chunk stands for; NULL units stay as they are.
ChunkMeans(c) ==
    [k \in 1 .. c.blocks * UNITS |->
        IF c.type = "RAW" THEN c.data[k]
        ELSE IF c.type = "FILL" THEN c.data[((k - 1) % UNITS) + 1] ELSE Torn]

ImageMeans(chunks, data) ==
    LET all == FlattenSeq([i \in DOMAIN chunks |-> ChunkMeans(chunks[i])]) IN
    [k \in DOMAIN data |-> IF k <= Len(all) /\ all[k] # Torn THEN all[k] ELSE data[k]]
=============================================================================
