------------------------------- MODULE Blkwak -------------------------------
(* blkwak.c and inc/android_sparse_img.h: images, raw or sparse, written   *)
(* to a block device, compared with it, and made from it, a buffer at a    *)
(* time.                                                                   *)
EXTENDS Integers, Sequences, FiniteSets, SequencesExt

CONSTANTS Word,         \* bytes of a fill: 4
          Block,        \* SPARSE_BLK_SZ, a multiple of it
          MaxBody,      \* the longest body a chunk's header can state
          MaxBlks,      \* and the most blocks
          Octets,       \* what a byte may be
          Jobs          \* command lines, with device and image

Hole == "hole"          \* what an image does not say
Garbled == "x"          \* what nobody wrote

Types == {"raw", "fill", "hole", "crc", "other"}
Chunks == [type : Types, blks : Nat, says : Nat, body : Seq(Octets)]
IsImage(f) ==
    \/ f.kind = "raw" /\ f.data \in Seq(Octets)
    \/ /\ f.kind = "sparse" /\ {f.unit, f.blks, f.count} \subseteq Nat
       /\ f.chunks \in Seq(Chunks)
       /\ \A k \in DOMAIN f.chunks : Len(f.chunks[k].body) <= f.chunks[k].says

BlkwakAssumption ==
    /\ {Word, Block, MaxBody, MaxBlks} \subseteq Nat \ {0}
    /\ Block % Word = 0
    /\ Garbled \in Octets /\ Hole \notin Octets
    /\ \A j \in Jobs :
          /\ j.cmd \in {"read", "write", "cmp"} /\ j.bs \in Nat \ {0} /\ {j.off, j.len} \subseteq Nat
          /\ {j.sparse, j.verify, j.same, j.flaky} \subseteq BOOLEAN
          /\ j.dev \in Seq(Octets) /\ IsImage(j.file)

(* A job: cmd; bs; sparse, verify: -s, -v; off, len; same: device and file *)
(* are one; flaky: the medium may store something else than it is given;   *)
(* dev, file: what is on them. A file is [kind |-> "raw", data] or [kind   *)
(* |-> "sparse", unit, blks, count, chunks]: block size, number of blocks  *)
(* and of chunks as its header says, and the chunks that are there, each   *)
(* with its type, its blocks, the body size it states and the body it has. *)

VARIABLES job, dev, file, pc,
          w,            \* the walk: op, at, i, left, pos, fill, bad
          exit          \* how it ended

vars == <<job, dev, file, pc, w, exit>>

Least(a, b) == IF a < b THEN a ELSE b
Fits(off, n) == off + n <= Len(dev)
Bytes(s, from, n) == SubSeq(s, from + 1, from + n)
Splice(s, off, d) ==
    [k \in DOMAIN s |-> IF k \in (off + 1)..(off + Len(d)) THEN d[k - off] ELSE s[k]]
Repeat(f, n) == [k \in 1..n |-> f[((k - 1) % Len(f)) + 1]]

Walk(op) == [op |-> op, at |-> job.off, i |-> 0, left |-> 0, pos |-> 0,
             fill |-> <<>>, bad |-> 0]

Init == /\ job \in Jobs
        /\ dev = job.dev /\ file = job.file
        /\ pc = "start" /\ exit = "pending" /\ w = Walk("none")

Ends(how) == pc' = "done" /\ exit' = how /\ UNCHANGED <<job, dev, file, w>>

-----------------------------------------------------------------------------
(* Starting: main(), cmd_read(), cmd_write(), cmd_cmp().                    *)

\* parse_region(): no length means all there is.
Length == IF job.len = 0 THEN Len(dev) - job.off ELSE job.len

BadRegion == /\ \/ job.off > Len(dev) \/ ~Fits(job.off, Length)
                \/ job.sparse /\ \E n \in {job.off, Length, job.bs} : n % Block # 0

Refused == job.same \/ (job.cmd = "read" /\ BadRegion)

Refuse == pc = "start" /\ Refused /\ Ends("usage")

BeginWrite == /\ pc = "start" /\ ~Refused /\ job.cmd = "write"
              /\ w' = Walk("write") /\ pc' = "open"
              /\ UNCHANGED <<job, dev, file, exit>>

BeginCompare == /\ pc = "start" /\ ~Refused /\ job.cmd = "cmp"
                /\ w' = Walk("compare") /\ pc' = "open"
                /\ UNCHANGED <<job, dev, file, exit>>

\* The output is emptied, a sparse one gets its header.
BeginRead ==
    /\ pc = "start" /\ ~Refused /\ job.cmd = "read"
    /\ pc' = "read"
    /\ file' = IF job.sparse
               THEN [kind |-> "sparse", unit |-> Block, blks |-> 0, count |-> 0, chunks |-> <<>>]
               ELSE [kind |-> "raw", data |-> <<>>]
    /\ UNCHANGED <<job, dev, w, exit>>

\* Any system call may fail, and then the command ends.
Fails == pc \notin {"done", "write"} /\ Ends("ioerr")

-----------------------------------------------------------------------------
(* walk_image(): the same walk over the spans of the image, to write it or *)
(* to compare it.                                                          *)

ImageSize == file.blks * file.unit

\* android_sparse_open(), and the image has to fit. A raw one is not measured.
OpenImage ==
    /\ pc = "open"
    /\ IF file.kind = "sparse" /\ (file.unit % Word # 0 \/ ~Fits(job.off, ImageSize))
       THEN Ends("rejected")
       ELSE pc' = "walk" /\ UNCHANGED <<job, dev, file, w, exit>>

\* span_data(): d belongs at w.at; then comes next.
Span(d, next) ==
    /\ Fits(w.at, Len(d))
    /\ IF w.op = "write"
       THEN /\ \/ dev' = Splice(dev, w.at, d)
               \/ /\ job.flaky
                  /\ \E k \in DOMAIN d : dev' = Splice(dev, w.at, [d EXCEPT ![k] = Garbled])
            /\ w' = next
       ELSE /\ dev' = dev
            /\ w' = [next EXCEPT !.bad = @ + Cardinality({k \in DOMAIN d : d[k] # dev[w.at + k]})]
    /\ UNCHANGED <<job, file, pc, exit>>

\* What the next span of the image is, and the walk after it.
RawPart == LET d == Bytes(file.data, w.pos, Least(job.bs, Len(file.data) - w.pos))
           IN [d |-> d, next |-> [w EXCEPT !.at = @ + Len(d), !.pos = @ + Len(d)]]

ChunkPart ==
    LET n == Least(job.bs, w.left)
        d == IF w.fill # <<>> THEN Bytes(Repeat(w.fill, job.bs), 0, n)
             ELSE Bytes(file.chunks[w.i].body, w.pos, n)
    IN [d |-> d, next |-> [w EXCEPT !.at = @ + n, !.left = @ - n,
                                    !.pos = IF w.fill # <<>> THEN @ ELSE @ + n]]

Part == IF file.kind = "raw" THEN RawPart ELSE ChunkPart
HasPart == pc = "walk" /\ (IF file.kind = "raw" THEN w.pos < Len(file.data) ELSE w.left > 0)
\* The file ends inside a chunk.
Missing == file.kind = "sparse" /\ w.fill = <<>> /\ w.pos + Least(job.bs, w.left) > Len(file.chunks[w.i].body)

WalkSpan == HasPart /\ ~Missing /\ Span(Part.d, Part.next)

\* A write may fail having written some of it.
WriteFails ==
    /\ HasPart /\ ~Missing /\ w.op = "write" /\ Fits(w.at, Len(Part.d))
    /\ \E n \in 0..(Len(Part.d) - 1) : dev' = Splice(dev, w.at, Bytes(Part.d, 0, n))
    /\ pc' = "done" /\ exit' = "ioerr"
    /\ UNCHANGED <<job, file, w>>

PastTheEnd == /\ HasPart
              /\ ~(~Missing /\ Fits(w.at, Len(Part.d)))
              /\ Ends("rejected")

\* android_sparse_chunk() and the switch on its type.
NextChunk ==
    /\ pc = "walk" /\ file.kind = "sparse" /\ w.left = 0 /\ w.i < file.count
    /\ LET k == w.i + 1
           c == file.chunks[k]
           len == c.blks * file.unit
           there == k <= Len(file.chunks)
           good == CASE c.type = "raw" -> c.says = len
                     [] c.type = "fill" -> c.says = Word /\ Len(c.body) = Word
                     [] c.type = "hole" -> c.says = 0
                     [] c.type = "crc" -> TRUE
                     [] OTHER -> FALSE
       IN IF ~there \/ ~good THEN Ends("rejected")
          ELSE /\ w' = [w EXCEPT !.i = k, !.pos = 0,
                                 !.left = IF c.type \in {"raw", "fill"} THEN len ELSE 0,
                                 !.fill = IF c.type = "fill" THEN c.body ELSE <<>>,
                                 !.at = IF c.type = "hole" THEN @ + len ELSE @]
               /\ UNCHANGED <<job, dev, file, pc, exit>>

WalkEnds ==
    /\ pc = "walk" /\ ~HasPart
    /\ file.kind = "sparse" => w.i >= file.count
    /\ IF file.kind = "sparse" /\ w.at - job.off # ImageSize
       THEN Ends("rejected")
       ELSE pc' = "finish" /\ UNCHANGED <<job, dev, file, w, exit>>

\* After a write: fsync(), and if asked for the same walk again to compare.
Finish ==
    /\ pc = "finish"
    /\ CASE w.op = "compare" -> Ends(IF w.bad = 0 THEN "ok" ELSE "differs")
         [] w.op = "write" /\ ~job.verify -> Ends("ok")
         [] OTHER -> /\ pc' = "open" /\ w' = Walk("compare")
                     /\ UNCHANGED <<job, dev, file, exit>>

-----------------------------------------------------------------------------
(* Reading: read_raw(), read_sparse() with the writer of sparse images.     *)

Done == IF file.kind = "raw" THEN Len(file.data) ELSE w.pos
Buffer == Bytes(dev, job.off + Done, Least(job.bs, Length - Done))

IsFill(b) == \A k \in 1..(Block - Word) : b[k] = b[k + Word]
BlockOf(b, k) == Bytes(b, (k - 1) * Block, Block)

\* __android_sparse_grows()
Grows(chunks, type, blks) ==
    /\ chunks # <<>>
    /\ Last(chunks).type = type
    /\ Last(chunks).blks + blks <= MaxBlks
    /\ type = "raw" => (Last(chunks).blks + blks) * Block <= MaxBody

\* android_sparse_put_raw(), android_sparse_put_fill(): the last chunk grows,
\* and its header is written again, or a new one begins.
PutBlocks(chunks, run) ==
    LET blks == Len(run) \div Block
        type == IF IsFill(Bytes(run, 0, Block)) THEN "fill" ELSE "raw"
        body == IF type = "fill" THEN Bytes(run, 0, Word) ELSE run
        last == Last(chunks)
        grows == Grows(chunks, type, blks) /\ (type = "fill" => last.body = body)
        chunk == IF ~grows THEN [type |-> type, blks |-> blks, says |-> Len(body), body |-> body]
                 ELSE LET all == IF type = "fill" THEN body ELSE last.body \o body
                      IN [last EXCEPT !.blks = @ + blks, !.body = all, !.says = Len(all)]
    IN IF grows THEN Front(chunks) \o <<chunk>> ELSE Append(chunks, chunk)

\* Mutant: any two fills are one.
SameChunkAnyFill(a, b) == IsFill(a) = IsFill(b)

SameChunk(a, b) == /\ IsFill(a) = IsFill(b)
                   /\ IsFill(a) => Bytes(a, 0, Word) = Bytes(b, 0, Word)

\* A run of blocks that share a chunk goes out together: the one begun at start
\* when the next block is not like its first.
PutBuffer(chunks, b) ==
    LET n == Len(b) \div Block
        put[k \in 0..n] ==
          IF k = 0 THEN [start |-> 1, chunks |-> chunks]
          ELSE LET s == put[k - 1]
                   run == Bytes(b, (s.start - 1) * Block, (k + 1 - s.start) * Block)
               IN IF k < n /\ SameChunk(BlockOf(b, s.start), BlockOf(b, k + 1)) THEN s
                  ELSE [start |-> k + 1, chunks |-> PutBlocks(s.chunks, run)]
    IN put[n].chunks

\* How many blocks they are.
BlocksOf(chunks) ==
    LET blks[k \in 0..Len(chunks)] == IF k = 0 THEN 0 ELSE blks[k - 1] + chunks[k].blks
    IN blks[Len(chunks)]

ReadBuffer ==
    /\ pc = "read" /\ Done < Length
    /\ IF job.sparse
       THEN /\ file' = [file EXCEPT !.chunks = PutBuffer(@, Buffer)]
            /\ w' = [w EXCEPT !.pos = @ + Len(Buffer)]
       ELSE /\ file' = [file EXCEPT !.data = @ \o Buffer]
            /\ w' = w
    /\ UNCHANGED <<job, dev, pc, exit>>

\* android_sparse_finish(): the header again, now with the counts; -v compares.
ReadEnds ==
    /\ pc = "read" /\ Done >= Length
    /\ IF ~job.sparse THEN Ends("ok")
       ELSE /\ file' = [file EXCEPT !.blks = BlocksOf(file.chunks), !.count = Len(file.chunks)]
            /\ w' = Walk("compare")
            /\ IF job.verify THEN pc' = "open" /\ exit' = exit
               ELSE pc' = "done" /\ exit' = "ok"
            /\ UNCHANGED <<job, dev>>

Next == \/ Refuse \/ BeginWrite \/ BeginCompare \/ BeginRead \/ Fails
        \/ OpenImage \/ WalkSpan \/ WriteFails \/ PastTheEnd \/ NextChunk \/ WalkEnds \/ Finish
        \/ ReadBuffer \/ ReadEnds

-----------------------------------------------------------------------------

Covers(c, unit) ==
    CASE c.type = "raw" -> c.body
      [] c.type = "fill" -> Repeat(c.body, c.blks * unit)
      [] c.type = "hole" -> [k \in 1..(c.blks * unit) |-> Hole]
      [] OTHER -> <<>>

\* What the first so many chunks say.
Unpacked(chunks, unit) ==
    LET d[k \in 0..Len(chunks)] == IF k = 0 THEN <<>> ELSE d[k - 1] \o Covers(chunks[k], unit)
    IN d

\* What an image says, byte for byte.
Decoded == IF file.kind = "raw" THEN file.data
           ELSE Unpacked(file.chunks, file.unit)[file.count]

Matches == \A k \in DOMAIN Decoded : Decoded[k] \in {Hole, dev[job.off + k]}

\* A buffer begins with the pattern each time it is used, so that a fill which
\* takes more than one buffer is exact only if a buffer holds whole words.
FillsExact ==
    \/ job.bs % Word = 0
    \/ file.kind = "raw"
    \/ \A k \in DOMAIN file.chunks : file.chunks[k].type # "fill"

\* After a write that was verified, or on a medium that stores what it is given,
\* the device holds every byte of the image at its place; a comparison finds a
\* difference exactly when there is one.
ImageOnDevice ==
    FillsExact =>
        /\ (exit = "ok" /\ job.cmd # "read" /\ (w.op = "compare" \/ ~job.flaky)) => Matches
        /\ exit = "differs" => ~Matches

\* Nothing but the place of the image is written to: what lies before it,
\* behind it, and in its holes stays.
RestUntouched ==
    exit = "ok" =>
        \A k \in DOMAIN dev :
            \/ dev[k] = job.dev[k]
            \/ /\ job.cmd = "write"
               /\ k - job.off \in DOMAIN Decoded /\ Decoded[k - job.off] # Hole

\* An image made from a device is the device: decoded, it gives back the region
\* that was read, though its blocks were sorted into fills and raw chunks that
\* grow from buffer to buffer until a header can hold no more.
ImageOfDevice ==
    exit = "ok" /\ job.cmd = "read" => Decoded = Bytes(dev, job.off, Length)

\* Success means what it says, whatever the buffer size and wherever chunks and
\* buffers end (walk_image, span_data, span_fill, finish_compare; read_raw,
\* read_sparse, android_sparse_put_raw, android_sparse_put_fill).
ImageAndDevice == ImageOnDevice /\ RestUntouched /\ ImageOfDevice

TypeOK ==
    /\ pc \in {"start", "open", "walk", "finish", "read", "done"}
    /\ exit \in {"pending", "ok", "differs", "rejected", "ioerr", "usage"}
    /\ (exit # "pending") = (pc = "done")
    /\ Len(dev) = Len(job.dev)

=============================================================================
