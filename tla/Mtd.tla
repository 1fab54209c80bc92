-------------------------------- MODULE Mtd --------------------------------
(* mtd.c: flash_erase, nandwrite, nanddump and flashcp, a block or a chunk *)
(* at a time. Flash is programmed, not written: a byte that is not erased  *)
(* cannot become any other byte.                                           *)
EXTENDS Integers, Sequences, FiniteSets

CONSTANTS Erase,        \* erasesize
          Page,         \* writesize
          Chunk,        \* CHUNK_SIZE
          Blocks,       \* how many blocks the device has
          Bytes,        \* what a byte may be
          Jobs          \* command lines, with device and file

Erased == "F"           \* 0xff
Garbled == "x"          \* what nobody wrote

MtdAssumption ==
    /\ {Erase, Page, Chunk, Blocks} \subseteq Nat \ {0}
    /\ Erase % Page = 0
    /\ \A j \in Jobs : /\ j.cmd \in {"erase", "dump", "nandwrite", "flashcp"}
                       /\ j.start \in Nat /\ j.n \in Nat /\ j.file \in Seq(Bytes)
                       /\ j.flash \in [1..(Blocks * Erase) -> Bytes]
    /\ {Erased, Garbled} \subseteq Bytes

(* A job: cmd; nand; bad, the bad blocks; mute: the device does not say    *)
(* which are bad; flaky: it may store something else than it is given;     *)
(* start; n, a count or a length; pad: -p; flash, file: what is on them.   *)

VARIABLES job, flash, pc,
          at,           \* start, or i, or done
          rest,         \* what of the file is not read; of a dump, its length
          out,          \* what nanddump has written
          bad,          \* nanddump's local
          exit

vars == <<job, flash, pc, at, rest, out, bad, exit>>

Size == Blocks * Erase

Least(a, b) == IF a < b THEN a ELSE b
Part(s, from, n) == SubSeq(s, from + 1, from + n)
Block(off) == off \div Erase
Program(old, new) == IF old = Erased THEN new ELSE IF new = Erased \/ new = old THEN old ELSE Garbled

\* The device after bytes d are programmed at off.
Programmed(off, d) ==
    [k \in DOMAIN flash |-> IF k \in (off + 1)..(off + Len(d))
                            THEN Program(flash[k], d[k - off]) ELSE flash[k]]
Filled(b, v) == [k \in DOMAIN flash |-> IF Block(k - 1) = b THEN v ELSE flash[k]]

\* Mutant: the offset is taken for the number of a block.
IsBadByte(off) == job.nand /\ ~job.mute /\ off \in job.bad

\* is_bad_block(): NAND only, and an ioctl failure counts as good.
IsBad(off) == job.nand /\ ~job.mute /\ Block(off) \in job.bad

Ends(how) == pc' = "done" /\ exit' = how /\ UNCHANGED <<job, at, rest, out, bad>>

Init == /\ job \in Jobs
        /\ flash = job.flash /\ pc = "start" /\ at = 0
        /\ rest = <<>> /\ out = <<>> /\ bad = FALSE /\ exit = "pending"

-----------------------------------------------------------------------------

\* What each command checks before it begins.
NotToErase == \/ job.start % Erase # 0 \/ job.start >= Size
              \/ job.n > (Size - job.start) \div Erase
NotToDump == job.start >= Size \/ job.start + job.n > Size
NotToWrite == Chunk % Page # 0 \/ job.start % Page # 0 \/ job.start >= Size
NotToCopy == job.nand \/ job.file = <<>> \/ Len(job.file) > Size

Refused == \/ job.cmd = "erase" /\ NotToErase
           \/ job.cmd = "dump" /\ NotToDump
           \/ job.cmd = "nandwrite" /\ NotToWrite
           \/ job.cmd = "flashcp" /\ NotToCopy

Refuse == pc = "start" /\ Refused /\ Ends("usage") /\ flash' = flash

Begin == /\ pc = "start" /\ ~Refused
         /\ pc' = IF job.cmd = "flashcp" THEN "erase" ELSE job.cmd
         /\ at' = IF job.cmd = "flashcp" THEN 0 ELSE job.start
         /\ rest' = job.file
         /\ UNCHANGED <<job, flash, out, bad, exit>>

\* Any system call may fail: the command ends where it is.
Fails == pc \notin {"done", "start"} /\ Ends("ioerr") /\ flash' = flash

\* The end of what flash_erase or flashcp erases.
EraseEnd == IF job.cmd = "flashcp" THEN Erase * ((Len(job.file) + Erase - 1) \div Erase)
            ELSE IF job.n = 0 THEN Size ELSE job.start + job.n * Erase

\* flashcp erases every block the file needs, flash_erase skips bad ones.
EraseBlock ==
    /\ pc = "erase" /\ at < EraseEnd
    /\ IF job.cmd = "erase" /\ IsBad(at)
       THEN /\ flash' = flash /\ at' = at + Erase
            /\ UNCHANGED <<job, pc, rest, out, bad, exit>>
       ELSE \/ /\ flash' = Filled(Block(at), Erased) /\ at' = at + Erase
               /\ UNCHANGED <<job, pc, rest, out, bad, exit>>
            \/ flash' = Filled(Block(at), Garbled) /\ Ends("ioerr")

EraseDone == /\ pc = "erase" /\ at >= EraseEnd
             /\ IF job.cmd = "erase" THEN Ends("ok")
                ELSE pc' = "copy" /\ at' = 0 /\ UNCHANGED <<job, rest, out, bad, exit>>
             /\ flash' = flash

\* A write: all of d, or on a flaky medium something else; or part of it, and
\* then the command fails.
Write(off, d) ==
    \/ flash' = Programmed(off, d)
    \/ job.flaky /\ \E k \in DOMAIN d : flash' = Programmed(off, [d EXCEPT ![k] = Garbled])

WriteFails(off, d) ==
    /\ \E n \in 0..Len(d) : flash' = Programmed(off, Part(d, 0, n))
    /\ Ends("ioerr")

-----------------------------------------------------------------------------

\* nanddump: to the end of the block, the buffer or the length. Whether the
\* block is bad is asked only at its beginning.
DumpLength == IF job.n = 0 THEN Size - job.start ELSE job.n

Dump ==
    /\ pc = "dump" /\ Len(out) < DumpLength
    /\ LET n == Least(Least(Erase - (at % Erase), Chunk), DumpLength - Len(out))
       IN /\ bad' = IF at % Erase = 0 THEN IsBad(at) ELSE bad
          /\ out' = out \o IF bad' THEN [k \in 1..n |-> Erased] ELSE Part(flash, at, n)
          /\ at' = at + n
    /\ UNCHANGED <<job, flash, pc, rest, exit>>

DumpDone == pc = "dump" /\ Len(out) >= DumpLength /\ Ends("ok") /\ flash' = flash

\* nandwrite: as much of the file as fits the rest of this block, padded to
\* whole pages; then past the bad blocks.
Room == Least(Erase - (at % Erase), Chunk)
Take == Part(rest, 0, Least(Room, Len(rest)))
Short == (Page - (Len(Take) % Page)) % Page
Padded == Take \o [k \in 1..Short |-> Erased]

\* Mutant: one bad block is gone past, not two.
AfterBadOnce == IF IsBad(at) THEN at + Erase ELSE at

AfterBad ==
    LET good == {b \in Block(at)..(Blocks - 1) : ~IsBad(b * Erase)}
    IN IF Block(at) \in good THEN at
       ELSE IF good = {} THEN Size
       ELSE Erase * (CHOOSE b \in good : \A x \in good : b <= x)

NandWrite ==
    /\ pc = "nandwrite" /\ rest # <<>>
    /\ Short = 0 \/ job.pad
    /\ AfterBad + Len(Padded) <= Size
    /\ \/ /\ Write(AfterBad, Padded)
          /\ at' = AfterBad + Len(Padded)
          /\ rest' = SubSeq(rest, Len(Take) + 1, Len(rest))
          /\ UNCHANGED <<job, pc, out, bad, exit>>
       \/ WriteFails(AfterBad, Padded)

NandWriteStops ==
    /\ pc = "nandwrite" /\ rest # <<>>
    /\ (Short # 0 /\ ~job.pad) \/ AfterBad + Len(Padded) > Size
    /\ Ends("usage") /\ flash' = flash

NandWriteDone == pc = "nandwrite" /\ rest = <<>> /\ Ends("ok") /\ flash' = flash

\* flashcp: write, a chunk at a time, then read both back from the start.
Copy ==
    /\ pc = "copy" /\ rest # <<>>
    /\ LET d == Part(rest, 0, Least(Chunk, Len(rest)))
       IN \/ /\ Write(at, d)
             /\ at' = at + Len(d)
             /\ rest' = SubSeq(rest, Len(d) + 1, Len(rest))
             /\ UNCHANGED <<job, pc, out, bad, exit>>
          \/ WriteFails(at, d)

SeekBack == /\ pc = "copy" /\ rest = <<>>
            /\ pc' = "verify" /\ at' = 0
            /\ UNCHANGED <<job, flash, rest, out, bad, exit>>

Verify ==
    /\ pc = "verify"
    /\ LET n == Least(Chunk, Len(job.file) - at)
       IN CASE at >= Len(job.file) -> Ends("ok")
            [] at < Len(job.file) /\ Part(flash, at, n) # Part(job.file, at, n) -> Ends("differs")
            [] OTHER -> at' = at + n /\ UNCHANGED <<job, pc, rest, out, bad, exit>>
    /\ flash' = flash

Next == \/ Refuse \/ Begin \/ Fails \/ EraseBlock \/ EraseDone \/ Dump \/ DumpDone
        \/ NandWrite \/ NandWriteStops \/ NandWriteDone \/ Copy \/ SeekBack \/ Verify

-----------------------------------------------------------------------------

\* The bytes of the good blocks from the start of the job on, and which of them,
\* in order, k is.
GoodFrom(start) == {k \in 1..Size : k > start /\ ~IsBad(k - 1)}
Nth(k) == Cardinality({x \in GoodFrom(job.start) : x <= k})

\* A dump keeps every byte at its offset: bad blocks are in it, as erased ones.
\* A block that the dump begins in the middle of is read whatever it is.
DumpInPlace ==
    /\ Len(out) = DumpLength
    /\ \A k \in DOMAIN out :
          LET off == job.start + k - 1
              skipped == IsBad(off) /\ (job.start % Erase = 0 \/ Block(off) # Block(job.start))
          IN out[k] = IF skipped THEN Erased ELSE flash[off + 1]

\* Success means what it says. nandwrite: the good blocks from the start on hold
\* the file, with nothing left out or written twice at a bad block, as far as
\* they were erased. flashcp: the flash was read back and is the file, whatever
\* the medium did. flash_erase: every good block asked for is erased. nanddump:
\* every byte is at its offset. Nothing else is touched.
FlashAsAsked ==
    exit = "ok" =>
        LET good == GoodFrom(job.start)
            n == Len(job.file)
            same(K) == \A k \in K : flash[k] = job.flash[k]
        IN CASE job.cmd = "nandwrite" ->
                  /\ n <= Nth(Size)
                  /\ ~job.flaky =>
                       /\ \A k \in good : Nth(k) <= n /\ job.flash[k] = Erased => flash[k] = job.file[Nth(k)]
                       /\ same({k \in DOMAIN flash : k \notin good \/ Nth(k) > n})
             [] job.cmd = "flashcp" ->
                  /\ SubSeq(flash, 1, n) = job.file
                  /\ same((EraseEnd + 1)..Size)
             [] job.cmd = "erase" ->
                  LET asked == {k \in good : k <= EraseEnd}
                  IN /\ \A k \in asked : flash[k] = Erased
                     /\ same(DOMAIN flash \ asked)
             [] OTHER -> DumpInPlace /\ same(DOMAIN flash)

\* A block marked bad is neither erased nor written by the tools for NAND, not
\* even on the way to a failure (prog_flash_erase, prog_nandwrite: bad blocks
\* are looked up block by block).
BadLeftAlone ==
    \A k \in DOMAIN flash :
        job.nand /\ ~job.mute /\ Block(k - 1) \in job.bad => flash[k] = job.flash[k]

TypeOK ==
    /\ pc \in {"start", "erase", "dump", "nandwrite", "copy", "verify", "done"}
    /\ exit \in {"pending", "ok", "differs", "usage", "ioerr"}
    /\ at \in 0..Size /\ Len(flash) = Size

=============================================================================
