------------------------------ MODULE RunProofs ------------------------------
(* The flash tools, and all the tools together: what a run of any of them   *)
(* keeps to, for any values of the constants of all.                        *)
EXTENDS Tools, BlkProofs

\* Mtd
flash == s4
at == s5
out == s6
rest == s7
bad == s8

USE DEF pc, exit, job, flash, at, out, rest, bad

-----------------------------------------------------------------------------
(* The flash tools leave bad blocks alone.                                  *)

LEMMA WholeBlocks ==
  ASSUME NEW a \in Nat, NEW c \in Nat, NEW m \in Nat \ {0}, a < c
  PROVE  m * a + m <= m * c
  OBVIOUS

\* Padding to whole pages does not leave what is made of whole pages.
LEMMA RoundUp ==
  ASSUME NEW t \in Nat, NEW n \in Nat, NEW m \in Nat \ {0}, n % m = 0, t <= n
  PROVE  LET up == t + ((m - (t % m)) % m)
         IN  up \in Nat /\ up <= n /\ up % m = 0
<1> DEFINE a == t \div m
           r == t % m
           c == n \div m
<1>1. a \in Nat /\ r \in Nat /\ r < m /\ t = m * a + r
  BY DivisionParts
<1>2. c \in Nat /\ n = m * c
  BY DivisionParts
<1> HIDE DEF a, r, c
<1>3. CASE r = 0
  <2>1. (m - r) % m = 0
    BY <1>3
  <2>2. (m * a + 0) % m = 0
    BY <1>1, DivisionUnique
  <2>3. QED BY <1>1, <1>3, <2>1, <2>2 DEF r
<1>4. CASE r > 0
  <2>1. (m - r) % m = m - r
    BY <1>1, <1>4
  <2>2. t + (m - r) = m * a + m
    BY <1>1
  <2>3. m * a + m = m * (a + 1) + 0
    BY <1>1
  <2>4. (m * (a + 1) + 0) % m = 0
    BY <1>1, DivisionUnique
  <2>5. a < c
    <3>1. m * a < m * c
      BY <1>1, <1>2, <1>4
    <3>2. QED BY <1>1, <1>2, <3>1
  <2>6. m * a + m <= n
    BY <1>1, <1>2, <2>5, WholeBlocks
  <2>7. QED BY <1>1, <2>1, <2>2, <2>3, <2>4, <2>6 DEF r
<1>5. QED BY <1>1, <1>3, <1>4

\* A place in a block is made of whole pages if the place on the device is, and
\* so is what comes after it.
LEMMA WithinWholePages ==
  ASSUME NEW n \in Nat, NEW b \in Nat \ {0}, NEW m \in Nat \ {0}, b % m = 0, n % m = 0
  PROVE  (n % b) % m = 0
<1> DEFINE q == n \div b
           r == n % b
           c == b \div m
           e == n \div m
<1>1. q \in Nat /\ r \in Nat /\ n = b * q + r
  BY DivisionParts
<1>2. c \in Nat /\ b = m * c
  BY DivisionParts
<1>3. e \in Nat /\ n = m * e
  BY DivisionParts
<1> HIDE DEF q, r, c, e
<1>4. r = m * (e - c * q)
  <2>1. b * q = m * (c * q)
    BY <1>1, <1>2
  <2>2. r = m * e - m * (c * q)
    BY <1>1, <1>3, <2>1
  <2>3. QED BY <1>1, <1>2, <1>3, <2>2
<1>5. e - c * q \in Nat
  BY <1>1, <1>2, <1>3, <1>4
<1> DEFINE k == e - c * q
<1> HIDE DEF k
<1>6. r = m * k + 0 /\ k \in Nat
  BY <1>4, <1>5 DEF k
<1>7. r % m = 0
  BY <1>6, DivisionUnique
<1>8. QED BY <1>7, Zenon DEF r

LEMMA WholePagesOf ==
  ASSUME NEW b \in Nat, NEW k \in Nat, NEW m \in Nat \ {0}, b % m = 0
  PROVE  (b * k) % m = 0
<1> DEFINE c == b \div m
<1>1. c \in Nat /\ b = m * c
  BY DivisionParts
<1> HIDE DEF c
<1>2. b * k = m * (c * k) /\ c * k \in Nat
  BY <1>1
<1> DEFINE e == c * k
<1> HIDE DEF e
<1>3. b * k = m * e + 0 /\ e \in Nat
  BY <1>2 DEF e
<1>4. QED BY <1>3, DivisionUnique

LEMMA WholePages ==
  ASSUME NEW k \in Nat, NEW m \in Nat \ {0}
  PROVE  (m * k) % m = 0
<1>1. 0 \in Nat /\ 0 < m
  OBVIOUS
<1>2. (m * k + 0) % m = 0
  BY <1>1, DivisionUnique
<1>3. m * k + 0 = m * k
  OBVIOUS
<1>4. QED BY <1>2, <1>3

LEMMA MoreWholePages ==
  ASSUME NEW a \in Nat, NEW b \in Nat, NEW m \in Nat \ {0}, a % m = 0, b % m = 0
  PROVE  (a + b) % m = 0
<1> DEFINE c == a \div m
           e == b \div m
<1>1. c \in Nat /\ a = m * c
  BY DivisionParts
<1>2. e \in Nat /\ b = m * e
  BY DivisionParts
<1> HIDE DEF c, e
<1>3. a + b = m * (c + e) /\ c + e \in Nat
  BY <1>1, <1>2
<1>4. (m * (c + e)) % m = 0
  BY <1>3, WholePages, Zenon
<1>5. QED BY <1>3, <1>4, Zenon

LEMMA LessWholePages ==
  ASSUME NEW n \in Nat, NEW b \in Nat, NEW m \in Nat \ {0}, b % m = 0, n % m = 0, n <= b
  PROVE  (b - n) % m = 0
<1> DEFINE c == b \div m
           e == n \div m
<1>1. c \in Nat /\ b = m * c
  BY DivisionParts
<1>2. e \in Nat /\ n = m * e
  BY DivisionParts
<1> HIDE DEF c, e
<1>3. b - n = m * (c - e)
  BY <1>1, <1>2
<1>4. c - e \in Nat
  BY <1>1, <1>2, <1>3
<1> DEFINE k == c - e
<1> HIDE DEF k
<1>5. b - n = m * k + 0 /\ k \in Nat
  BY <1>3, <1>4 DEF k
<1>6. QED BY <1>5, DivisionUnique

-----------------------------------------------------------------------------

\* Only the tools for NAND come near it, and nandwrite stays on whole pages.
MtdInv ==
    /\ job \in FlashJobs
    /\ pc = "erase" => job.cmd \in {"erase", "flashcp"}
    /\ pc \in {"erase", "copy"} /\ job.cmd # "erase" => ~job.nand
    /\ pc = "copy" => job.cmd # "erase"
    /\ pc = "nandwrite" => at \in Nat /\ at % Page = 0 /\ rest \in Seq(FlashBytes)
    /\ M!BadLeftAlone

\* What a job says that is still true of it, and of its file.
Good == M!GoodFrom(job.start)
Written == Len(job.file) - Len(rest)

\* flash_erase is through with the blocks before at.
Erasing == /\ at \in Nat /\ at % Erase = 0 /\ at >= job.start /\ at <= M!EraseEnd
           /\ job.start % Erase = 0
           /\ \A k \in 1..M!Size : flash[k] = IF k \in Good /\ k <= at THEN M!Erased ELSE job.flash[k]

\* flashcp leaves alone what comes after the blocks that its file needs.
Copying == /\ Len(job.file) <= M!Size
           /\ \A k \in (M!EraseEnd + 1)..M!Size : flash[k] = job.flash[k]
           /\ pc = "erase" => at \in Nat /\ at % Erase = 0 /\ rest = job.file
           /\ pc = "copy" => at \in Nat /\ rest \in Seq(FlashBytes) /\ at + Len(rest) = Len(job.file)
           /\ pc = "verify" => /\ at \in Nat /\ at <= Len(job.file)
                               /\ \A k \in 1..at : flash[k] = job.file[k]

\* nanddump says that a block is bad while it is in one, unless it began there.
Skipped(off) == M!IsBad(off) /\ (job.start % Erase = 0 \/ M!Block(off) # M!Block(job.start))
Dumping == /\ job.start + M!DumpLength <= M!Size
           /\ flash = job.flash /\ out \in Seq(FlashBytes)
           /\ Len(out) <= M!DumpLength /\ at = job.start + Len(out)
           /\ at % Erase # 0 => bad = Skipped(at)
           /\ \A k \in 1..Len(out) :
                 out[k] = IF Skipped(job.start + k - 1) THEN M!Erased ELSE flash[job.start + k]

\* The first Written good bytes hold what nandwrite has taken of the file, and the
\* next byte goes where as many of them lie before.
Writing ==
    /\ at \in Nat /\ at % Page = 0 /\ at >= job.start /\ Chunk % Page = 0
    /\ rest \in Seq(FlashBytes) /\ Len(rest) <= Len(job.file)
    /\ \A j \in 1..Len(rest) : rest[j] = job.file[Written + j]
    /\ rest # <<>> => M!Nth(at) = Written
    /\ Written <= M!Nth(M!Size)
    /\ ~job.flaky => \A k \in 1..M!Size :
          IF k \in Good /\ M!Nth(k) <= Written
          THEN job.flash[k] = M!Erased => flash[k] = job.file[M!Nth(k)]
          ELSE flash[k] = job.flash[k]

FlashInv ==
    /\ flash \in [1..M!Size -> FlashBytes]
    /\ exit = "ok" => pc = "done"
    /\ pc \in {"start", "erase", "copy", "verify", "dump", "nandwrite", "done"}
    /\ pc = "start" => flash = job.flash /\ out = <<>> /\ bad = FALSE
    /\ pc \in {"copy", "verify"} => job.cmd = "flashcp"
    /\ pc = "erase" /\ job.cmd = "erase" => Erasing
    /\ pc \in {"erase", "copy", "verify"} /\ job.cmd = "flashcp" => Copying
    /\ pc = "dump" => job.cmd = "dump" /\ Dumping
    /\ pc = "nandwrite" => job.cmd = "nandwrite" /\ Writing
    /\ M!FlashAsAsked

\* A step that changes no byte of a bad block.
LEMMA SparesBad ==
  ASSUME M!BadLeftAlone, job' = job, DOMAIN flash' = DOMAIN flash,
         \A k \in DOMAIN flash :
            flash'[k] # flash[k] => ~(job.nand /\ ~job.mute /\ M!Block(k - 1) \in job.bad)
  PROVE  M!BadLeftAlone'
  BY DEF M!BadLeftAlone, M!Block

LEMMA MtdQuiet ==
  ASSUME MtdInv, \/ M!Refuse \/ M!Fails \/ M!EraseDone \/ M!Dump \/ M!DumpDone \/ M!NandWriteStops
                 \/ M!NandWriteDone \/ M!SeekBack \/ M!Verify \/ UNCHANGED M!vars
  PROVE  MtdInv'
<1>1. flash' = flash /\ job' = job
  BY DEF M!Refuse, M!Fails, M!EraseDone, M!Dump, M!DumpDone, M!NandWriteStops,
     M!NandWriteDone, M!SeekBack, M!Verify, M!vars, M!Ends
<1>2. M!BadLeftAlone'
  BY <1>1 DEF MtdInv, M!BadLeftAlone, M!Block
<1>3. \/ pc' \in {"done", "dump", "verify"}
      \/ pc = "erase" /\ job.cmd # "erase" /\ pc' = "copy"
      \/ UNCHANGED <<pc, at, rest>>
  BY DEF M!Refuse, M!Fails, M!EraseDone, M!Dump, M!DumpDone, M!NandWriteStops,
     M!NandWriteDone, M!SeekBack, M!Verify, M!vars, M!Ends
<1>4. QED BY <1>1, <1>2, <1>3 DEF MtdInv

LEMMA MtdInit == ASSUME M!Init PROVE MtdInv
<1>1. job \in FlashJobs /\ flash = job.flash /\ pc = "start"
  BY DEF M!Init
<1>2. QED BY <1>1 DEF MtdInv, M!BadLeftAlone

LEMMA MtdBegins == ASSUME M!MtdAssumption, MtdInv, M!Begin PROVE MtdInv'
<1>1. /\ pc = "start" /\ at' = (IF job.cmd = "flashcp" THEN 0 ELSE job.start) /\ rest' = job.file
      /\ pc' = (IF job.cmd = "flashcp" THEN "erase" ELSE job.cmd)
      /\ UNCHANGED <<job, flash>> /\ ~M!Refused
  BY DEF M!Begin
<1>2. /\ job \in FlashJobs /\ job.start \in Nat /\ job.file \in Seq(FlashBytes)
      /\ job.cmd \in {"erase", "dump", "nandwrite", "flashcp"}
  BY DEF M!MtdAssumption, MtdInv
<1>3. job.cmd = "flashcp" => ~job.nand
  BY <1>1 DEF M!Refused, M!NotToCopy
<1>4. job.cmd = "nandwrite" => job.start % Page = 0
  BY <1>1 DEF M!Refused, M!NotToWrite
<1>5. M!BadLeftAlone'
  BY <1>1 DEF MtdInv, M!BadLeftAlone, M!Block
<1>6. QED BY <1>1, <1>2, <1>3, <1>4, <1>5 DEF MtdInv

LEMMA MtdErases == ASSUME MtdInv, M!EraseBlock PROVE MtdInv'
<1>1. pc = "erase" /\ job' = job /\ (pc' = "erase" \/ pc' = "done")
  BY DEF M!EraseBlock, M!Ends
<1>2. M!BadLeftAlone'
  <2>1. CASE flash' = flash
    BY <1>1, <2>1 DEF MtdInv, M!BadLeftAlone, M!Block
  <2>2. CASE /\ ~(job.cmd = "erase" /\ M!IsBad(at))
             /\ \E v \in {M!Erased, M!Garbled} : flash' = M!Filled(M!Block(at), v)
    <3>1. DOMAIN flash' = DOMAIN flash
      BY <2>2 DEF M!Filled
    <3>2. \A k \in DOMAIN flash : flash'[k] # flash[k] => M!Block(k - 1) = M!Block(at)
      BY <2>2 DEF M!Filled
    <3>3. ~(job.nand /\ ~job.mute /\ M!Block(at) \in job.bad)
      BY <1>1, <2>2 DEF MtdInv, M!IsBad
    <3>4. QED BY <1>1, <3>1, <3>2, <3>3, SparesBad DEF MtdInv
  <2>3. QED BY <2>1, <2>2 DEF M!EraseBlock
<1>3. QED BY <1>1, <1>2 DEF MtdInv

\* flashcp is not for NAND, and asks nobody for bad blocks.
LEMMA MtdCopies == ASSUME MtdInv, M!Copy PROVE MtdInv'
<1>1. pc = "copy" /\ job' = job /\ (pc' = "copy" \/ pc' = "done")
  BY DEF M!Copy, M!WriteFails, M!Ends
<1>2. ~job.nand /\ job.cmd # "erase"
  BY <1>1 DEF MtdInv
<1>3. M!BadLeftAlone'
  BY <1>1, <1>2 DEF M!BadLeftAlone
<1>4. QED BY <1>1, <1>2, <1>3 DEF MtdInv

\* What is programmed is within the bytes that were given, whatever the medium
\* makes of them.
LEMMA ProgramsWithin ==
  ASSUME NEW off \in Nat, NEW n \in Nat, NEW d, Len(d) = n,
         flash' = M!Programmed(off, d)
  PROVE  /\ DOMAIN flash' = DOMAIN flash
         /\ \A k \in DOMAIN flash : flash'[k] # flash[k] => k \in (off + 1)..(off + n)
  BY DEF M!Programmed

LEMMA WritesWithin ==
  ASSUME NEW off \in Nat, NEW d \in Seq(FlashBytes), M!Write(off, d) \/ M!WriteFails(off, d)
  PROVE  /\ DOMAIN flash' = DOMAIN flash
         /\ \A k \in DOMAIN flash : flash'[k] # flash[k] => k \in (off + 1)..(off + Len(d))
<1>0. Len(d) \in Nat /\ DOMAIN d = 1..Len(d)
  BY OfSequences
<1>1. CASE flash' = M!Programmed(off, d)
  BY <1>0, <1>1, ProgramsWithin
<1>2. ASSUME NEW k \in DOMAIN d, flash' = M!Programmed(off, [d EXCEPT ![k] = M!Garbled])
      PROVE  /\ DOMAIN flash' = DOMAIN flash
             /\ \A j \in DOMAIN flash : flash'[j] # flash[j] => j \in (off + 1)..(off + Len(d))
  <2>1. Len([d EXCEPT ![k] = M!Garbled]) = Len(d)
    BY <1>0, ExceptSeq
  <2>2. QED BY <1>0, <1>2, <2>1, ProgramsWithin
<1>3. ASSUME NEW n \in 0..Len(d), flash' = M!Programmed(off, M!Part(d, 0, n))
      PROVE  /\ DOMAIN flash' = DOMAIN flash
             /\ \A j \in DOMAIN flash : flash'[j] # flash[j] => j \in (off + 1)..(off + Len(d))
  <2>1. \A j \in 1..n : d[j] \in FlashBytes
    BY <1>0, OfSequences
  <2>2. n \in Nat /\ n <= Len(d)
    BY <1>0
  <2>3. Len(M!Part(d, 0, n)) = n
    BY <2>1, <2>2, SubSeqProperties DEF M!Part
  <2>4. /\ DOMAIN flash' = DOMAIN flash
        /\ \A j \in DOMAIN flash : flash'[j] # flash[j] => j \in (off + 1)..(off + n)
    BY <1>3, <2>2, <2>3, ProgramsWithin
  <2>5. \A j \in (off + 1)..(off + n) : j \in (off + 1)..(off + Len(d))
    BY <1>0, <2>2
  <2>6. QED BY <2>4, <2>5
<1>4. QED BY <1>1, <1>2, <1>3 DEF M!Write, M!WriteFails

\* What is left of a block is whole pages.
LEMMA RoomLeft ==
  ASSUME M!MtdAssumption, at \in Nat, at % Page = 0
  PROVE  Erase - (at % Erase) \in Nat \ {0} /\ (Erase - (at % Erase)) % Page = 0
<1> DEFINE r == at % Erase
<1>0. Erase \in Nat \ {0} /\ Page \in Nat \ {0} /\ Erase % Page = 0
  BY DEF M!MtdAssumption
<1>1. r \in Nat /\ r < Erase
  BY <1>0, DivisionParts
<1>2. r % Page = 0
  BY <1>0, WithinWholePages
<1> HIDE DEF r
<1>3. r <= Erase /\ Erase \in Nat
  BY <1>0, <1>1
<1>4. (Erase - r) % Page = 0
  BY <1>0, <1>1, <1>2, <1>3, LessWholePages, Zenon
<1>5. Erase - r \in Nat \ {0}
  BY <1>0, <1>1
<1>6. QED BY <1>4, <1>5, Zenon DEF r

\* nandwrite writes whole pages, and not past the end of the block it is in.
LEMMA PaddedFits ==
  ASSUME M!MtdAssumption, at \in Nat, at % Page = 0, rest \in Seq(FlashBytes), rest # <<>>
  PROVE  /\ M!Padded \in Seq(FlashBytes) /\ Len(M!Padded) \in Nat
         /\ Len(M!Padded) > 0 /\ Len(M!Padded) % Page = 0
         /\ Len(M!Padded) <= Erase - (at % Erase)
         /\ Len(M!Take) \in Nat
<1>0. Erase \in Nat \ {0} /\ Page \in Nat \ {0} /\ Chunk \in Nat \ {0} /\ Erase % Page = 0
  BY DEF M!MtdAssumption
<1> DEFINE left_ == Erase - (at % Erase)
           n == M!Least(M!Room, Len(rest))
<1>1. left_ \in Nat \ {0} /\ left_ % Page = 0
  BY RoomLeft
<1>2. n \in Nat \ {0} /\ n <= left_ /\ n <= Len(rest)
  <2>1. Len(rest) \in Nat \ {0}
    BY EmptySeq
  <2> HIDE DEF left_
  <2>2. M!Room = M!Least(left_, Chunk)
    BY DEF M!Room, left_
  <2>3. QED BY <1>0, <1>1, <2>1, <2>2 DEF M!Least
<1> HIDE DEF left_, n
<1>3. M!Take \in Seq(FlashBytes) /\ Len(M!Take) = n
  <2>1. \A j \in 1..n : rest[j] \in FlashBytes
    BY <1>2, OfSequences
  <2>2. M!Take = SubSeq(rest, 1, n)
    BY <1>2 DEF M!Take, M!Part, n
  <2>3. QED BY <1>2, <2>1, <2>2, SubSeqProperties
<1> DEFINE s == (Page - (n % Page)) % Page
<1>4. M!Short = s
  BY <1>3 DEF M!Short
<1>5. s \in Nat
  <2>1. n % Page \in Nat /\ n % Page < Page
    BY <1>0, <1>2, DivisionParts
  <2>2. Page - (n % Page) \in Nat
    BY <1>0, <2>1
  <2>3. QED BY <1>0, <2>2, DivisionParts
<1>6. n + s \in Nat /\ n + s <= left_ /\ (n + s) % Page = 0
  BY <1>0, <1>1, <1>2, RoundUp
<1> HIDE DEF s
<1>7. M!Padded \in Seq(FlashBytes) /\ Len(M!Padded) = n + s
  <2> DEFINE fill == [k \in 1..s |-> M!Erased]
  <2>1. fill \in Seq(FlashBytes) /\ Len(fill) = s
    <3>1. M!Erased \in FlashBytes
      BY DEF M!MtdAssumption
    <3>2. fill \in [1..s -> FlashBytes]
      BY <3>1
    <3>3. QED BY <1>5, <3>2
  <2>2. M!Padded = M!Take \o fill
    BY <1>4 DEF M!Padded
  <2> HIDE DEF fill
  <2>3. QED BY <1>3, <2>1, <2>2, ConcatProperties
<1>8. n + s > 0
  BY <1>2, <1>5
<1>9. QED BY <1>2, <1>3, <1>6, <1>7, <1>8 DEF left_

\* What does not leave the rest of a block is in this block.
LEMMA InBlock ==
  ASSUME NEW b \in Nat, NEW o \in Nat, NEW e \in Nat \ {0}, NEW n \in Nat, o + n <= e,
         NEW k \in (e * b + o + 1)..(e * b + o + n)
  PROVE  (k - 1) \div e = b
<1> DEFINE p == e * b
           j == k - 1 - p
<1>1. p \in Nat
  OBVIOUS
<1> HIDE DEF p
<1>2. k \in (p + o + 1)..(p + o + n)
  BY DEF p
<1>3. j \in Nat /\ j < e /\ k - 1 = p + j
  BY <1>1, <1>2
<1> HIDE DEF j
<1>4. k - 1 = e * b + j
  BY <1>3 DEF p
<1>5. QED BY <1>3, <1>4, DivisionUnique

\* Past the bad blocks is the rest of a good one, or the end of the device.
LEMMA AfterBadIsGood ==
  ASSUME M!MtdAssumption, at \in Nat, at % Page = 0,
         NEW n \in Nat, n <= Erase - (at % Erase), M!AfterBad + n <= M!Size
  PROVE  /\ M!AfterBad \in Nat /\ M!AfterBad % Page = 0
         /\ \A k \in (M!AfterBad + 1)..(M!AfterBad + n) :
               ~(job.nand /\ ~job.mute /\ M!Block(k - 1) \in job.bad)
<1>0. Erase \in Nat \ {0} /\ Page \in Nat \ {0} /\ Blocks \in Nat \ {0} /\ Erase % Page = 0
  BY DEF M!MtdAssumption
<1> DEFINE here == M!Block(at)
           r == at % Erase
           good == {b \in here..(Blocks - 1) : ~M!IsBad(b * Erase)}
<1>1. here \in Nat /\ r \in Nat /\ r < Erase /\ at = Erase * here + r
  BY <1>0, DivisionParts DEF M!Block
<1>2. ASSUME NEW b \in good
      PROVE  b \in Nat /\ ~(job.nand /\ ~job.mute /\ b \in job.bad)
  <2>1. b \in Nat
    BY <1>0, <1>1
  <2>2. b * Erase = Erase * b + 0
    BY <1>0, <2>1
  <2>3. M!Block(b * Erase) = b
    BY <1>0, <2>1, <2>2, DivisionUnique DEF M!Block
  <2>4. QED BY <2>1, <2>3 DEF M!IsBad
<1>3. M!AfterBad = IF here \in good THEN at
                   ELSE IF good = {} THEN M!Size
                   ELSE Erase * (CHOOSE b \in good : \A x \in good : b <= x)
  BY DEF M!AfterBad
<1>4. good \subseteq Nat
  BY <1>0, <1>1
<1> HIDE DEF here, r, good
<1>5. CASE here \in good
  <2>1. M!AfterBad = Erase * here + r
    BY <1>1, <1>3, <1>5
  <2>2. r + n <= Erase
    BY <1>0, <1>1 DEF r
  <2>3. ASSUME NEW k \in (M!AfterBad + 1)..(M!AfterBad + n) PROVE M!Block(k - 1) = here
    BY <1>0, <1>1, <2>1, <2>2, InBlock DEF M!Block
  <2>4. M!AfterBad = at
    BY <1>3, <1>5
  <2>5. QED BY <1>2, <1>5, <2>3, <2>4
<1>6. CASE good = {}
  <2>1. M!AfterBad = M!Size /\ M!Size = Erase * Blocks
    BY <1>0, <1>3, <1>6 DEF M!Size
  <2>2. M!AfterBad \in Nat
    BY <1>0, <2>1
  <2>3. M!AfterBad % Page = 0
    BY <1>0, <2>1, WholePagesOf
  <2>4. (M!AfterBad + 1)..(M!AfterBad + n) = {}
    BY <2>1, <2>2
  <2>5. QED BY <2>2, <2>3, <2>4
<1>7. CASE here \notin good /\ good # {}
  <2>1. PICK b \in good : M!AfterBad = Erase * b
    <3>1. \E b \in good : \A x \in good : b <= x
      BY <1>4, <1>7, LeastNumber
    <3> DEFINE c == CHOOSE b \in good : \A x \in good : b <= x
    <3>2. c \in good
      BY <3>1
    <3>3. QED BY <1>3, <1>7, <3>2
  <2>2. b \in Nat /\ ~(job.nand /\ ~job.mute /\ b \in job.bad)
    BY <1>2
  <2>3. M!AfterBad = Erase * b + 0 /\ M!AfterBad \in Nat
    BY <1>0, <2>1, <2>2
  <2>4. M!AfterBad % Page = 0
    BY <1>0, <2>1, <2>2, WholePagesOf
  <2>5. 0 + n <= Erase
    BY <1>0, <1>1 DEF r
  <2>6. ASSUME NEW k \in (M!AfterBad + 1)..(M!AfterBad + n) PROVE M!Block(k - 1) = b
    BY <1>0, <2>2, <2>3, <2>5, InBlock DEF M!Block
  <2>7. QED BY <2>2, <2>3, <2>4, <2>6
<1>8. QED BY <1>5, <1>6, <1>7

LEMMA MtdWrites == ASSUME M!MtdAssumption, MtdInv, M!NandWrite PROVE MtdInv'
<1> DEFINE off == M!AfterBad
           d == M!Padded
<1>0. at \in Nat /\ at % Page = 0 /\ rest \in Seq(FlashBytes) /\ pc = "nandwrite" /\ rest # <<>>
  BY DEF MtdInv, M!NandWrite
<1>1. /\ d \in Seq(FlashBytes) /\ Len(d) \in Nat /\ Len(d) % Page = 0
      /\ Len(d) <= Erase - (at % Erase)
  BY <1>0, PaddedFits
<1>2. off + Len(d) <= M!Size
  BY DEF M!NandWrite
<1>3. /\ off \in Nat /\ off % Page = 0
      /\ \A k \in (off + 1)..(off + Len(d)) :
            ~(job.nand /\ ~job.mute /\ M!Block(k - 1) \in job.bad)
  BY <1>0, <1>1, <1>2, AfterBadIsGood
<1>4. /\ M!Write(off, d) \/ M!WriteFails(off, d)
      /\ job' = job
      /\ \/ pc' = "done"
         \/ pc' = pc /\ at' = off + Len(d) /\ rest' = SubSeq(rest, Len(M!Take) + 1, Len(rest))
  BY DEF M!NandWrite, M!WriteFails, M!Ends
<1> HIDE DEF off, d
<1>5. /\ DOMAIN flash' = DOMAIN flash
      /\ \A k \in DOMAIN flash : flash'[k] # flash[k] => k \in (off + 1)..(off + Len(d))
  BY <1>1, <1>3, <1>4, WritesWithin
<1>6. M!BadLeftAlone'
  BY <1>3, <1>4, <1>5, SparesBad DEF MtdInv
<1>7. ASSUME pc' = "nandwrite"
      PROVE  at' \in Nat /\ at' % Page = 0 /\ rest' \in Seq(FlashBytes)
  <2>1. at' = off + Len(d)
    BY <1>4, <1>7
  <2>2. at' \in Nat
    BY <1>1, <1>3, <2>1
  <2>3. at' % Page = 0
    BY <1>1, <1>3, <2>1, MoreWholePages DEF M!MtdAssumption
  <2>4. rest' \in Seq(FlashBytes)
    <3> DEFINE n == Len(M!Take)
    <3>1. n \in Nat
      BY <1>0, PaddedFits
    <3> HIDE DEF n
    <3>2. rest' = SubSeq(rest, n + 1, Len(rest)) /\ Len(rest) \in Nat
      BY <1>0, <1>4, <1>7, OfSequences DEF n
    <3>3. \A j \in (n + 1)..Len(rest) : rest[j] \in FlashBytes
      BY <1>0, <3>1, OfSequences
    <3>4. QED BY <3>1, <3>2, <3>3, SubSeqProperties
  <2>5. QED BY <2>2, <2>3, <2>4
<1>8. QED BY <1>0, <1>4, <1>6, <1>7 DEF MtdInv

LEMMA MtdNext == ASSUME M!MtdAssumption, MtdInv, [M!Next]_M!vars PROVE MtdInv'
BY MtdQuiet, MtdBegins, MtdErases, MtdCopies, MtdWrites DEF M!Next

-----------------------------------------------------------------------------
(* What a flash tool that reports success has done.                         *)

LEMMA FlashConstants ==
  ASSUME M!MtdAssumption
  PROVE  /\ Erase \in Nat \ {0} /\ Page \in Nat \ {0} /\ Chunk \in Nat \ {0} /\ Blocks \in Nat \ {0}
         /\ Erase % Page = 0 /\ M!Size \in Nat /\ M!Size = Erase * Blocks
         /\ M!Erased \in FlashBytes /\ M!Garbled \in FlashBytes
         /\ \A j \in FlashJobs : /\ j.cmd \in {"erase", "dump", "nandwrite", "flashcp"}
                                 /\ j.start \in Nat /\ j.n \in Nat /\ j.file \in Seq(FlashBytes)
                                 /\ j.flash \in [1..M!Size -> FlashBytes]
<1>1. Erase \in Nat \ {0} /\ Page \in Nat \ {0} /\ Chunk \in Nat \ {0} /\ Blocks \in Nat \ {0} /\ Erase % Page = 0
  BY DEF M!MtdAssumption
<1>2. M!Size \in Nat /\ M!Size = Erase * Blocks
  BY <1>1 DEF M!Size
<1>3. M!Erased \in FlashBytes /\ M!Garbled \in FlashBytes
  BY DEF M!MtdAssumption
<1>4. \A j \in FlashJobs : /\ j.cmd \in {"erase", "dump", "nandwrite", "flashcp"}
                           /\ j.start \in Nat /\ j.n \in Nat /\ j.file \in Seq(FlashBytes)
                           /\ j.flash \in [1..M!Size -> FlashBytes]
  BY Zenon DEF M!MtdAssumption, M!Size
<1>5. QED BY <1>1, <1>2, <1>3, <1>4

\* The bytes of the block that begins at n.
LEMMA BlockAt ==
  ASSUME NEW e \in Nat \ {0}, NEW n \in Nat, n % e = 0, NEW k \in Nat \ {0}
  PROVE  (k - 1) \div e = n \div e <=> k \in (n + 1)..(n + e)
<1> DEFINE b == n \div e
           q == (k - 1) \div e
           r == (k - 1) % e
<1>1. b \in Nat /\ n = e * b
  BY DivisionParts
<1>2. q \in Nat /\ r \in Nat /\ r < e /\ k - 1 = e * q + r
  <2>1. k - 1 \in Nat
    OBVIOUS
  <2>2. QED BY <2>1, DivisionParts
<1> HIDE DEF b, q, r
<1>3. ASSUME q = b PROVE k \in (n + 1)..(n + e)
  <2>1. k - 1 = n + r
    BY <1>1, <1>2, <1>3
  <2>2. QED BY <1>1, <1>2, <2>1
<1>4. ASSUME k \in (n + 1)..(n + e) PROVE q = b
  <2> DEFINE j == k - 1 - n
  <2>1. j \in Nat /\ j < e /\ k - 1 = n + j
    BY <1>4
  <2> HIDE DEF j
  <2>2. k - 1 = e * b + j
    BY <1>1, <2>1
  <2>3. (e * b + j) \div e = b
    BY <1>1, <2>1, DivisionUnique
  <2>4. QED BY <2>2, <2>3 DEF q
<1>5. QED BY <1>3, <1>4 DEF b, q

\* What is erased ends with a block, and what flashcp erases holds the file.
LEMMA EndOfErase ==
  ASSUME M!MtdAssumption, job \in FlashJobs
  PROVE  /\ M!EraseEnd \in Nat
         /\ job.start % Erase = 0 \/ job.cmd = "flashcp" => M!EraseEnd % Erase = 0
         /\ job.cmd = "flashcp" => Len(job.file) <= M!EraseEnd
<1>1. /\ Erase \in Nat \ {0} /\ Blocks \in Nat \ {0} /\ M!Size \in Nat /\ M!Size = Erase * Blocks
      /\ job.start \in Nat /\ job.n \in Nat /\ Len(job.file) \in Nat
  BY FlashConstants, OfSequences
<1> DEFINE n == Len(job.file)
           m == n + Erase - 1
           q == m \div Erase
           r == m % Erase
<1>2. n \in Nat /\ m \in Nat
  BY <1>1
<1>3. q \in Nat /\ r \in Nat /\ r < Erase /\ m = Erase * q + r
  BY <1>1, <1>2, DivisionParts
<1> HIDE DEF q, r
<1>4. Erase * q \in Nat /\ (Erase * q) % Erase = 0
  BY <1>1, <1>3, WholePages
<1> DEFINE p == Erase * q
<1>5. n <= p
  <2>1. p \in Nat /\ m = p + r
    BY <1>3, <1>4
  <2> HIDE DEF p
  <2>2. QED BY <1>1, <1>2, <1>3, <2>1
<1>6. M!Size % Erase = 0
  BY <1>1, WholePages
<1>7. job.start + job.n * Erase \in Nat /\ (job.start % Erase = 0 => (job.start + job.n * Erase) % Erase = 0)
  <2> DEFINE s == job.start
             c == job.n
             x == Erase * c
  <2>1. s \in Nat /\ c \in Nat /\ x \in Nat /\ c * Erase = x
    BY <1>1
  <2>2. x % Erase = 0
    BY <1>1, <2>1, WholePages
  <2> HIDE DEF s, c, x
  <2>3. s + x \in Nat /\ (s % Erase = 0 => (s + x) % Erase = 0)
    BY <1>1, <2>1, <2>2, MoreWholePages
  <2>4. QED BY <2>1, <2>3 DEF s, c
<1>8. CASE job.cmd = "flashcp"
  <2>1. M!EraseEnd = Erase * q
    BY <1>8 DEF M!EraseEnd, q
  <2>2. QED BY <1>4, <1>5, <2>1
<1>9. CASE job.cmd # "flashcp"
  <2>1. M!EraseEnd = IF job.n = 0 THEN M!Size ELSE job.start + job.n * Erase
    BY <1>9 DEF M!EraseEnd
  <2>2. QED BY <1>1, <1>6, <1>7, <1>9, <2>1
<1>10. QED BY <1>8, <1>9

\* Programming changes what was given, and keeps bytes.
LEMMA Programs ==
  ASSUME M!MtdAssumption, flash \in [1..M!Size -> FlashBytes], NEW off \in Nat, NEW d \in Seq(FlashBytes),
         flash' = M!Programmed(off, d)
  PROVE  /\ flash' \in [1..M!Size -> FlashBytes]
         /\ \A k \in 1..M!Size :
               flash'[k] = IF k \in (off + 1)..(off + Len(d)) THEN M!Program(flash[k], d[k - off]) ELSE flash[k]
<1>1. flash' = [k \in 1..M!Size |-> IF k \in (off + 1)..(off + Len(d))
                                     THEN M!Program(flash[k], d[k - off]) ELSE flash[k]]
  <2>1. DOMAIN flash = 1..M!Size
    OBVIOUS
  <2>2. QED BY <2>1, Zenon DEF M!Programmed
<1>2. ASSUME NEW a \in FlashBytes, NEW b \in FlashBytes PROVE M!Program(a, b) \in FlashBytes
  BY FlashConstants DEF M!Program
<1>3. ASSUME NEW k \in 1..M!Size, k \in (off + 1)..(off + Len(d)) PROVE M!Program(flash[k], d[k - off]) \in FlashBytes
  <2>1. k - off \in 1..Len(d)
    <3>1. Len(d) \in Nat /\ M!Size \in Nat
      BY OfSequences, FlashConstants
    <3>2. QED BY <1>3, <3>1
  <2>2. d[k - off] \in FlashBytes
    BY <2>1, OfSequences
  <2>3. flash[k] \in FlashBytes
    BY <1>3
  <2>4. QED BY <1>2, <2>2, <2>3
<1>4. \A k \in 1..M!Size : flash[k] \in FlashBytes
  OBVIOUS
<1>5. QED BY <1>1, <1>3, <1>4, Zenon

\* And whatever is written keeps bytes, and what was not to be written.
LEMMA Writes ==
  ASSUME M!MtdAssumption, flash \in [1..M!Size -> FlashBytes], NEW off \in Nat, NEW d \in Seq(FlashBytes),
         M!Write(off, d) \/ M!WriteFails(off, d)
  PROVE  /\ flash' \in [1..M!Size -> FlashBytes]
         /\ \A k \in 1..M!Size : k \notin (off + 1)..(off + Len(d)) => flash'[k] = flash[k]
<1>1. PICK w \in Seq(FlashBytes) : flash' = M!Programmed(off, w)
  <2>1. M!Garbled \in FlashBytes /\ Len(d) \in Nat
    BY FlashConstants, OfSequences
  <2>2. \A k \in DOMAIN d : [d EXCEPT ![k] = M!Garbled] \in Seq(FlashBytes)
    BY <2>1, ExceptSeq
  <2>3. ASSUME NEW n \in 0..Len(d) PROVE M!Part(d, 0, n) \in Seq(FlashBytes)
    <3>1. n \in Nat /\ \A j \in 1..n : d[j] \in FlashBytes
      BY <2>1, OfSequences
    <3>2. SubSeq(d, 1, n) \in Seq(FlashBytes)
      BY <2>1, <3>1, SubSeqProperties
    <3>3. M!Part(d, 0, n) = SubSeq(d, 1, n)
      BY <3>1 DEF M!Part
    <3>4. QED BY <3>2, <3>3
  <2>4. QED BY <2>2, <2>3, Zenon DEF M!Write, M!WriteFails
<1>2. flash' \in [1..M!Size -> FlashBytes]
  BY <1>1, Programs
<1>3. /\ DOMAIN flash' = DOMAIN flash
      /\ \A k \in DOMAIN flash : flash'[k] # flash[k] => k \in (off + 1)..(off + Len(d))
  BY WritesWithin
<1>4. QED BY <1>2, <1>3

\* A command that has failed promises nothing.
LEMMA FlashEnds ==
  ASSUME pc' = "done", exit' # "ok", flash' \in [1..M!Size -> FlashBytes]
  PROVE  FlashInv'
<1>1. M!FlashAsAsked'
  BY DEF M!FlashAsAsked
<1>2. flash' \in [1..M!Size' -> FlashBytes]
  BY DEF M!Size
<1>3. QED BY <1>1, <1>2 DEF FlashInv

\* One that goes on neither.
LEMMA FlashGoesOn ==
  ASSUME FlashInv, pc # "done", exit' = exit
  PROVE  exit # "ok" /\ M!FlashAsAsked'
<1>1. exit # "ok"
  BY DEF FlashInv
<1>2. QED BY <1>1 DEF M!FlashAsAsked

LEMMA FlashFails ==
  ASSUME FlashInv, M!Refuse \/ M!Fails \/ M!NandWriteStops
  PROVE  FlashInv'
<1>1. pc' = "done" /\ exit' \in {"usage", "ioerr"} /\ flash' = flash
  BY DEF M!Refuse, M!Fails, M!NandWriteStops, M!Ends
<1>2. flash' \in [1..M!Size -> FlashBytes]
  BY <1>1 DEF FlashInv
<1>3. QED BY <1>1, <1>2, FlashEnds

LEMMA FlashErases ==
  ASSUME M!MtdAssumption, MtdInv, FlashInv, M!EraseBlock
  PROVE  FlashInv'
<1>0. /\ Erase \in Nat \ {0} /\ M!Size \in Nat /\ M!EraseEnd \in Nat
      /\ M!Erased \in FlashBytes /\ M!Garbled \in FlashBytes /\ flash \in [1..M!Size -> FlashBytes]
  BY FlashConstants, EndOfErase DEF MtdInv, FlashInv
<1>1. /\ pc = "erase" /\ at < M!EraseEnd /\ job' = job /\ rest' = rest
      /\ job.cmd \in {"erase", "flashcp"} /\ (job.cmd = "erase" => Erasing) /\ (job.cmd = "flashcp" => Copying)
  BY DEF M!EraseBlock, M!Ends, MtdInv, FlashInv
<1>2. at \in Nat /\ at % Erase = 0 /\ M!EraseEnd % Erase = 0
  BY <1>1, EndOfErase DEF Erasing, Copying, MtdInv
<1> DEFINE mine_ == (at + 1)..(at + Erase)
<1>3. \A k \in 1..M!Size : M!Block(k - 1) = M!Block(at) <=> k \in mine_
  <2>1. \A k \in 1..M!Size : k \in Nat \ {0}
    BY <1>0
  <2>2. QED BY <1>0, <1>2, <2>1, BlockAt DEF M!Block
<1>4. at + Erase \in Nat /\ (at + Erase) % Erase = 0 /\ at + Erase <= M!EraseEnd
  <2> DEFINE a == at \div Erase
             c == M!EraseEnd \div Erase
  <2>1. a \in Nat /\ at = Erase * a /\ c \in Nat /\ M!EraseEnd = Erase * c
    BY <1>0, <1>2, DivisionParts
  <2> HIDE DEF a, c
  <2>2. a < c
    <3>1. Erase * a < Erase * c
      BY <1>1, <2>1
    <3>2. QED BY <1>0, <2>1, <3>1
  <2>3. Erase * a + Erase <= Erase * c
    BY <1>0, <2>1, <2>2, WholeBlocks
  <2>4. Erase % Erase = 0
    <3>1. Erase * 1 = Erase
      BY <1>0
    <3>2. QED BY <1>0, <3>1, WholePages
  <2>5. at + Erase \in Nat /\ (at + Erase) % Erase = 0
    <3>1. at + Erase \in Nat /\ Erase \in Nat
      BY <1>0, <1>2
    <3>2. (at + Erase) % Erase = 0
      BY <1>0, <1>2, <2>4, <3>1, MoreWholePages, Zenon
    <3>3. QED BY <3>1, <3>2
  <2>6. QED BY <2>1, <2>3, <2>5
<1>5. \/ /\ job.cmd = "erase" /\ M!IsBad(at) /\ flash' = flash
         /\ at' = at + Erase /\ pc' = pc /\ exit' = exit
      \/ /\ ~(job.cmd = "erase" /\ M!IsBad(at)) /\ flash' = M!Filled(M!Block(at), M!Erased)
         /\ at' = at + Erase /\ pc' = pc /\ exit' = exit
      \/ flash' = M!Filled(M!Block(at), M!Garbled) /\ pc' = "done" /\ exit' = "ioerr"
  BY DEF M!EraseBlock, M!Ends
<1>6. ASSUME NEW v \in FlashBytes, flash' = M!Filled(M!Block(at), v)
      PROVE  /\ flash' \in [1..M!Size -> FlashBytes]
             /\ \A k \in 1..M!Size : flash'[k] = IF k \in mine_ THEN v ELSE flash[k]
  <2>1. flash' = [k \in 1..M!Size |-> IF M!Block(k - 1) = M!Block(at) THEN v ELSE flash[k]]
    <3>1. DOMAIN flash = 1..M!Size
      BY <1>0
    <3>2. QED BY <1>6, <3>1, Zenon DEF M!Filled
  <2> HIDE DEF mine_
  <2>2. flash' = [k \in 1..M!Size |-> IF k \in mine_ THEN v ELSE flash[k]]
    BY <1>3, <2>1
  <2>3. QED BY <1>0, <2>2
<1>7. CASE flash' = M!Filled(M!Block(at), M!Garbled) /\ pc' = "done" /\ exit' = "ioerr"
  BY <1>0, <1>6, <1>7, FlashEnds
<1>8. CASE at' = at + Erase /\ pc' = pc /\ exit' = exit /\ job.cmd = "erase"
  <2>1. Erasing
    BY <1>1, <1>8
  <2>2. \A k \in 1..M!Size : k \in mine_ => (k \in Good <=> ~M!IsBad(at))
    <3>1. ASSUME NEW k \in 1..M!Size, k \in mine_ PROVE k \in Good <=> ~M!IsBad(at)
      <4>1. k > job.start
        <5>1. at >= job.start /\ job.start \in Nat
          BY <2>1, FlashConstants DEF Erasing, MtdInv
        <5>2. QED BY <1>0, <1>2, <3>1, <5>1
      <4>2. M!Block(k - 1) = M!Block(at)
        BY <1>3, <3>1
      <4>3. M!IsBad(k - 1) <=> M!IsBad(at)
        BY <4>2 DEF M!IsBad
      <4>4. QED BY <4>1, <4>3 DEF Good, M!GoodFrom
    <3>2. QED BY <3>1
  <2>3. \A k \in 1..M!Size : flash'[k] = IF k \in Good /\ k <= at + Erase THEN M!Erased ELSE job.flash[k]
    <3>1. SUFFICES ASSUME NEW k \in 1..M!Size
                   PROVE  flash'[k] = IF k \in Good /\ k <= at + Erase THEN M!Erased ELSE job.flash[k]
      OBVIOUS
    <3>2. flash[k] = IF k \in Good /\ k <= at THEN M!Erased ELSE job.flash[k]
      BY <2>1 DEF Erasing
    <3>3. k \in mine_ <=> k <= at + Erase /\ ~(k <= at)
      BY <1>0, <1>2
    <3>4. k <= at => k <= at + Erase
      BY <1>0, <1>2
    <3>5. CASE flash' = flash /\ M!IsBad(at)
      <4>1. k \in mine_ => k \notin Good
        BY <2>2, <3>5
      <4> HIDE DEF mine_
      <4>2. QED BY <3>2, <3>3, <3>4, <3>5, <4>1
    <3>6. CASE flash' = M!Filled(M!Block(at), M!Erased) /\ ~M!IsBad(at)
      <4>1. flash'[k] = IF k \in mine_ THEN M!Erased ELSE flash[k]
        BY <1>0, <1>6, <3>6
      <4>2. k \in mine_ => k \in Good
        BY <2>2, <3>6
      <4> HIDE DEF mine_
      <4>3. QED BY <3>2, <3>3, <3>4, <4>1, <4>2
    <3>7. QED BY <1>1, <1>5, <1>8, <3>5, <3>6
  <2>4. flash' \in [1..M!Size -> FlashBytes]
    BY <1>0, <1>1, <1>5, <1>6, <1>8
  <2>5. Erasing'
    <3>1. Erasing' <=> /\ at' \in Nat /\ at' % Erase = 0 /\ at' >= job.start /\ at' <= M!EraseEnd
                       /\ job.start % Erase = 0
                       /\ \A k \in 1..M!Size : flash'[k] = IF k \in Good /\ k <= at' THEN M!Erased ELSE job.flash[k]
      BY <1>1 DEF Erasing, M!EraseEnd, Good, M!GoodFrom, M!IsBad, M!Size, M!Block
    <3>2. at + Erase >= job.start /\ job.start % Erase = 0
      <4>1. at >= job.start /\ job.start \in Nat /\ job.start % Erase = 0
        BY <2>1, FlashConstants DEF Erasing, MtdInv
      <4>2. QED BY <1>0, <1>2, <4>1
    <3>3. QED BY <1>4, <1>8, <2>3, <3>1, <3>2
  <2>6. M!FlashAsAsked' /\ exit' # "ok"
    BY <1>1, <1>8, FlashGoesOn
  <2>7. QED BY <1>1, <1>8, <2>4, <2>5, <2>6 DEF FlashInv, M!Size
<1>9. CASE at' = at + Erase /\ pc' = pc /\ exit' = exit /\ job.cmd = "flashcp"
  <2>1. Copying
    BY <1>1, <1>9
  <2>2. flash' = M!Filled(M!Block(at), M!Erased)
    BY <1>1, <1>5, <1>9
  <2>3. \A k \in (M!EraseEnd + 1)..M!Size : flash'[k] = job.flash[k]
    <3>1. ASSUME NEW k \in (M!EraseEnd + 1)..M!Size PROVE flash'[k] = job.flash[k]
      <4>1. k \in 1..M!Size /\ k \notin mine_
        BY <1>0, <1>2, <1>4
      <4>2. flash'[k] = flash[k]
        BY <1>0, <1>6, <2>2, <4>1
      <4>3. QED BY <2>1, <4>2 DEF Copying
    <3>2. QED BY <3>1
  <2>4. flash' \in [1..M!Size -> FlashBytes]
    BY <1>0, <1>6, <2>2
  <2>5. Copying'
    <3>1. Len(job.file) <= M!Size /\ rest = job.file
      BY <1>1, <2>1 DEF Copying
    <3>2. pc' = "erase"
      BY <1>1, <1>9
    <3>3. QED BY <1>1, <1>4, <1>9, <2>3, <3>1, <3>2 DEF Copying, M!EraseEnd, M!Size
  <2>6. M!FlashAsAsked' /\ exit' # "ok"
    BY <1>1, <1>9, FlashGoesOn
  <2>7. QED BY <1>1, <1>9, <2>4, <2>5, <2>6 DEF FlashInv, M!Size
<1>10. QED BY <1>1, <1>5, <1>7, <1>8, <1>9

\* Whether another step of the command has begun changes nothing about its job.
LEMMA SameJob ==
  ASSUME job' = job
  PROVE  /\ Good' = Good /\ M!EraseEnd' = M!EraseEnd /\ M!DumpLength' = M!DumpLength
         /\ \A k : Skipped(k)' = Skipped(k) /\ M!Nth(k)' = M!Nth(k)
BY DEF Good, M!GoodFrom, M!IsBad, M!EraseEnd, M!DumpLength, M!Size, M!Block, Skipped, M!Nth

LEMMA FlashCopies ==
  ASSUME M!MtdAssumption, MtdInv, FlashInv, M!Copy
  PROVE  FlashInv'
<1> DEFINE n == M!Least(Chunk, Len(rest))
           d == M!Part(rest, 0, n)
<1>1. /\ pc = "copy" /\ rest # <<>> /\ job' = job /\ job.cmd = "flashcp" /\ Copying /\ job \in FlashJobs
      /\ flash \in [1..M!Size -> FlashBytes]
      /\ \/ /\ M!Write(at, d) /\ pc' = pc /\ exit' = exit /\ at' = at + Len(d)
            /\ rest' = SubSeq(rest, Len(d) + 1, Len(rest))
         \/ M!WriteFails(at, d) /\ pc' = "done" /\ exit' = "ioerr"
  BY DEF M!Copy, M!WriteFails, M!Ends, FlashInv, MtdInv
<1>2. /\ at \in Nat /\ rest \in Seq(FlashBytes) /\ Len(rest) \in Nat /\ at + Len(rest) = Len(job.file)
      /\ Len(job.file) <= M!EraseEnd /\ M!EraseEnd \in Nat /\ M!Size \in Nat /\ Chunk \in Nat
  BY <1>1, EndOfErase, FlashConstants, OfSequences DEF Copying
<1>3. n \in Nat /\ n <= Len(rest)
  BY <1>2 DEF M!Least
<1> HIDE DEF n
<1>4. d \in Seq(FlashBytes) /\ Len(d) = n
  <2>1. \A j \in 1..n : rest[j] \in FlashBytes
    BY <1>2, <1>3, OfSequences
  <2>2. d = SubSeq(rest, 1, n)
    BY <1>3 DEF M!Part
  <2>3. QED BY <1>3, <2>1, <2>2, SubSeqProperties
<1> HIDE DEF d
<1>5. /\ flash' \in [1..M!Size -> FlashBytes]
      /\ \A k \in 1..M!Size : k \notin (at + 1)..(at + n) => flash'[k] = flash[k]
  BY <1>1, <1>2, <1>4, Writes
<1>6. CASE pc' = "done" /\ exit' = "ioerr"
  BY <1>5, <1>6, FlashEnds
<1>7. CASE pc' = pc /\ exit' = exit /\ at' = at + n /\ rest' = SubSeq(rest, n + 1, Len(rest))
  <2>1. rest' \in Seq(FlashBytes) /\ Len(rest') = Len(rest) - n
    <3>1. \A j \in (n + 1)..Len(rest) : rest[j] \in FlashBytes
      BY <1>2, <1>3, OfSequences
    <3>2. /\ SubSeq(rest, n + 1, Len(rest)) \in Seq(FlashBytes)
          /\ Len(SubSeq(rest, n + 1, Len(rest))) = IF n + 1 <= Len(rest) THEN Len(rest) - (n + 1) + 1 ELSE 0
      BY <1>2, <1>3, <3>1, SubSeqProperties
    <3>3. QED BY <1>2, <1>3, <1>7, <3>2
  <2>2. at' \in Nat /\ at' + Len(rest') = Len(job.file)
    <3>1. at + n + (Len(rest) - n) = at + Len(rest) /\ at + n \in Nat
      BY <1>2, <1>3
    <3>2. QED BY <1>2, <1>7, <2>1, <3>1
  <2>3. \A k \in (M!EraseEnd + 1)..M!Size : flash'[k] = job.flash[k]
    <3>1. ASSUME NEW k \in (M!EraseEnd + 1)..M!Size PROVE flash'[k] = job.flash[k]
      <4>1. k \in 1..M!Size /\ k \notin (at + 1)..(at + n)
        BY <1>2, <1>3
      <4>2. flash'[k] = flash[k]
        BY <1>5, <4>1
      <4>3. QED BY <1>1, <4>2 DEF Copying
    <3>2. QED BY <3>1
  <2>4. Copying'
    <3>1. Copying' <=> /\ Len(job.file) <= M!Size
                       /\ \A k \in (M!EraseEnd + 1)..M!Size : flash'[k] = job.flash[k]
                       /\ at' \in Nat /\ rest' \in Seq(FlashBytes) /\ at' + Len(rest') = Len(job.file)
      BY <1>1, <1>7, SameJob DEF Copying, M!Size
    <3>2. QED BY <1>1, <2>1, <2>2, <2>3, <3>1 DEF Copying
  <2>5. M!FlashAsAsked' /\ exit' # "ok"
    BY <1>1, <1>7, FlashGoesOn
  <2>6. QED BY <1>1, <1>5, <1>7, <2>4, <2>5 DEF FlashInv, M!Size
<1>8. QED BY <1>1, <1>4, <1>6, <1>7

\* The file was read back from the flash up to where it says so.
LEMMA FlashVerifies ==
  ASSUME M!MtdAssumption, MtdInv, FlashInv, M!Verify
  PROVE  FlashInv'
<1> DEFINE L_ == Len(job.file)
           n == M!Least(Chunk, L_ - at)
<1>1. /\ pc = "verify" /\ job' = job /\ flash' = flash /\ job.cmd = "flashcp" /\ Copying /\ job \in FlashJobs
      /\ flash \in [1..M!Size -> FlashBytes]
  BY DEF M!Verify, M!Ends, FlashInv, MtdInv
<1>2. /\ at \in Nat /\ at <= L_ /\ L_ \in Nat /\ L_ <= M!Size /\ M!Size \in Nat /\ Chunk \in Nat
      /\ job.file \in Seq(FlashBytes) /\ \A k \in 1..at : flash[k] = job.file[k]
  BY <1>1, FlashConstants, OfSequences DEF Copying
<1>3. flash' \in [1..M!Size -> FlashBytes]
  BY <1>1
<1>4. \A k \in 1..M!Size : flash[k] \in FlashBytes
  BY <1>1
<1>5. CASE at >= L_
  <2>1. pc' = "done" /\ exit' = "ok"
    <3>1. ~(at < L_)
      BY <1>2, <1>5
    <3>2. QED BY <1>5, <3>1 DEF M!Verify, M!Ends
  <2>2. SubSeq(flash, 1, L_) = job.file
    <3> DEFINE w == SubSeq(flash, 1, L_)
    <3>1. w \in Seq(FlashBytes) /\ Len(w) = L_ /\ \A k \in 1..L_ : w[k] = flash[k]
      <4>1. \A k \in 1..L_ : flash[k] \in FlashBytes
        BY <1>2, <1>4
      <4>2. w \in Seq(FlashBytes) /\ Len(w) = (IF 1 <= L_ THEN L_ - 1 + 1 ELSE 0) /\ \A k \in 1..(L_ - 1 + 1) : w[k] = flash[1 + k - 1]
        BY <1>2, <4>1, SubSeqProperties
      <4> HIDE DEF w
      <4>3. QED BY <1>2, <4>2
    <3>2. \A k \in 1..L_ : flash[k] = job.file[k]
      BY <1>2, <1>5
    <3> HIDE DEF w
    <3>3. w = job.file
      BY <1>2, <3>1, <3>2, SeqEqual
    <3>4. QED BY <3>3 DEF w
  <2>3. \A k \in (M!EraseEnd + 1)..M!Size : flash[k] = job.flash[k]
    BY <1>1 DEF Copying
  <2>4. M!FlashAsAsked'
    <3>1. M!FlashAsAsked' <=> /\ SubSeq(flash, 1, L_) = job.file
                              /\ \A k \in (M!EraseEnd + 1)..M!Size : flash[k] = job.flash[k]
      BY <1>1, <2>1, SameJob DEF M!FlashAsAsked, M!Size
    <3>2. QED BY <2>2, <2>3, <3>1
  <2>5. QED BY <1>1, <2>1, <2>4 DEF FlashInv, M!Size
<1>6. CASE ~(at >= L_) /\ pc' = "done" /\ exit' = "differs"
  BY <1>3, <1>6, FlashEnds
<1>7. CASE /\ ~(at >= L_) /\ pc' = pc /\ exit' = exit /\ at' = at + n
           /\ M!Part(flash, at, n) = M!Part(job.file, at, n)
  <2>1. n \in Nat /\ at + n <= L_
    BY <1>2, <1>7 DEF M!Least
  <2> HIDE DEF n
  <2>2. \A k \in 1..(at + n) : flash[k] = job.file[k]
    <3>1. ASSUME NEW k \in (at + 1)..(at + n) PROVE flash[k] = job.file[k]
      <4> DEFINE j == k - at
      <4>1. j \in 1..n /\ k = at + 1 + j - 1 /\ (at + n) - (at + 1) + 1 = n /\ at + 1 \in Int /\ at + n \in Int
        BY <1>2, <2>1
      <4>2. \A x \in (at + 1)..(at + n) : flash[x] \in FlashBytes /\ job.file[x] \in FlashBytes
        <5>1. \A x \in (at + 1)..(at + n) : x \in 1..M!Size /\ x \in 1..L_
          BY <1>2, <2>1
        <5>2. QED BY <1>2, <1>4, <5>1, OfSequences
      <4> HIDE DEF j
      <4>3. SubSeq(flash, at + 1, at + n)[j] = flash[k]
        BY <4>1, <4>2, SubSeqProperties
      <4>4. SubSeq(job.file, at + 1, at + n)[j] = job.file[k]
        BY <4>1, <4>2, SubSeqProperties
      <4>5. QED BY <1>7, <4>3, <4>4 DEF M!Part
    <3>2. QED BY <1>2, <2>1, <3>1
  <2>3. Copying'
    <3>1. Copying' <=> /\ Len(job.file) <= M!Size
                       /\ \A k \in (M!EraseEnd + 1)..M!Size : flash[k] = job.flash[k]
                       /\ at + n \in Nat /\ at + n <= Len(job.file)
                       /\ \A k \in 1..(at + n) : flash[k] = job.file[k]
      BY <1>1, <1>7, SameJob DEF Copying, M!Size
    <3>2. QED BY <1>1, <1>2, <2>1, <2>2, <3>1 DEF Copying
  <2>4. M!FlashAsAsked' /\ exit' # "ok"
    BY <1>1, <1>7, FlashGoesOn
  <2>5. QED BY <1>1, <1>7, <2>3, <2>4 DEF FlashInv, M!Size
<1>8. QED
  <2>1. \/ at >= L_
        \/ ~(at >= L_) /\ pc' = "done" /\ exit' = "differs"
        \/ /\ ~(at >= L_) /\ pc' = pc /\ exit' = exit /\ at' = at + n
           /\ M!Part(flash, at, n) = M!Part(job.file, at, n)
    <3>1. at < L_ <=> ~(at >= L_)
      BY <1>2
    <3>2. QED BY <3>1 DEF M!Verify, M!Ends
  <2>2. QED BY <1>5, <1>6, <1>7, <2>1

\* In a block that is gone through from its beginning on, or from the start on,
\* the next byte is skipped as the one before it was.
LEMMA SkippedTogether ==
  ASSUME M!MtdAssumption, NEW a \in Nat, NEW n \in Nat, n <= Erase - (a % Erase), NEW k \in a..(a + n), k < a + n \/ k % Erase # 0
  PROVE  M!Block(k) = M!Block(a) /\ (Skipped(k) <=> Skipped(a))
<1> DEFINE b == a \div Erase
           o == a % Erase
<1>1. Erase \in Nat \ {0}
  BY FlashConstants
<1>2. b \in Nat /\ o \in Nat /\ o < Erase /\ a = Erase * b + o
  BY <1>1, DivisionParts
<1> HIDE DEF b
<1>3. n <= Erase - o
  OBVIOUS
<1> HIDE DEF o
<1> DEFINE j == k - a
<1>4. j \in Nat /\ j <= n /\ k = a + j /\ (k < a + n => j < n)
  OBVIOUS
<1> HIDE DEF j
<1>5. o + j \in Nat /\ k = Erase * b + (o + j)
  <2> DEFINE p == Erase * b
  <2>1. p \in Int /\ a = p + o
    BY <1>1, <1>2
  <2> HIDE DEF p
  <2>2. k = p + (o + j)
    BY <1>2, <1>4, <2>1
  <2>3. QED BY <1>2, <1>4, <2>2 DEF p
<1>6. o + j < Erase
  <2>1. CASE j < n
    BY <1>1, <1>2, <1>3, <1>4, <2>1
  <2>2. CASE ~(j < n)
    <3>1. j = n /\ k % Erase # 0
      BY <1>4, <2>2
    <3>2. o + j # Erase
      <4>1. SUFFICES ASSUME o + j = Erase PROVE FALSE
        OBVIOUS
      <4>2. k = Erase * (b + 1)
        BY <1>1, <1>2, <1>5, <4>1
      <4>3. QED BY <1>1, <1>2, <3>1, <4>2, WholePages
    <3>3. QED BY <1>1, <1>2, <1>3, <1>4, <3>1, <3>2
  <2>3. QED BY <2>1, <2>2
<1>7. (Erase * b + (o + j)) \div Erase = b
  BY <1>1, <1>2, <1>5, <1>6, DivisionUnique
<1>8. M!Block(k) = M!Block(a)
  BY <1>5, <1>7 DEF M!Block, b
<1>9. QED BY <1>8 DEF Skipped, M!IsBad

\* Whether it is, nanddump knows.
LEMMA DumpKnows ==
  ASSUME M!MtdAssumption, MtdInv, Dumping
  PROVE  (IF at % Erase = 0 THEN M!IsBad(at) ELSE bad) = Skipped(at)
<1>1. CASE at % Erase # 0
  BY <1>1 DEF Dumping
<1>2. CASE at % Erase = 0
  <2>1. Erase \in Nat \ {0} /\ job.start \in Nat /\ Len(out) \in Nat /\ at = job.start + Len(out)
    BY FlashConstants, OfSequences DEF Dumping, MtdInv
  <2>2. job.start % Erase = 0 \/ M!Block(at) # M!Block(job.start)
    <3>1. SUFFICES ASSUME job.start % Erase # 0, M!Block(at) = M!Block(job.start) PROVE FALSE
      OBVIOUS
    <3> DEFINE s == job.start
               b == at \div Erase
               o == s % Erase
    <3>2. s \in Nat /\ at \in Nat /\ at >= s
      BY <2>1
    <3>3. b \in Nat /\ at = Erase * b
      <4>1. b \in Nat /\ at = Erase * b + (at % Erase)
        BY <2>1, <3>2, DivisionParts
      <4> HIDE DEF b
      <4>2. at = Erase * b + 0
        BY <1>2, <4>1
      <4>3. QED BY <2>1, <4>1, <4>2
    <3>4. s = Erase * (s \div Erase) + o /\ o \in Nat
      BY <2>1, <3>2, DivisionParts
    <3>5. s \div Erase = b
      BY <3>1 DEF M!Block
    <3>6. o # 0
      BY <3>1
    <3> HIDE DEF b, o, s
    <3>7. s = at + o
      BY <3>3, <3>4, <3>5
    <3>8. QED BY <3>2, <3>4, <3>6, <3>7
  <2>3. QED BY <1>2, <2>2 DEF Skipped, M!IsBad
<1>3. QED BY <1>1, <1>2

LEMMA FlashDumps ==
  ASSUME M!MtdAssumption, MtdInv, FlashInv, M!Dump
  PROVE  FlashInv'
<1> DEFINE here == Erase - (at % Erase)
           n == M!Least(M!Least(here, Chunk), M!DumpLength - Len(out))
           d == IF bad' THEN [k \in 1..n |-> M!Erased] ELSE M!Part(flash, at, n)
<1>1. /\ pc = "dump" /\ pc' = pc /\ exit' = exit /\ job' = job /\ flash' = flash /\ Len(out) < M!DumpLength
      /\ bad' = (IF at % Erase = 0 THEN M!IsBad(at) ELSE bad)
      /\ out' = out \o d /\ at' = at + n
  BY DEF M!Dump
<1>2. /\ job.cmd = "dump" /\ Dumping /\ flash \in [1..M!Size -> FlashBytes]
      /\ job.start + M!DumpLength <= M!Size /\ out \in Seq(FlashBytes) /\ at = job.start + Len(out)
  BY <1>1 DEF FlashInv, Dumping
<1>3. /\ Erase \in Nat \ {0} /\ Chunk \in Nat \ {0} /\ M!Size \in Nat /\ job.start \in Nat /\ Len(out) \in Nat
      /\ at \in Nat /\ M!DumpLength \in Int /\ M!Erased \in FlashBytes
  <2>1. /\ Erase \in Nat \ {0} /\ Chunk \in Nat \ {0} /\ M!Size \in Nat /\ M!Erased \in FlashBytes
        /\ job.start \in Nat /\ job.n \in Nat /\ Len(out) \in Nat
    BY <1>2, FlashConstants, OfSequences DEF MtdInv
  <2>2. M!DumpLength \in Int
    BY <2>1 DEF M!DumpLength
  <2>3. QED BY <1>2, <2>1, <2>2
<1>4. here \in Nat
  BY <1>3, DivisionParts
<1>5. n \in Nat /\ n <= here /\ Len(out) + n <= M!DumpLength
  <2> HIDE DEF here
  <2>1. QED BY <1>1, <1>3, <1>4 DEF M!Least
<1>6. at + n <= M!Size
  <2> HIDE DEF n, here
  <2>1. QED BY <1>2, <1>3, <1>5
<1>7. bad' = Skipped(at)
  BY <1>1, <1>2, DumpKnows
<1>8. \A k \in 1..M!Size : flash[k] \in FlashBytes
  BY <1>2
<1> HIDE DEF n
<1>9. /\ d \in Seq(FlashBytes) /\ Len(d) = n
      /\ \A j \in 1..n : d[j] = IF Skipped(at) THEN M!Erased ELSE flash[at + j]
  <2>1. CASE Skipped(at)
    <3>1. d = [k \in 1..n |-> M!Erased]
      BY <1>7, <2>1
    <3>2. [k \in 1..n |-> M!Erased] \in [1..n -> FlashBytes]
      BY <1>3
    <3> DEFINE f == [k \in 1..n |-> M!Erased]
    <3>3. f \in Seq(FlashBytes) /\ Len(f) = n
      BY <1>5, <3>2
    <3>4. \A j \in 1..n : f[j] = M!Erased
      OBVIOUS
    <3> HIDE DEF f, d
    <3>5. d = f
      BY <3>1 DEF f
    <3>6. QED BY <2>1, <3>3, <3>4, <3>5
  <2>2. CASE ~Skipped(at)
    <3>1. d = SubSeq(flash, at + 1, at + n)
      BY <1>7, <2>2 DEF M!Part
    <3>2. at + 1 \in Int /\ at + n \in Int /\ \A x \in (at + 1)..(at + n) : flash[x] \in FlashBytes
      BY <1>3, <1>5, <1>6, <1>8
    <3> DEFINE f == SubSeq(flash, at + 1, at + n)
    <3>3. /\ f \in Seq(FlashBytes) /\ Len(f) = IF at + 1 <= at + n THEN (at + n) - (at + 1) + 1 ELSE 0
          /\ \A j \in 1..((at + n) - (at + 1) + 1) : f[j] = flash[at + 1 + j - 1]
      BY <3>2, SubSeqProperties
    <3> HIDE DEF f, d
    <3>4. Len(f) = n
      BY <1>3, <1>5, <3>3
    <3>5. \A j \in 1..n : f[j] = flash[at + j]
      BY <1>3, <1>5, <3>3
    <3>6. d = f
      BY <3>1 DEF f
    <3>7. QED BY <2>2, <3>3, <3>4, <3>5, <3>6
  <2>3. QED BY <2>1, <2>2
<1> HIDE DEF d
<1>10. /\ out' \in Seq(FlashBytes) /\ Len(out') = Len(out) + n
       /\ \A k \in 1..(Len(out) + n) : out'[k] = IF k <= Len(out) THEN out[k] ELSE d[k - Len(out)]
  BY <1>1, <1>2, <1>9, ConcatProperties
<1>11. \A k \in 1..(Len(out) + n) :
          out'[k] = IF Skipped(job.start + k - 1) THEN M!Erased ELSE flash[job.start + k]
  <2>1. SUFFICES ASSUME NEW k \in 1..(Len(out) + n)
                 PROVE  out'[k] = IF Skipped(job.start + k - 1) THEN M!Erased ELSE flash[job.start + k]
    OBVIOUS
  <2>2. CASE k <= Len(out)
    <3>1. k \in 1..Len(out)
      BY <1>3, <1>5, <2>2
    <3>2. out'[k] = out[k]
      BY <1>10, <2>2
    <3>3. QED BY <1>2, <3>1, <3>2 DEF Dumping
  <2>3. CASE ~(k <= Len(out))
    <3> DEFINE j == k - Len(out)
               x == job.start + k - 1
    <3>1. /\ j \in 1..n /\ job.start + k = at + j /\ x \in at..(at + n) /\ x < at + n
      <4>1. at = job.start + Len(out)
        BY <1>2
      <4>2. j \in 1..n
        BY <1>3, <1>5, <2>3
      <4>3. job.start + k = at + j
        BY <1>3, <4>1
      <4>4. x = at + j - 1
        BY <1>3, <4>1
      <4> HIDE DEF j, x
      <4>5. QED BY <1>3, <1>5, <4>2, <4>3, <4>4
    <3>2. out'[k] = d[j]
      BY <1>10, <2>3
    <3> HIDE DEF j, x
    <3>3. Skipped(x) <=> Skipped(at)
      BY <1>3, <1>5, <3>1, SkippedTogether
    <3>4. d[j] = IF Skipped(at) THEN M!Erased ELSE flash[at + j]
      BY <1>9, <3>1
    <3>5. QED BY <3>1, <3>2, <3>3, <3>4 DEF x
  <2>4. QED BY <2>2, <2>3
<1>12. (at + n) % Erase # 0 => bad' = Skipped(at + n)
  <2>1. SUFFICES ASSUME (at + n) % Erase # 0 PROVE bad' = Skipped(at + n)
    OBVIOUS
  <2> DEFINE x == at + n
  <2>2. x \in at..(at + n)
    BY <1>3, <1>5
  <2> HIDE DEF x
  <2>3. Skipped(x) <=> Skipped(at)
    <3>1. x % Erase # 0
      BY <2>1 DEF x
    <3>2. QED BY <1>3, <1>5, <2>2, <3>1, SkippedTogether
  <2>4. QED BY <1>7, <2>3 DEF x, Skipped
<1>13. Dumping'
  <2>1. Dumping' <=> /\ job.start + M!DumpLength <= M!Size
                     /\ flash = job.flash /\ out' \in Seq(FlashBytes)
                     /\ Len(out') <= M!DumpLength /\ at' = job.start + Len(out')
                     /\ at' % Erase # 0 => bad' = Skipped(at')
                     /\ \A k \in 1..Len(out') :
                           out'[k] = IF Skipped(job.start + k - 1) THEN M!Erased ELSE flash[job.start + k]
    BY <1>1 DEF Dumping, M!DumpLength, M!Size, Skipped, M!IsBad, M!Block
  <2>2. at + n = job.start + (Len(out) + n)
    BY <1>2, <1>3, <1>5
  <2>3. QED BY <1>1, <1>2, <1>5, <1>10, <1>11, <1>12, <2>1, <2>2 DEF Dumping
<1>14. M!FlashAsAsked' /\ exit' # "ok"
  BY <1>1, FlashGoesOn
<1>15. QED BY <1>1, <1>2, <1>13, <1>14 DEF FlashInv, M!Size

-----------------------------------------------------------------------------
(* How many good bytes there are up to a place.                             *)

LEMMA GoodBytes ==
  ASSUME M!MtdAssumption
  PROVE  Good \subseteq 1..M!Size /\ \A x \in Good : x \in Int
<1>1. Good \subseteq 1..M!Size
  BY DEF Good, M!GoodFrom
<1>2. \A x \in 1..M!Size : x \in Int
  BY FlashConstants
<1>3. QED BY <1>1, <1>2

\* Mtd counts with the same Cardinality.
LEMMA NthIs ==
  ASSUME M!MtdAssumption, NEW k
  PROVE  /\ M!Nth(k) = Cardinality({x \in Good : x <= k})
         /\ IsFiniteSet({x \in Good : x <= k}) /\ M!Nth(k) \in Nat
<1> DEFINE upto == {x \in Good : x <= k}
<1>1. upto \subseteq 1..M!Size
  BY GoodBytes
<1>2. IsFiniteSet(1..M!Size)
  BY FlashConstants, FS_Interval
<1>3. IsFiniteSet(upto) /\ Cardinality(upto) \in Nat
  BY <1>1, <1>2, FS_Subset, FS_CardinalityType
<1>4. M!Nth(k) = M!Cardinality(upto)
  BY DEF M!Nth, Good
<1>5. M!Cardinality(upto) = Cardinality(upto)
  BY DEF M!Cardinality, Cardinality
<1>6. QED BY <1>1, <1>3, <1>4, <1>5

LEMMA NthOfNone ==
  ASSUME M!MtdAssumption, NEW k, \A x \in Good : ~(x <= k)
  PROVE  M!Nth(k) = 0
<1>1. {x \in Good : x <= k} = {}
  OBVIOUS
<1>2. QED BY <1>1, NthIs, FS_EmptySet

\* Where no good byte lies between, it is the same.
LEMMA NthOverGap ==
  ASSUME M!MtdAssumption, NEW a \in Int, NEW b \in Int, a <= b, \A x \in Good : x <= b => x <= a
  PROVE  M!Nth(b) = M!Nth(a)
<1>1. \A x \in Good : x <= a => x <= b
  BY GoodBytes
<1>2. {x \in Good : x <= b} = {x \in Good : x <= a}
  BY <1>1
<1>3. QED BY <1>2, NthIs

LEMMA NthGrows ==
  ASSUME M!MtdAssumption, NEW a \in Int, NEW b \in Int, a <= b
  PROVE  M!Nth(a) <= M!Nth(b) /\ (b \in Good /\ a < b => M!Nth(a) < M!Nth(b))
<1> DEFINE A_ == {x \in Good : x <= a}
           B_ == {x \in Good : x <= b}
<1>1. /\ M!Nth(a) = Cardinality(A_) /\ IsFiniteSet(A_) /\ M!Nth(a) \in Nat
      /\ M!Nth(b) = Cardinality(B_) /\ IsFiniteSet(B_) /\ M!Nth(b) \in Nat
  BY NthIs
<1>2. A_ \subseteq B_
  <2>1. \A x \in Good : x <= a => x <= b
    BY GoodBytes
  <2>2. QED BY <2>1
<1>3. b \in Good /\ a < b => b \in B_ /\ b \notin A_
  OBVIOUS
<1> HIDE DEF A_, B_
<1>4. Cardinality(A_) <= Cardinality(B_) /\ (Cardinality(B_) = Cardinality(A_) => B_ = A_)
  BY <1>1, <1>2, FS_Subset
<1>5. b \in Good /\ a < b => Cardinality(A_) # Cardinality(B_)
  BY <1>3, <1>4
<1>6. QED BY <1>1, <1>4, <1>5

\* Where there are only good bytes, each is one more.
LEMMA NthOfRun ==
  ASSUME M!MtdAssumption, NEW a \in Nat, NEW n \in Nat, (a + 1)..(a + n) \subseteq Good
  PROVE  M!Nth(a + n) = M!Nth(a) + n
<1> DEFINE A_ == {x \in Good : x <= a}
           R_ == (a + 1)..(a + n)
           b == a + n
           B_ == {x \in Good : x <= b}
<1>1. /\ M!Nth(a) = Cardinality(A_) /\ IsFiniteSet(A_) /\ M!Nth(a) \in Nat
      /\ M!Nth(b) = Cardinality(B_) /\ IsFiniteSet(B_) /\ M!Nth(b) \in Nat
  BY NthIs
<1>2. b \in Int /\ a + 1 \in Int /\ (\A x \in Int : x <= b <=> x <= a \/ x \in R_)
  OBVIOUS
<1>3. \A x \in R_ : ~(x <= a)
  OBVIOUS
<1>4. Cardinality(R_) = n /\ IsFiniteSet(R_)
  <2>1. Cardinality(R_) = (IF a + 1 > b THEN 0 ELSE b - (a + 1) + 1) /\ IsFiniteSet(R_)
    BY <1>2, FS_Interval
  <2>2. (IF a + 1 > b THEN 0 ELSE b - (a + 1) + 1) = n
    OBVIOUS
  <2> HIDE DEF R_, b
  <2>3. QED BY <2>1, <2>2
<1>5. R_ \subseteq Good
  OBVIOUS
<1> HIDE DEF R_, b
<1>6. B_ = A_ \cup R_
  BY <1>2, <1>5, GoodBytes
<1>7. A_ \cap R_ = {}
  BY <1>3
<1> HIDE DEF A_, B_
<1>8. Cardinality(A_ \cup R_) = Cardinality(A_) + Cardinality(R_) - Cardinality(A_ \cap R_)
  BY <1>1, <1>4, FS_Union
<1>9. Cardinality(A_ \cap R_) = 0
  BY <1>7, FS_EmptySet
<1>10. M!Nth(b) = M!Nth(a) + n
  BY <1>1, <1>4, <1>6, <1>8, <1>9
<1>11. QED BY <1>10 DEF b

-----------------------------------------------------------------------------
(* The rest of their steps.                                                 *)

\* What nandwrite has done, told of the next state.
LEMMA WritingThen ==
  ASSUME job' = job
  PROVE  Writing' <=>
    /\ at' \in Nat /\ at' % Page = 0 /\ at' >= job.start /\ Chunk % Page = 0
    /\ rest' \in Seq(FlashBytes) /\ Len(rest') <= Len(job.file)
    /\ \A j \in 1..Len(rest') : (rest')[j] = job.file[(Len(job.file) - Len(rest')) + j]
    /\ rest' # <<>> => M!Nth(at') = (Len(job.file) - Len(rest'))
    /\ (Len(job.file) - Len(rest')) <= M!Nth(M!Size)
    /\ ~job.flaky => \A k \in 1..M!Size :
          IF k \in Good /\ M!Nth(k) <= (Len(job.file) - Len(rest'))
          THEN job.flash[k] = M!Erased => flash'[k] = job.file[M!Nth(k)]
          ELSE flash'[k] = job.flash[k]
BY DEF Writing, Written, Good, M!GoodFrom, M!Nth, M!IsBad, M!Block, M!Size

LEMMA FlashBegins ==
  ASSUME M!MtdAssumption, MtdInv, FlashInv, M!Begin
  PROVE  FlashInv'
<1>1. /\ pc = "start" /\ at' = (IF job.cmd = "flashcp" THEN 0 ELSE job.start) /\ rest' = job.file
      /\ pc' = (IF job.cmd = "flashcp" THEN "erase" ELSE job.cmd)
      /\ job' = job /\ flash' = flash /\ out' = out /\ bad' = bad /\ exit' = exit /\ ~M!Refused
  BY DEF M!Begin
<1>2. /\ flash = job.flash /\ out = <<>> /\ bad = FALSE /\ flash \in [1..M!Size -> FlashBytes]
  BY <1>1 DEF FlashInv
<1>3. /\ Erase \in Nat \ {0} /\ Blocks \in Nat \ {0} /\ M!Size \in Nat /\ M!Size = Erase * Blocks
      /\ job \in FlashJobs /\ job.cmd \in {"erase", "dump", "nandwrite", "flashcp"}
      /\ job.start \in Nat /\ job.n \in Nat /\ job.file \in Seq(FlashBytes) /\ Len(job.file) \in Nat
  BY FlashConstants, OfSequences DEF MtdInv
<1>4. M!FlashAsAsked' /\ exit' # "ok"
  BY <1>1, FlashGoesOn
<1>5. CASE job.cmd = "erase"
  <2>1. /\ job.start % Erase = 0 /\ job.start < M!Size /\ job.n <= (M!Size - job.start) \div Erase
    <3>1. ~M!NotToErase
      BY <1>1, <1>5 DEF M!Refused
    <3> DEFINE room == (M!Size - job.start) \div Erase
    <3>2. job.start % Erase = 0 /\ ~(job.start >= M!Size) /\ ~(job.n > room)
      BY <3>1 DEF M!NotToErase
    <3>3. ~(job.start >= M!Size) => M!Size - job.start \in Nat
      BY <1>3
    <3>4. room \in Nat
      BY <1>3, <3>2, <3>3, DivisionParts
    <3> HIDE DEF room
    <3>5. job.n <= room
      BY <1>3, <3>2, <3>4
    <3>6. QED BY <1>3, <3>2, <3>5 DEF room
  <2>2. M!EraseEnd = IF job.n = 0 THEN M!Size ELSE job.start + job.n * Erase
    BY <1>5 DEF M!EraseEnd
  <2>3. job.start <= M!EraseEnd
    <3>1. job.n * Erase \in Nat
      BY <1>3
    <3> DEFINE x == job.n * Erase
    <3> HIDE DEF x
    <3>2. job.start <= job.start + x
      BY <1>3, <3>1 DEF x
    <3>3. QED BY <1>3, <2>1, <2>2, <3>2 DEF x
  <2>4. \A k \in Good : ~(k <= job.start)
    <3>1. \A k \in Good : k > job.start /\ k \in Int
      BY GoodBytes DEF Good, M!GoodFrom
    <3>2. QED BY <1>3, <3>1
  <2>5. Erasing'
    <3>1. Erasing' <=> /\ at' \in Nat /\ at' % Erase = 0 /\ at' >= job.start /\ at' <= M!EraseEnd
                       /\ job.start % Erase = 0
                       /\ \A k \in 1..M!Size : flash'[k] = IF k \in Good /\ k <= at' THEN M!Erased ELSE job.flash[k]
      BY <1>1 DEF Erasing, M!EraseEnd, Good, M!GoodFrom, M!IsBad, M!Size, M!Block
    <3>2. at' = job.start
      BY <1>1, <1>5
    <3>3. QED BY <1>1, <1>2, <1>3, <2>1, <2>3, <2>4, <3>1, <3>2
  <2>6. QED BY <1>1, <1>2, <1>4, <1>5, <2>5 DEF FlashInv, M!Size
<1>6. CASE job.cmd = "flashcp"
  <2>1. Len(job.file) <= M!Size
    <3>1. ~(Len(job.file) > M!Size)
      BY <1>1, <1>6 DEF M!Refused, M!NotToCopy
    <3>2. QED BY <1>3, <3>1
  <2>2. pc' = "erase" /\ at' = 0
    BY <1>1, <1>6
  <2>3. Copying'
    <3>1. 0 % Erase = 0
      BY <1>3
    <3>2. QED BY <1>1, <1>2, <2>1, <2>2, <3>1 DEF Copying, M!Size, M!EraseEnd
  <2>4. QED BY <1>1, <1>2, <1>4, <1>6, <2>2, <2>3 DEF FlashInv, M!Size
<1>7. CASE job.cmd = "dump"
  <2>1. job.start + M!DumpLength <= M!Size /\ 0 <= M!DumpLength
    <3>1. ~(job.start >= M!Size) /\ ~(job.start + job.n > M!Size)
      BY <1>1, <1>7 DEF M!Refused, M!NotToDump
    <3>2. QED BY <1>3, <3>1 DEF M!DumpLength
  <2>2. at' = job.start /\ pc' = "dump"
    BY <1>1, <1>7
  <2>3. job.start % Erase # 0 => Skipped(job.start) = FALSE
    BY DEF Skipped
  <2>4. Dumping'
    <3>1. Dumping' <=> /\ job.start + M!DumpLength <= M!Size
                       /\ flash = job.flash /\ <<>> \in Seq(FlashBytes)
                       /\ Len(<<>>) <= M!DumpLength /\ at' = job.start + Len(<<>>)
                       /\ at' % Erase # 0 => FALSE = Skipped(at')
                       /\ \A k \in 1..Len(<<>>) :
                             out'[k] = IF Skipped(job.start + k - 1) THEN M!Erased ELSE flash[job.start + k]
      BY <1>1, <1>2 DEF Dumping, M!DumpLength, M!Size, Skipped, M!IsBad, M!Block
    <3>2. Len(<<>>) = 0 /\ <<>> \in Seq(FlashBytes) /\ job.start + 0 = job.start /\ 1..0 = {}
      BY <1>3, EmptySeq
    <3>3. QED BY <1>2, <2>1, <2>2, <2>3, <3>1, <3>2
  <2>5. QED BY <1>1, <1>2, <1>4, <1>7, <2>2, <2>4 DEF FlashInv, M!Size
<1>8. CASE job.cmd = "nandwrite"
  <2>1. Chunk % Page = 0 /\ job.start % Page = 0
    BY <1>1, <1>8 DEF M!Refused, M!NotToWrite
  <2>2. at' = job.start /\ rest' = job.file /\ pc' = "nandwrite"
    BY <1>1, <1>8
  <2>3. \A k \in Good : k > job.start /\ k \in Int
    BY GoodBytes DEF Good, M!GoodFrom
  <2>4. M!Nth(job.start) = 0
    <3>1. \A k \in Good : ~(k <= job.start)
      BY <1>3, <2>3
    <3>2. QED BY <3>1, NthOfNone
  <2>5. \A k \in Good : ~(M!Nth(k) <= 0)
    <3>1. ASSUME NEW k \in Good PROVE ~(M!Nth(k) <= 0)
      <4>1. M!Nth(job.start) < M!Nth(k)
        BY <1>3, <2>3, NthGrows
      <4>2. M!Nth(k) \in Nat
        BY NthIs
      <4>3. QED BY <2>4, <4>1, <4>2
    <3>2. QED BY <3>1
  <2>6. 0 <= M!Nth(M!Size)
    <3>1. M!Nth(M!Size) \in Nat
      BY NthIs
    <3>2. QED BY <3>1
  <2>7. Writing'
    <3>1. Len(job.file) - Len(rest') = 0
      BY <1>3, <2>2
    <3>2. \A j \in 1..Len(rest') : (rest')[j] = job.file[0 + j]
      BY <2>2
    <3>3. QED BY <1>1, <1>2, <1>3, <2>1, <2>2, <2>4, <2>5, <2>6, <3>1, <3>2, WritingThen
  <2>8. QED BY <1>1, <1>2, <1>4, <1>8, <2>2, <2>7 DEF FlashInv, M!Size
<1>9. QED BY <1>3, <1>5, <1>6, <1>7, <1>8

LEMMA FlashErased ==
  ASSUME M!MtdAssumption, MtdInv, FlashInv, M!EraseDone
  PROVE  FlashInv'
<1>1. /\ pc = "erase" /\ at >= M!EraseEnd /\ flash' = flash /\ job' = job
      /\ IF job.cmd = "erase" THEN pc' = "done" /\ exit' = "ok" /\ rest' = rest
         ELSE pc' = "copy" /\ at' = 0 /\ rest' = rest /\ exit' = exit
  BY DEF M!EraseDone, M!Ends
<1>2. /\ flash \in [1..M!Size -> FlashBytes] /\ M!EraseEnd \in Nat /\ job.cmd \in {"erase", "flashcp"}
      /\ M!Size \in Nat
  BY <1>1, EndOfErase, FlashConstants DEF FlashInv, MtdInv
<1>3. CASE job.cmd = "erase"
  <2>1. Erasing /\ at = M!EraseEnd
    <3>1. Erasing /\ at \in Nat /\ at <= M!EraseEnd
      BY <1>1, <1>3 DEF FlashInv, Erasing
    <3>2. QED BY <1>1, <1>2, <3>1
  <2>2. \A k \in 1..M!Size : flash[k] = IF k \in Good /\ k <= M!EraseEnd THEN M!Erased ELSE job.flash[k]
    BY <2>1 DEF Erasing
  <2>3. M!FlashAsAsked'
    <3>1. M!FlashAsAsked' <=> /\ \A k \in {x \in Good : x <= M!EraseEnd} : flash[k] = M!Erased
                              /\ \A k \in DOMAIN flash \ {x \in Good : x <= M!EraseEnd} : flash[k] = job.flash[k]
      BY <1>1, <1>3 DEF M!FlashAsAsked, M!EraseEnd, Good, M!GoodFrom, M!IsBad, M!Size, M!Block
    <3>2. DOMAIN flash = 1..M!Size
      BY <1>2
    <3>3. QED BY <2>2, <3>1, <3>2, GoodBytes
  <2>4. QED BY <1>1, <1>2, <1>3, <2>3 DEF FlashInv, M!Size
<1>4. CASE job.cmd = "flashcp"
  <2>1. Copying /\ rest = job.file
    BY <1>1, <1>4 DEF FlashInv, Copying
  <2>2. pc' = "copy" /\ at' = 0 /\ rest' = rest /\ exit' = exit
    BY <1>1, <1>4
  <2>3. job.file \in Seq(FlashBytes) /\ Len(job.file) \in Nat
    BY FlashConstants, OfSequences DEF MtdInv
  <2>4. Copying'
    <3>1. 0 + Len(job.file) = Len(job.file)
      BY <2>3
    <3>2. QED BY <1>1, <2>1, <2>2, <2>3, <3>1 DEF Copying, M!Size, M!EraseEnd
  <2>5. M!FlashAsAsked' /\ exit' # "ok"
    BY <1>1, <2>2, FlashGoesOn
  <2>6. QED BY <1>1, <1>2, <1>4, <2>2, <2>4, <2>5 DEF FlashInv, M!Size
<1>5. QED BY <1>2, <1>3, <1>4

LEMMA FlashDumped ==
  ASSUME M!MtdAssumption, MtdInv, FlashInv, M!DumpDone
  PROVE  FlashInv'
<1>1. /\ pc = "dump" /\ Len(out) >= M!DumpLength /\ pc' = "done" /\ exit' = "ok"
      /\ job' = job /\ flash' = flash /\ out' = out
  BY DEF M!DumpDone, M!Ends
<1>2. job.cmd = "dump" /\ Dumping /\ flash \in [1..M!Size -> FlashBytes]
  BY <1>1 DEF FlashInv
<1>3. Len(out) = M!DumpLength /\ DOMAIN out = 1..Len(out)
  <2>1. /\ Len(out) \in Nat /\ DOMAIN out = 1..Len(out) /\ job.start \in Nat /\ job.n \in Nat /\ M!Size \in Nat
        /\ Len(out) <= M!DumpLength
    BY <1>2, FlashConstants, OfSequences DEF MtdInv, Dumping
  <2>2. M!DumpLength \in Int
    BY <2>1 DEF M!DumpLength
  <2> DEFINE l == Len(out)
             u == M!DumpLength
  <2>3. l \in Int /\ u \in Int /\ l >= u /\ l <= u
    BY <1>1, <2>1, <2>2
  <2> HIDE DEF l, u
  <2>4. l = u
    BY <2>3
  <2>5. QED BY <2>1, <2>4 DEF l, u
<1>4. M!FlashAsAsked'
  <2>1. M!FlashAsAsked' <=>
          /\ Len(out) = M!DumpLength
          /\ \A k \in DOMAIN out :
                out[k] = IF Skipped(job.start + k - 1) THEN M!Erased ELSE flash[(job.start + k - 1) + 1]
          /\ \A k \in DOMAIN flash : flash[k] = job.flash[k]
    BY <1>1, <1>2 DEF M!FlashAsAsked, M!DumpInPlace, M!DumpLength, M!Size, Skipped, M!IsBad, M!Block
  <2>2. ASSUME NEW k \in DOMAIN out
        PROVE  out[k] = IF Skipped(job.start + k - 1) THEN M!Erased ELSE flash[(job.start + k - 1) + 1]
    <3>1. k \in 1..Len(out) /\ k \in Int /\ job.start \in Nat
      BY <1>3, <2>2, FlashConstants DEF MtdInv
    <3>2. (job.start + k - 1) + 1 = job.start + k
      BY <3>1
    <3>3. out[k] = IF Skipped(job.start + k - 1) THEN M!Erased ELSE flash[job.start + k]
      BY <1>2, <3>1 DEF Dumping
    <3>4. QED BY <3>2, <3>3
  <2>3. QED BY <1>2, <1>3, <2>1, <2>2 DEF Dumping
<1>5. QED BY <1>1, <1>2, <1>4 DEF FlashInv, M!Size

\* What nandwrite takes is padded with bytes that change nothing, and only at the
\* end of the file.
LEMMA PaddedIs ==
  ASSUME M!MtdAssumption, at \in Nat, at % Page = 0, Chunk % Page = 0, rest \in Seq(FlashBytes), rest # <<>>
  PROVE  /\ Len(M!Take) \in Nat /\ Len(M!Take) <= Len(rest) /\ Len(M!Take) <= Len(M!Padded)
         /\ \A j \in 1..Len(M!Take) : M!Padded[j] = rest[j]
         /\ \A j \in (Len(M!Take) + 1)..Len(M!Padded) : M!Padded[j] = M!Erased
         /\ Len(M!Take) < Len(rest) => Len(M!Padded) = Len(M!Take)
<1> DEFINE left_ == Erase - (at % Erase)
           n == M!Least(M!Room, Len(rest))
<1>0. Page \in Nat \ {0} /\ Chunk \in Nat \ {0} /\ M!Erased \in FlashBytes /\ Len(rest) \in Nat
  BY FlashConstants, OfSequences
<1>1. left_ \in Nat \ {0} /\ left_ % Page = 0
  BY RoomLeft
<1> HIDE DEF left_
<1>2. n \in Nat /\ n <= Len(rest) /\ (n < Len(rest) => n % Page = 0)
  <2>1. M!Room = M!Least(left_, Chunk)
    BY DEF M!Room, left_
  <2>2. M!Room = left_ \/ M!Room = Chunk
    BY <2>1 DEF M!Least
  <2>3. M!Room \in Nat /\ M!Room % Page = 0
    BY <1>0, <1>1, <2>2
  <2>4. (n = M!Room /\ M!Room <= Len(rest)) \/ n = Len(rest)
    BY <1>0, <2>3 DEF M!Least
  <2> HIDE DEF n
  <2>5. QED BY <1>0, <2>3, <2>4
<1> HIDE DEF n
<1>3. M!Take \in Seq(FlashBytes) /\ Len(M!Take) = n /\ \A j \in 1..n : M!Take[j] = rest[j]
  <2>1. \A j \in 1..n : rest[j] \in FlashBytes
    BY <1>0, <1>2, OfSequences
  <2>2. M!Take = SubSeq(rest, 1, n)
    BY <1>2 DEF M!Take, M!Part, n
  <2>3. QED BY <1>2, <2>1, <2>2, SubSeqProperties
<1> DEFINE s == (Page - (n % Page)) % Page
           fill == [k \in 1..s |-> M!Erased]
<1>4. M!Short = s
  BY <1>3 DEF M!Short
<1>5. s \in Nat
  <2>1. n % Page \in Nat /\ n % Page < Page
    BY <1>0, <1>2, DivisionParts
  <2>2. Page - (n % Page) \in Nat
    BY <1>0, <2>1
  <2>3. QED BY <1>0, <2>2, DivisionParts
<1>6. n < Len(rest) => s = 0
  <2>1. Page % Page = 0
    BY <1>0
  <2>2. n % Page = 0 => Page - (n % Page) = Page
    BY <1>0
  <2>3. QED BY <1>2, <2>1, <2>2
<1>7. M!Padded = M!Take \o fill
  BY <1>4 DEF M!Padded
<1> HIDE DEF s
<1>8. fill \in Seq(FlashBytes) /\ Len(fill) = s /\ \A j \in 1..s : fill[j] = M!Erased
  <2>1. fill \in [1..s -> FlashBytes]
    BY <1>0
  <2>2. QED BY <1>5, <2>1
<1> HIDE DEF fill
<1>9. Len(M!Padded) = n + s /\ \A j \in 1..(n + s) : M!Padded[j] = IF j <= n THEN M!Take[j] ELSE fill[j - n]
  BY <1>3, <1>7, <1>8, ConcatProperties
<1>10. n <= n + s /\ \A j \in 1..n : j \in 1..(n + s) /\ j <= n
  BY <1>2, <1>5
<1>11. \A j \in (n + 1)..(n + s) : j \in 1..(n + s) /\ ~(j <= n) /\ j - n \in 1..s
  BY <1>2, <1>5
<1>12. n < Len(rest) => n + s = n
  BY <1>2, <1>6
<1>13. QED BY <1>2, <1>3, <1>8, <1>9, <1>10, <1>11, <1>12

\* Between the blocks it is in and the next good one there is no good byte.
LEMMA AfterBadSkips ==
  ASSUME M!MtdAssumption, at \in Nat, M!AfterBad < M!Size
  PROVE  M!AfterBad \in Nat /\ at <= M!AfterBad /\ \A x \in Good : x <= M!AfterBad => x <= at
<1>0. Erase \in Nat \ {0} /\ Blocks \in Nat \ {0} /\ M!Size \in Nat /\ M!Size = Erase * Blocks
  BY FlashConstants
<1> DEFINE here == M!Block(at)
           r == at % Erase
           good == {b \in here..(Blocks - 1) : ~M!IsBad(b * Erase)}
<1>1. here \in Nat /\ r \in Nat /\ r < Erase /\ at = Erase * here + r
  BY <1>0, DivisionParts DEF M!Block
<1>2. M!AfterBad = IF here \in good THEN at
                   ELSE IF good = {} THEN M!Size
                   ELSE Erase * (CHOOSE b \in good : \A x \in good : b <= x)
  BY DEF M!AfterBad
<1>3. good \subseteq here..(Blocks - 1)
  OBVIOUS
<1>4. ASSUME NEW q \in here..(Blocks - 1), ~(job.nand /\ ~job.mute /\ q \in job.bad) PROVE q \in good
  <2>1. q \in Nat
    BY <1>0, <1>1
  <2>2. q * Erase = Erase * q + 0
    BY <1>0, <2>1
  <2>3. M!Block(q * Erase) = q
    BY <1>0, <2>1, <2>2, DivisionUnique DEF M!Block
  <2>4. QED BY <1>4, <2>3 DEF M!IsBad
<1>5. here..(Blocks - 1) \subseteq Nat
  BY <1>0, <1>1
<1>6. ASSUME NEW x \in Good PROVE x \in Nat \ {0} /\ x <= M!Size /\ ~M!IsBad(x - 1)
  BY <1>0 DEF Good, M!GoodFrom
<1> HIDE DEF here, r, good
<1>7. CASE here \in good
  BY <1>2, <1>7
<1>8. CASE here \notin good
  <2>1. good # {}
    <3>1. good = {} => M!AfterBad = M!Size
      BY <1>2, <1>8
    <3>2. QED BY <1>0, <3>1
  <2>2. PICK b \in good : M!AfterBad = Erase * b /\ \A x \in good : b <= x
    <3>1. good \subseteq Nat
      BY <1>3, <1>5
    <3>2. \E b \in good : \A x \in good : b <= x
      BY <2>1, <3>1, LeastNumber
    <3> DEFINE c == CHOOSE b \in good : \A x \in good : b <= x
    <3>3. c \in good /\ \A x \in good : c <= x
      BY <3>2
    <3>4. M!AfterBad = Erase * c
      BY <1>2, <1>8, <2>1
    <3> HIDE DEF c
    <3>5. QED BY <3>3, <3>4
  <2>3. b \in Nat /\ here < b /\ b <= Blocks - 1
    <3>1. b \in here..(Blocks - 1) /\ b # here
      BY <1>3, <1>8
    <3>2. QED BY <1>0, <1>1, <3>1
  <2>4. Erase * here + Erase <= Erase * b /\ Erase * b \in Nat
    BY <1>0, <1>1, <2>3, WholeBlocks
  <2>5. at < Erase * b
    <3> DEFINE h == Erase * here
               g == Erase * b
    <3>1. h \in Nat /\ g \in Nat
      BY <1>0, <1>1, <2>3
    <3> HIDE DEF h, g
    <3>2. at = h + r /\ h + Erase <= g
      BY <1>1, <2>4 DEF h, g
    <3>3. at < g
      BY <1>0, <1>1, <3>1, <3>2
    <3>4. QED BY <3>3 DEF g
  <2>6. ASSUME NEW x \in Good, x <= Erase * b, ~(x <= at) PROVE FALSE
    <3> DEFINE q == M!Block(x - 1)
               z == (x - 1) % Erase
    <3>1. x - 1 \in Nat /\ x - 1 < Erase * b /\ x - 1 >= at
      BY <1>6, <2>4, <2>6
    <3>2. q \in Nat /\ z \in Nat /\ z < Erase /\ x - 1 = Erase * q + z
      BY <1>0, <3>1, DivisionParts DEF M!Block
    <3>3. q \in 0..(b - 1)
      <4>1. b \in Nat \ {0}
        BY <1>1, <2>3
      <4>2. QED BY <1>0, <3>1, <4>1, QuotientBelow DEF M!Block
    <3>4. ~M!IsBad(x - 1)
      BY <1>6
    <3>5. ~(job.nand /\ ~job.mute /\ q \in job.bad)
      BY <3>4 DEF M!IsBad
    <3> HIDE DEF q, z
    <3>6. here <= q
      <4>1. SUFFICES ASSUME q < here PROVE FALSE
        BY <1>1, <3>2
      <4>2. Erase * q + Erase <= Erase * here
        BY <1>0, <1>1, <3>2, <4>1, WholeBlocks
      <4> DEFINE h == Erase * here
                 g == Erase * q
      <4>3. h \in Nat /\ g \in Nat
        BY <1>0, <1>1, <3>2
      <4> HIDE DEF h, g
      <4>4. g + Erase <= h /\ at = h + r /\ x - 1 = g + z
        BY <1>1, <3>2, <4>2 DEF h, g
      <4>5. x - 1 < at
        BY <1>0, <1>1, <3>2, <4>3, <4>4
      <4>6. QED BY <3>1, <4>5
    <3>7. q \in here..(Blocks - 1) /\ ~(b <= q)
      BY <1>0, <1>1, <2>3, <3>2, <3>3, <3>6
    <3>8. q \in good
      BY <1>4, <3>5, <3>7
    <3>9. QED BY <2>2, <3>7, <3>8
  <2>7. at <= Erase * b
    BY <2>4, <2>5
  <2>8. QED BY <2>2, <2>4, <2>6, <2>7
<1>9. QED BY <1>7, <1>8

LEMMA FlashSeeks ==
  ASSUME M!MtdAssumption, MtdInv, FlashInv, M!SeekBack
  PROVE  FlashInv'
<1>1. /\ pc = "copy" /\ pc' = "verify" /\ at' = 0 /\ job' = job /\ flash' = flash /\ exit' = exit
  BY DEF M!SeekBack
<1>2. job.cmd = "flashcp" /\ Copying /\ flash \in [1..M!Size -> FlashBytes]
  BY <1>1 DEF FlashInv
<1>3. Len(job.file) \in Nat
  BY FlashConstants, OfSequences DEF MtdInv
<1>4. Copying'
  <2>1. 0 <= Len(job.file) /\ 1..0 = {}
    BY <1>3
  <2>2. Copying' <=> /\ Len(job.file) <= M!Size
                     /\ \A k \in (M!EraseEnd + 1)..M!Size : flash[k] = job.flash[k]
                     /\ 0 <= Len(job.file)
                     /\ \A k \in 1..0 : flash[k] = job.file[k]
    BY <1>1, SameJob DEF Copying, M!Size
  <2>3. QED BY <1>2, <2>1, <2>2 DEF Copying
<1>5. M!FlashAsAsked' /\ exit' # "ok"
  BY <1>1, FlashGoesOn
<1>6. QED BY <1>1, <1>2, <1>4, <1>5 DEF FlashInv, M!Size

LEMMA FlashWritten ==
  ASSUME M!MtdAssumption, MtdInv, FlashInv, M!NandWriteDone
  PROVE  FlashInv'
<1>1. /\ pc = "nandwrite" /\ rest = <<>> /\ pc' = "done" /\ exit' = "ok" /\ job' = job /\ flash' = flash
  BY DEF M!NandWriteDone, M!Ends
<1>2. job.cmd = "nandwrite" /\ Writing /\ flash \in [1..M!Size -> FlashBytes]
  BY <1>1 DEF FlashInv
<1>3. Written = Len(job.file) /\ Len(job.file) \in Nat
  <2>1. Len(job.file) \in Nat
    BY FlashConstants, OfSequences DEF MtdInv
  <2>2. Len(rest) = 0
    BY <1>1, EmptySeq
  <2>3. QED BY <2>1, <2>2 DEF Written
<1>4. M!FlashAsAsked'
  <2> DEFINE n == Len(job.file)
  <2>1. M!FlashAsAsked' <=>
          /\ n <= M!Nth(M!Size)
          /\ ~job.flaky =>
               /\ \A k \in Good : M!Nth(k) <= n /\ job.flash[k] = M!Erased => flash[k] = job.file[M!Nth(k)]
               /\ \A k \in {x \in DOMAIN flash : x \notin Good \/ M!Nth(x) > n} : flash[k] = job.flash[k]
    BY <1>1, <1>2 DEF M!FlashAsAsked, Good, M!GoodFrom, M!Nth, M!IsBad, M!Size, M!Block
  <2>2. n <= M!Nth(M!Size)
    BY <1>2, <1>3 DEF Writing
  <2>3. ASSUME ~job.flaky, NEW k \in Good, M!Nth(k) <= n, job.flash[k] = M!Erased
        PROVE  flash[k] = job.file[M!Nth(k)]
    BY <1>2, <1>3, <2>3, GoodBytes DEF Writing
  <2>4. ASSUME ~job.flaky, NEW k \in DOMAIN flash, k \notin Good \/ M!Nth(k) > n
        PROVE  flash[k] = job.flash[k]
    <3>1. k \in 1..M!Size
      BY <1>2, <2>4
    <3>2. M!Nth(k) \in Nat
      BY NthIs
    <3>3. ~(k \in Good /\ M!Nth(k) <= n)
      BY <1>3, <2>4, <3>2
    <3>4. QED BY <1>2, <1>3, <2>4, <3>1, <3>3 DEF Writing
  <2> HIDE DEF n
  <2>5. QED BY <2>1, <2>2, <2>3, <2>4
<1>5. QED BY <1>1, <1>2, <1>4 DEF FlashInv, M!Size

\* nandwrite goes past the bad blocks, and puts the next of the file into good
\* bytes that follow those it has filled.
LEMMA FlashNandWrites ==
  ASSUME M!MtdAssumption, MtdInv, FlashInv, M!NandWrite
  PROVE  FlashInv'
<1> DEFINE off == M!AfterBad
           d == M!Padded
           m == Len(M!Take)
           len == Len(job.file)
<1>1. /\ pc = "nandwrite" /\ rest # <<>> /\ job' = job /\ job.cmd = "nandwrite" /\ Writing
      /\ job \in FlashJobs /\ flash \in [1..M!Size -> FlashBytes]
      /\ \/ /\ M!Write(off, d) /\ pc' = pc /\ exit' = exit /\ at' = off + Len(d)
            /\ rest' = SubSeq(rest, m + 1, Len(rest))
         \/ M!WriteFails(off, d) /\ pc' = "done" /\ exit' = "ioerr"
  BY DEF M!NandWrite, M!WriteFails, M!Ends, FlashInv, MtdInv
<1>2. /\ at \in Nat /\ at % Page = 0 /\ at >= job.start /\ Chunk % Page = 0 /\ rest \in Seq(FlashBytes)
      /\ Len(rest) \in Nat /\ len \in Nat /\ Len(rest) <= len /\ job.start \in Nat /\ M!Size \in Nat
      /\ M!Nth(at) = Written /\ Written \in Nat
  <2>1. /\ at \in Nat /\ at % Page = 0 /\ at >= job.start /\ Chunk % Page = 0 /\ rest \in Seq(FlashBytes)
        /\ Len(rest) <= len /\ M!Nth(at) = Written
    BY <1>1 DEF Writing
  <2>2. len \in Nat /\ job.start \in Nat /\ M!Size \in Nat /\ Len(rest) \in Nat
    BY <1>1, <2>1, FlashConstants, OfSequences
  <2>3. Written \in Nat
    BY <2>1, <2>2 DEF Written
  <2>4. QED BY <2>1, <2>2, <2>3
<1>3. /\ d \in Seq(FlashBytes) /\ Len(d) \in Nat /\ Len(d) > 0 /\ Len(d) <= Erase - (at % Erase)
      /\ m \in Nat /\ m <= Len(rest) /\ m <= Len(d)
      /\ \A j \in 1..m : d[j] = rest[j]
      /\ \A j \in (m + 1)..Len(d) : d[j] = M!Erased
      /\ m < Len(rest) => Len(d) = m
  BY <1>1, <1>2, PaddedFits, PaddedIs
<1>4. off + Len(d) <= M!Size
  BY DEF M!NandWrite
<1>5. /\ off \in Nat
      /\ \A k \in (off + 1)..(off + Len(d)) : ~(job.nand /\ ~job.mute /\ M!Block(k - 1) \in job.bad)
  BY <1>2, <1>3, <1>4, AfterBadIsGood
<1>6. at <= off /\ \A x \in Good : x <= off => x <= at
  <2>1. off < M!Size
    BY <1>2, <1>3, <1>4, <1>5
  <2>2. QED BY <1>2, <2>1, AfterBadSkips
<1> HIDE DEF off, d, m, len
<1>7. (off + 1)..(off + Len(d)) \subseteq Good
  <2>1. ASSUME NEW k \in (off + 1)..(off + Len(d)) PROVE k \in Good
    <3>1. k \in 1..M!Size /\ k > job.start
      BY <1>2, <1>3, <1>4, <1>5, <1>6
    <3>2. ~M!IsBad(k - 1)
      BY <1>5 DEF M!IsBad
    <3>3. QED BY <3>1, <3>2 DEF Good, M!GoodFrom
  <2>2. QED BY <2>1
<1>8. M!Nth(off) = Written
  <2>1. M!Nth(off) = M!Nth(at)
    BY <1>2, <1>5, <1>6, NthOverGap
  <2>2. QED BY <1>2, <2>1
<1>9. ASSUME NEW ix \in 0..Len(d) PROVE M!Nth(off + ix) = Written + ix
  <2>1. ix \in Nat /\ (off + 1)..(off + ix) \subseteq (off + 1)..(off + Len(d))
    BY <1>3, <1>5
  <2>2. M!Nth(off + ix) = M!Nth(off) + ix
    BY <1>5, <1>7, <2>1, NthOfRun
  <2>3. QED BY <1>8, <2>2
<1>10. /\ flash' \in [1..M!Size -> FlashBytes]
       /\ \A k \in 1..M!Size : k \notin (off + 1)..(off + Len(d)) => flash'[k] = flash[k]
  BY <1>1, <1>3, <1>5, Writes
<1>11. CASE pc' = "done" /\ exit' = "ioerr"
  BY <1>10, <1>11, FlashEnds
<1>12. CASE /\ M!Write(off, d) /\ pc' = pc /\ exit' = exit /\ at' = off + Len(d)
            /\ rest' = SubSeq(rest, m + 1, Len(rest))
  <2>1. rest' \in Seq(FlashBytes) /\ Len(rest') = Len(rest) - m /\ \A j \in 1..(Len(rest) - m) : (rest')[j] = rest[m + j]
    <3>1. \A j \in (m + 1)..Len(rest) : rest[j] \in FlashBytes
      BY <1>2, <1>3, OfSequences
    <3> DEFINE t == SubSeq(rest, m + 1, Len(rest))
               z == IF m + 1 <= Len(rest) THEN Len(rest) - (m + 1) + 1 ELSE 0
    <3>2. t \in Seq(FlashBytes) /\ Len(t) = z /\ \A j \in 1..z : t[j] = rest[m + 1 + j - 1]
      BY <1>2, <1>3, <3>1, SubSeqProperties
    <3>3. z = Len(rest) - m
      BY <1>2, <1>3
    <3> HIDE DEF t, z
    <3>4. \A j \in 1..z : m + 1 + j - 1 = m + j
      BY <1>3
    <3>5. rest' = t
      BY <1>12 DEF t
    <3>6. QED BY <3>2, <3>3, <3>4, <3>5
  <2>2. len - Len(rest') = Written + m
    <3>1. len - (Len(rest) - m) = (len - Len(rest)) + m
      BY <1>2, <1>3
    <3>2. QED BY <2>1, <3>1 DEF Written, len
  <2>3. \A j \in 1..Len(rest') : (rest')[j] = job.file[(Written + m) + j]
    <3>1. ASSUME NEW j \in 1..(Len(rest) - m) PROVE rest[m + j] = job.file[(Written + m) + j]
      <4>1. m + j \in 1..Len(rest) /\ Written + (m + j) = (Written + m) + j
        BY <1>2, <1>3
      <4>2. rest[m + j] = job.file[Written + (m + j)]
        BY <1>1, <4>1 DEF Writing
      <4>3. QED BY <4>1, <4>2
    <3>2. QED BY <2>1, <3>1
  <2>4. rest' # <<>> => M!Nth(at') = Written + m
    <3>1. SUFFICES ASSUME rest' # <<>> PROVE M!Nth(at') = Written + m
      OBVIOUS
    <3>2. Len(rest) - m # 0
      BY <2>1, <3>1, EmptySeq
    <3>3. Len(d) = m
      BY <1>2, <1>3, <3>2
    <3>4. Len(d) \in 0..Len(d)
      BY <1>3
    <3>5. M!Nth(off + Len(d)) = Written + Len(d)
      BY <1>9, <3>4
    <3>6. at' = off + Len(d)
      BY <1>12
    <3>7. QED BY <3>3, <3>5, <3>6
  <2>5. Written + m <= M!Nth(M!Size)
    <3>1. m \in 0..Len(d) /\ off + m \in Int /\ M!Size \in Int /\ off + m <= M!Size
      BY <1>2, <1>3, <1>4, <1>5
    <3>2. M!Nth(off + m) = Written + m
      BY <1>9, <3>1
    <3>3. M!Nth(off + m) <= M!Nth(M!Size)
      BY <3>1, NthGrows
    <3>4. QED BY <3>2, <3>3
  <2>6. ASSUME ~job.flaky, NEW k \in 1..M!Size
        PROVE  IF k \in Good /\ M!Nth(k) <= Written + m
               THEN job.flash[k] = M!Erased => flash'[k] = job.file[M!Nth(k)]
               ELSE flash'[k] = job.flash[k]
    <3>1. IF k \in Good /\ M!Nth(k) <= Written
          THEN job.flash[k] = M!Erased => flash[k] = job.file[M!Nth(k)]
          ELSE flash[k] = job.flash[k]
      BY <1>1, <2>6 DEF Writing
    <3>2. k \in Int /\ M!Nth(k) \in Nat
      <4>1. k \in Int
        BY <1>2
      <4>2. M!Nth(k) \in Nat
        BY NthIs
      <4>3. QED BY <4>1, <4>2
    <3>3. CASE k <= off
      <4>1. flash'[k] = flash[k]
        BY <1>3, <1>5, <1>10, <3>2, <3>3
      <4>2. M!Nth(k) <= M!Nth(off)
        BY <1>5, <3>2, <3>3, NthGrows
      <4>3. M!Nth(k) <= Written /\ M!Nth(k) <= Written + m
        BY <1>2, <1>3, <1>8, <3>2, <4>2
      <4>4. QED BY <3>1, <4>1, <4>3
    <3>4. CASE k > off + Len(d)
      <4>1. flash'[k] = flash[k]
        BY <1>3, <1>5, <1>10, <3>2, <3>4
      <4>2. off + Len(d) \in Int /\ off + Len(d) < k /\ Len(d) \in 0..Len(d)
        BY <1>3, <1>5, <3>2, <3>4
      <4>3. k \in Good => M!Nth(off + Len(d)) < M!Nth(k)
        BY <3>2, <4>2, NthGrows
      <4>4. M!Nth(off + Len(d)) = Written + Len(d)
        BY <1>9, <4>2
      <4>5. k \in Good => ~(M!Nth(k) <= Written) /\ ~(M!Nth(k) <= Written + m)
        BY <1>2, <1>3, <3>2, <4>3, <4>4
      <4>6. QED BY <3>1, <4>1, <4>5
    <3>5. CASE k \in (off + 1)..(off + Len(d))
      <4> DEFINE ix == k - off
      <4>1. ix \in 1..Len(d) /\ ix \in 0..Len(d) /\ off + ix = k
        BY <1>3, <1>5, <3>2, <3>5
      <4>2. flash'[k] = M!Program(flash[k], d[ix])
        <5>1. flash' = M!Programmed(off, d)
          BY <1>12, <2>6 DEF M!Write
        <5>2. QED BY <1>1, <1>3, <1>5, <3>5, <5>1, Programs
      <4> HIDE DEF ix
      <4>3. k \in Good /\ M!Nth(k) = Written + ix
        BY <1>7, <1>9, <3>5, <4>1
      <4>4. flash[k] = job.flash[k]
        <5>1. ~(Written + ix <= Written)
          BY <1>2, <4>1
        <5>2. QED BY <3>1, <4>3, <5>1
      <4>5. CASE ix <= m
        <5>1. ix \in 1..m /\ ix \in 1..Len(rest) /\ Written + ix <= Written + m
          BY <1>2, <1>3, <4>1, <4>5
        <5>2. d[ix] = rest[ix] /\ rest[ix] = job.file[Written + ix]
          BY <1>1, <1>3, <5>1 DEF Writing
        <5>3. job.flash[k] = M!Erased => flash'[k] = job.file[M!Nth(k)]
          BY <4>2, <4>3, <4>4, <5>2 DEF M!Program
        <5>4. QED BY <4>3, <5>1, <5>3
      <4>6. CASE ix > m
        <5>1. ix \in (m + 1)..Len(d) /\ ~(Written + ix <= Written + m)
          BY <1>2, <1>3, <4>1, <4>6
        <5>2. d[ix] = M!Erased
          BY <1>3, <5>1
        <5>3. flash'[k] = flash[k]
          BY <4>2, <5>2 DEF M!Program
        <5>4. QED BY <4>3, <4>4, <5>1, <5>3
      <4>7. ix \in Int /\ m \in Int
        BY <1>3, <4>1
      <4>8. QED BY <4>5, <4>6, <4>7
    <3>6. k <= off \/ k > off + Len(d) \/ k \in (off + 1)..(off + Len(d))
      BY <1>3, <1>5, <3>2
    <3>7. QED BY <3>3, <3>4, <3>5, <3>6
  <2>7. at' \in Nat /\ at' % Page = 0 /\ at' >= job.start
    <3>1. MtdInv' /\ pc' = "nandwrite"
      BY <1>1, <1>12, MtdWrites
    <3>2. at' \in Nat /\ at' % Page = 0
      BY <3>1 DEF MtdInv
    <3>3. off + Len(d) >= job.start
      BY <1>2, <1>3, <1>5, <1>6
    <3>4. QED BY <1>12, <3>2, <3>3
  <2>8. Len(rest') <= len
    BY <1>2, <1>3, <2>1
  <2>9. Writing'
    <3>1. Len(job.file) - Len(rest') = Written + m
      BY <2>2 DEF len
    <3>2. Len(rest') <= Len(job.file)
      BY <2>8 DEF len
    <3> DEFINE w == Written + m
    <3>3. Writing' <=>
            /\ at' \in Nat /\ at' % Page = 0 /\ at' >= job.start /\ Chunk % Page = 0
            /\ rest' \in Seq(FlashBytes) /\ Len(rest') <= Len(job.file)
            /\ \A j \in 1..Len(rest') : (rest')[j] = job.file[w + j]
            /\ rest' # <<>> => M!Nth(at') = w
            /\ w <= M!Nth(M!Size)
            /\ ~job.flaky => \A k \in 1..M!Size :
                  IF k \in Good /\ M!Nth(k) <= w
                  THEN job.flash[k] = M!Erased => flash'[k] = job.file[M!Nth(k)]
                  ELSE flash'[k] = job.flash[k]
      BY <1>1, <3>1, WritingThen
    <3>4. QED BY <1>2, <2>1, <2>3, <2>4, <2>5, <2>6, <2>7, <3>2, <3>3
  <2>10. M!FlashAsAsked' /\ exit' # "ok"
    BY <1>1, <1>12, FlashGoesOn
  <2>11. QED BY <1>1, <1>10, <1>12, <2>9, <2>10 DEF FlashInv, M!Size
<1>13. QED BY <1>1, <1>11, <1>12

LEMMA FlashInit == ASSUME M!MtdAssumption, M!Init PROVE FlashInv
<1>1. /\ job \in FlashJobs /\ flash = job.flash /\ pc = "start" /\ exit = "pending"
      /\ out = <<>> /\ bad = FALSE
  BY DEF M!Init
<1>2. flash \in [1..M!Size -> FlashBytes]
  BY <1>1, FlashConstants
<1>3. QED BY <1>1, <1>2 DEF FlashInv, M!FlashAsAsked

LEMMA FlashNext ==
  ASSUME M!MtdAssumption, MtdInv, FlashInv, [M!Next]_M!vars
  PROVE  FlashInv'
<1>1. CASE UNCHANGED M!vars
  <2>1. /\ job' = job /\ flash' = flash /\ pc' = pc /\ at' = at /\ rest' = rest /\ out' = out
        /\ bad' = bad /\ exit' = exit
    BY <1>1 DEF M!vars
  <2>2. Erasing' <=> Erasing
    BY <2>1, SameJob DEF Erasing, M!Size
  <2>3. Copying' <=> Copying
    BY <2>1, SameJob DEF Copying, M!Size
  <2>4. Dumping' <=> Dumping
    BY <2>1, SameJob DEF Dumping, M!Size
  <2>5. Writing' <=> Writing
    BY <2>1, WritingThen DEF Writing, Written
  <2>6. M!FlashAsAsked' <=> M!FlashAsAsked
    BY <2>1 DEF M!FlashAsAsked, M!DumpInPlace, M!DumpLength, M!EraseEnd, M!GoodFrom, M!Nth, M!IsBad, M!Size, M!Block
  <2>7. QED BY <2>1, <2>2, <2>3, <2>4, <2>5, <2>6 DEF FlashInv, M!Size
<1>2. CASE M!Next
  BY <1>2, FlashFails, FlashBegins, FlashErases, FlashErased, FlashDumps, FlashDumped, FlashNandWrites,
     FlashWritten, FlashCopies, FlashSeeks, FlashVerifies DEF M!Next
<1>3. QED BY <1>1, <1>2

-----------------------------------------------------------------------------
\* What is known of whichever tool it is.
ToolInv == /\ tool = "line" => PipelineInv
           /\ tool = "blkwak" => BlkInv
           /\ tool = "mtd" => MtdInv /\ FlashInv
           /\ tool = "resolv" => ResolvInv
           /\ tool = "ping" => PingInv
           /\ tool = "sntp" => NtpInv
           /\ tool = "clock" => ClockInv
           /\ tool = "files" => FilesInv
           /\ tool = "keeper" => DungeonInv
           /\ tool = "login" => LoginInv

LEMMA ToolInit == Init => ToolInv
BY HostAssumption, DeviceAssumption, PipelineInit, BlkInit, MtdInit, FlashInit, ResolvInit, PingInit, NtpInit, ClockInit,
   FilesInit, DungeonInit, LoginInit DEF Init, ToolInv

\* A step is one of the tool's own, or none.
LEMMA OwnStep ==
  ASSUME [Next]_vars
  PROVE  /\ tool' = tool
         /\ tool = "line" => [L!Next]_L!vars
         /\ tool = "blkwak" => [B!Next]_B!vars
         /\ tool = "mtd" => [M!Next]_M!vars
         /\ tool = "resolv" => [R!Next]_R!vars
         /\ tool = "ping" => [P!Next]_P!vars
         /\ tool = "sntp" => [Ntp!Next]_Ntp!vars
         /\ tool = "clock" => [C!Next]_C!vars
         /\ tool = "files" => [F!Next]_F!vars
         /\ tool = "keeper" => [K!Next]_K!vars
         /\ tool = "login" => [G!Next]_G!vars
<1>1. CASE Next
  BY <1>1 DEF Next
<1>2. CASE UNCHANGED vars
  BY <1>2 DEF vars, mine, L!vars, B!vars, M!vars, R!vars, P!vars, Ntp!vars, C!vars, F!vars, K!vars, G!vars
<1>3. QED BY <1>1, <1>2

LEMMA ToolNext == ASSUME ToolInv, [Next]_vars PROVE ToolInv'
<1>1. tool' = tool
  BY OwnStep
<1>2. tool = "line" => PipelineInv'
  BY HostAssumption, OwnStep, PipelineNext DEF ToolInv
<1>3. tool = "mtd" => MtdInv' /\ FlashInv'
  BY DeviceAssumption, OwnStep, MtdNext, FlashNext DEF ToolInv
<1>4. tool = "resolv" => ResolvInv'
  BY HostAssumption, OwnStep, ResolvNext DEF ToolInv
<1>5. tool = "ping" => PingInv'
  BY HostAssumption, OwnStep, PingNext DEF ToolInv
<1>6. tool = "sntp" => NtpInv'
  BY HostAssumption, OwnStep, NtpNext DEF ToolInv
<1>7. tool = "clock" => ClockInv'
  BY DeviceAssumption, OwnStep, ClockNext DEF ToolInv
<1>8. tool = "files" => FilesInv'
  BY HostAssumption, OwnStep, FilesNext DEF ToolInv
<1>9. tool = "keeper" => DungeonInv'
  BY HostAssumption, OwnStep, DungeonNext DEF ToolInv
<1>10. tool = "login" => LoginInv'
  BY OwnStep, LoginNext DEF ToolInv
<1>11. tool = "blkwak" => BlkInv'
  BY DeviceAssumption, OwnStep, BlkNext DEF ToolInv
<1>12. QED BY <1>1, <1>2, <1>3, <1>4, <1>5, <1>6, <1>7, <1>8, <1>9, <1>10, <1>11 DEF ToolInv

LEMMA ToolInvariant == Spec => []ToolInv
BY ToolInit, ToolNext, PTL DEF Spec
-----------------------------------------------------------------------------

\* What resolv reports, a server has said in reply to this query, however many
\* servers there are, whatever they say and however late, and whatever junk comes
\* in their names: addresses are of one reply, and a name does not exist only if
\* a server says so (is_reply_to, parse_response, main). Every line ping prints is
\* for a request the host has answered, one for each at most, in order, for any
\* number of requests (wait_for_response, prog_ping).
THEOREM OwnAnswerCorrect == Spec => []OwnAnswer
<1>1. ToolInv => OwnAnswer
  BY PingInvImplies DEF ToolInv, OwnAnswer, ResolvInv
<1>2. QED BY <1>1, ToolInvariant, PTL

\* Back at its prompt smolsh holds no end of a pipe, no redirected file and no
\* child, for lines of any number of stages and any order in which their programs
\* run, end and die of Ctrl-C, whichever call failed on the way (run_line,
\* run_command).
THEOREM NothingHeldCorrect == Spec => []NothingHeld
<1>1. ToolInv => NothingHeld
  BY HostAssumption, PipelineInvImplies DEF ToolInv, NothingHeld
<1>2. QED BY <1>1, ToolInvariant, PTL

\* For any files, names, command lines and interruptions: unless somebody else
\* is at the files, cp and mv have the source somewhere in full at every moment,
\* cat says all its files in order, touch empties nothing, and chmod and chown
\* succeed only if each file was changed (copy_file, move_across, prog_cat,
\* prog_touch, prog_chmod, prog_chown).
THEOREM NothingLostCorrect == Spec => []NothingLost
<1>1. ToolInv => NothingLost
  BY HostAssumption, FilesInvImplies DEF ToolInv, NothingLost
<1>2. QED BY <1>1, ToolInvariant, PTL

\* However often processes are started and restarted under one name, by init
\* and by hand, whichever die, however their pids come round, wherever keeper is
\* killed, whatever cannot be written and however keepers race each other: keeper
\* -r signals none that init keeps, unless a file could not even be opened, or init
\* and a keeper were at it at the same time (dungeon_spawn, restart: "leaving it
\* alone").
THEOREM KeptLeftAloneCorrect == Spec => []KeptLeftAlone
<1>1. ToolInv => KeptLeftAlone
  BY DungeonInvImplies DEF ToolInv, KeptLeftAlone
<1>2. QED BY <1>1, ToolInvariant, PTL

\* Once a login is over nothing is on the seat, whatever devices came and went, and
\* however often logins before were cut off or failed to take a node away: the last
\* one that listed its seat took all of it, if it failed at nothing and the user has
\* put nothing back since (seat_make, seat_drop, seat_take_away).
THEOREM HardwareGoesCorrect == Spec => []HardwareGoes
<1>1. ToolInv => HardwareGoes
  BY LoginInvImplies DEF ToolInv, HardwareGoes
<1>2. QED BY <1>1, ToolInvariant, PTL

\* A block marked bad is never changed by the tools for NAND, for any erase, page
\* and buffer sizes, any command lines, files and bad blocks, and wherever a call
\* fails: what nandwrite pads stays within the good block it has found
\* (prog_flash_erase, prog_nandwrite).
THEOREM BadLeftAloneCorrect == Spec => []BadLeftAlone
<1>1. ToolInv => BadLeftAlone
  BY DEF ToolInv, BadLeftAlone, MtdInv
<1>2. QED BY <1>1, ToolInvariant, PTL

\* hwclock leaves the two clocks as far apart as the seconds it took, rtcwake sets
\* its alarm for the second that was asked for, or says that this is past, and does
\* not put a machine to sleep that nothing wakes up (hctosys, systohc,
\* prog_rtcwake): from any date on that a time_t holds, of any width, with seconds
\* passing wherever they like, by the arithmetic of date.h, which is that of the
\* calendar. sntp sets the clock to the time of the packet it took, put right for
\* 1900, or not at all, whoever sent it, server or stranger; if that was a server,
\* to the time the server meant, and one that it had asked (do_sntp).
THEOREM ClocksRightCorrect == Spec => []ClocksRight
<1>1. ToolInv => ClocksRight
  BY DeviceAssumption, ClockInvImplies DEF ToolInv, ClocksRight, NtpInv
<1>2. QED BY <1>1, ToolInvariant, PTL

\* A flash tool that reports success has done what it was asked, for any erase, page
\* and buffer sizes, any command lines, files, contents of the flash and bad blocks,
\* and whatever a medium that does not say so makes of the bytes it is given.
\* nandwrite has put the n-th byte of the file into the n-th good byte, wherever the
\* blocks in between are bad, and its padding is seen nowhere; flashcp has the file on
\* the flash, since it read it back; flash_erase has erased what was asked, but for
\* bad blocks; nanddump has every byte at its offset, whatever buffer it was read
\* with. None has changed anything else (prog_nandwrite, prog_flashcp,
\* prog_flash_erase, prog_nanddump).
THEOREM FlashAsAskedCorrect == Spec => []FlashAsAsked
<1>1. ToolInv => FlashAsAsked
  BY DEF ToolInv, FlashAsAsked, FlashInv
<1>2. QED BY <1>1, ToolInvariant, PTL

\* When blkwak reports success, image and device say the same, for any images, raw or
\* sparse, that are written, compared or made, devices, places on them, buffer and
\* block sizes and limits of a chunk. Written and verified, or on a medium that stores
\* what it is given, every byte of the image is at its place; a comparison finds a
\* difference exactly when there is one; nothing but the place of the image is changed,
\* and of that not the holes; and what was made of a region, unpacked, is the region,
\* wherever fills and raw chunks begin and grow from buffer to buffer. Only a fill that
\* takes more than one buffer has to have whole words in each (walk_image, span_data,
\* span_fill, finish_compare; read_raw, read_sparse, android_sparse_put_raw,
\* android_sparse_put_fill).
THEOREM ImageAndDeviceCorrect == Spec => []ImageAndDevice
<1>1. ToolInv => ImageAndDevice
  BY BlkRight DEF ToolInv, ImageAndDevice
<1>2. QED BY <1>1, ToolInvariant, PTL

=============================================================================
