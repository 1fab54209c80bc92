----------------------------- MODULE DeviceTools -----------------------------
(* The tools that work on a device: a disk, flash, or a clock.              *)
EXTENDS Integers, Sequences, FiniteSets, Slots

CONSTANTS ImageJobs, Word, BlockSize, MaxBody, MaxBlks,      \* blkwak
          ImageBytes,
          FlashJobs, Erase, Page, Chunk, Blocks, FlashBytes,\* the flash tools
          ClockJobs, Minute, Hour, Day, Half, MaxTicks      \* hwclock and rtcwake

B == INSTANCE Blkwak WITH
        Jobs <- ImageJobs, Block <- BlockSize, Octets <- ImageBytes,
        pc <- s1, exit <- s2, job <- s3, w <- s4, dev <- s5, file <- s6

M == INSTANCE Mtd WITH
        Jobs <- FlashJobs, Bytes <- FlashBytes,
        pc <- s1, exit <- s2, job <- s3, flash <- s4, at <- s5, out <- s6, rest <- s7, bad <- s8

C == INSTANCE Clock WITH
        Jobs <- ClockJobs,
        pc <- s1, exit <- s2, job <- s3, sys <- s4, rtc <- s5, alarm <- s6, t <- s7, when <- s8,
        lag <- s9, ticks <- s10

ASSUME DeviceAssumption == B!BlkwakAssumption /\ M!MtdAssumption /\ C!ClockAssumption

=============================================================================
