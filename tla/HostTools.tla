------------------------------ MODULE HostTools ------------------------------
(* The tools that ask others on the network, and those that live among other *)
(* processes and files.                                                      *)
EXTENDS Integers, Sequences, FiniteSets, Slots

CONSTANTS ShellLines, MaxStages,                            \* run_line()
          Seconds, MaxQueue,                                \* whoever waits for an answer:
          Servers, MaxResults, Replies,                     \* resolv
          Requests,                                         \* ping
          PoolSize, Wrap, Delta, Times,                     \* sntp
          NameJobs, FileBytes, FileRoom,                    \* the file tools
          Pids, MaxStarts,                                  \* keeper
          Names, Tries, MaxLogins, MaxPlugs                 \* getty and su

L == INSTANCE Pipeline WITH
        Lines <- ShellLines,
        pc <- s1, line <- s2, prevRead <- s3, i <- s4, pipe <- s5, held <- s6, proc <- s7

R == INSTANCE Resolv WITH
        pc <- s1, exit <- s2, peer <- s3, i <- s4, queue <- s5, num <- s6, left <- s7,
        got <- s8, said <- s9, result <- s10, refused <- s11

P == INSTANCE Ping WITH
        pc <- s1, exit <- s2, sent <- s3, i <- s4, queue <- s5, answered <- s6, left <- s7, replies <- s8

Ntp == INSTANCE Sntp WITH
        Addresses <- PoolSize,
        pc <- s1, exit <- s2, asked <- s3, i <- s4, queue <- s5, num <- s6, pkt <- s7, clock <- s8

F == INSTANCE Files WITH
        Jobs <- NameJobs, Bytes <- FileBytes, Room <- FileRoom,
        pc <- s1, exit <- s2, job <- s3, ino <- s4, kind <- s5, data <- s6, left <- s7, k <- s8,
        fd <- s9, done <- s10, meddled <- s11

K == INSTANCE Dungeon WITH
        by <- s1, act <- s2, starts <- s3, spoilt <- s4, stopped <- s5, file <- s6

G == INSTANCE Login WITH
        pc <- s1, who <- s2, link <- s3, tries <- s4, dev <- s5, path <- s6,
        seat <- s7, todo <- s8, logins <- s9, plugs <- s10, cut <- s11, aside <- s12

ASSUME HostAssumption ==
    /\ L!PipelineAssumption /\ R!ResolvAssumption /\ P!PingAssumption /\ Ntp!SntpAssumption
    /\ F!FilesAssumption /\ K!DungeonAssumption /\ G!LoginAssumption

=============================================================================
