------------------------------- MODULE MCTools -------------------------------
(* Small instances of the tools: what is typed, asked for and stored.      *)
EXTENDS Tools, SequencesExt

Words(chars, n) == UNION {[1..k -> chars] : k \in 0..n}

-----------------------------------------------------------------------------
(* readln_shell().                                                         *)

MCTyped == {w \o <<"\n">> : w \in Words({"a", "\"", "\\", "#", ";"}, 4)}
    \cup {w \o <<"\n", "a", "\n">> : w \in Words({"a", ";", "\t", "\r", "\\"}, 3)}
    \cup {<<"a", "a", "a", "a", "a", "a", ";", "\n", "a", "\n", "a">>,
          <<"a", "a", "a", "a", "a", "\n", "a", "\n">>,
          <<"a", "a", "a", "a", "\n", "a", ";", "\n", "\n">>,
          <<"a", "\n", "a", "a", "a", "a", "a", "a">>}

-----------------------------------------------------------------------------
(* parse_cmd().                                                            *)

MCCmdLines == Words({"a", "2", " ", "\"", "\\", "<", ">", "|", "$"}, 3)
       \cup [1..4 -> {"a", "2", ">", "\"", "|", " "}]
       \cup {<<"a", " ", ">">> \o w : w \in Words({"a", ">", "2", "<", " ", "\""}, 3)}
       \cup {<<"a", " ", "a", " ", "a", " ", "a">>,
             <<"a", " ", "2", ">", ">", "a", " ", ">", "a", " ", "<", "a">>,
             <<"2", ">", "a", ">", ">", "a", "|", "a", "<", "2">>}

-----------------------------------------------------------------------------
(* run_line(). yes into nothing but cats and its like would write for ever, *)
(* as it does in any shell.                                                 *)

Plain(what) == [what |-> what, in |-> "no", out |-> "no"]
Kinds == {Plain(k) : k \in {"own", "cat", "yes", "echo", "exit", "absent", "empty", "bad"}}
Few == {Plain(k) : k \in {"own", "cat", "yes", "bad", "absent"}}
Redirected == {[what |-> k, in |-> i, out |-> o] :
                  k \in {"own", "echo"}, i \in {"no", "file", "missing"}, o \in {"no", "file", "missing"}}

Read(l) == \A k \in DOMAIN l :
              l[k].what = "yes" /\ k < Len(l) => \E j \in (k + 1)..Len(l) : l[j].what # "cat"

MCShellLines == {l \in [1..1 -> Kinds] \cup [1..2 -> Kinds] \cup [1..3 -> Few] : Read(l)}
         \cup {<<r>> : r \in Redirected}
         \cup {<<r, Plain("cat")>> : r \in Redirected}
         \cup {<<Plain("yes"), r>> : r \in Redirected}

-----------------------------------------------------------------------------
(* blkwak: a device of eight to sixteen bytes.                             *)

Raw(d) == [kind |-> "raw", data |-> d]
Sparse(n, c) == [kind |-> "sparse", unit |-> 4, blks |-> n, count |-> Len(c), chunks |-> c]
ChunkOf(t, n, b) == [type |-> t, blks |-> n, says |-> Len(b), body |-> b]
OneBlock == ChunkOf("raw", 1, <<"p", "q", "r", "s">>)
TwoBlocks == ChunkOf("raw", 2, <<"a", "b", "c", "d", "e", "f", "g", "h">>)
Fill(n) == ChunkOf("fill", n, <<"y", "z">>)
HoleOf(n) == ChunkOf("hole", n, <<>>)

Images == {Raw(<<>>), Raw(<<"a", "b", "c">>), Raw(<<"a", "b", "c", "d", "e", "f", "g", "h", "i", "j">>),
           Sparse(1, <<OneBlock>>), Sparse(2, <<OneBlock, Fill(1)>>), Sparse(2, <<Fill(2)>>),
           Sparse(2, <<HoleOf(1), OneBlock>>), Sparse(2, <<TwoBlocks>>),
           Sparse(1, <<ChunkOf("crc", 0, <<"c", "c">>), OneBlock>>),
           \* and some that are not as they should be
           Sparse(2, <<OneBlock>>), Sparse(4, <<TwoBlocks, TwoBlocks>>),
           Sparse(1, <<ChunkOf("other", 1, <<>>)>>), Sparse(1, <<OneBlock, Fill(1)>>),
           [Sparse(2, <<OneBlock>>) EXCEPT !.count = 2],
           Sparse(2, <<ChunkOf("raw", 2, <<"p", "q", "r", "s">>)>>),
           Sparse(2, <<[TwoBlocks EXCEPT !.body = <<"a", "b", "c", "d", "e">>]>>),
           [Sparse(1, <<OneBlock>>) EXCEPT !.unit = 3]}

Old == [k \in 1..12 |-> "o"]
Wawk(c, b, d, f) == [cmd |-> c, bs |-> b, sparse |-> FALSE, verify |-> FALSE, off |-> 0, len |-> 0,
                     same |-> FALSE, flaky |-> FALSE, dev |-> d, file |-> f]

Flashed == {[Wawk(c, b, Old, f) EXCEPT !.verify = v, !.off = o, !.flaky = x] :
               c \in {"write"}, b \in {2, 3, 4}, f \in Images, v \in BOOLEAN, o \in {0, 2}, x \in BOOLEAN}
      \cup {Wawk("cmp", b, SubSeq(d, 1, 8), f) :
               b \in {2, 4}, f \in Images,
               d \in {Old, <<"p", "q", "r", "s", "y", "z", "y", "z">>,
                      <<"a", "b", "c", "d", "e", "f", "g", "h">>, <<"y", "z", "y", "z", "y", "z", "y", "z">>}}

Devices == {w \o v \o u : w \in {<<"a", "b", "a", "b">>, <<"a", "b", "c", "d">>},
                          v \in {<<"a", "b", "a", "b">>, <<"c", "c", "c", "c">>, <<"a", "b", "c", "e">>},
                          u \in {<<"a", "b", "a", "b">>, <<"c", "c", "c", "c">>, <<"e", "f", "g", "h">>}}
Dumped == {[Wawk("read", b, d \o d, Raw(<<>>)) EXCEPT !.sparse = TRUE, !.verify = v, !.off = o] :
              b \in {4, 8}, d \in Devices, v \in BOOLEAN, o \in {0, 4}}
     \cup {[Wawk("read", b, Old, Raw(<<>>)) EXCEPT !.off = o, !.len = n, !.sparse = s, !.same = x] :
              b \in {3, 4}, o \in {0, 2, 13}, n \in {0, 5, 20}, s \in BOOLEAN, x \in BOOLEAN}

MCImageJobs == Flashed \cup Dumped
MCImageBytes == {"a", "b", "c", "d", "e", "f", "g", "h", "i", "j", "o", "p", "q", "r", "s", "x", "y", "z"}

-----------------------------------------------------------------------------
(* The flash tools.                                                        *)

FlashJob(c, b, d) == [cmd |-> c, nand |-> TRUE, bad |-> b, mute |-> FALSE, flaky |-> FALSE, pad |-> FALSE,
                      start |-> 0, n |-> 0, flash |-> d, file |-> <<>>]
Blank == [k \in 1..12 |-> "F"]
Used == <<"o", "F", "o", "o", "F", "F", "F", "F", "o", "o", "o", "o">>
Some == <<"a", "b", "c", "d", "e", "f", "g", "h", "i", "j", "k", "l", "m">>

MCFlashJobs ==
    {[FlashJob("erase", b, Used) EXCEPT !.start = s, !.n = n, !.mute = m] :
        b \in SUBSET (0..2), s \in {0, 2, 4, 12}, n \in 0..3, m \in BOOLEAN}
    \cup {[FlashJob("dump", b, Used) EXCEPT !.start = s, !.n = n] :
        b \in SUBSET (0..2), s \in {0, 2, 3, 4, 12}, n \in {0, 1, 5, 12}}
    \cup {[FlashJob("nandwrite", b, d) EXCEPT !.start = s, !.file = SubSeq(Some, 1, n), !.pad = p, !.flaky = f] :
        b \in SUBSET (0..2), d \in {Blank, Used}, s \in {0, 1, 2, 4}, n \in {0, 3, 6, 9}, p \in BOOLEAN, f \in BOOLEAN}
    \cup {[FlashJob("flashcp", {}, Used) EXCEPT !.nand = x, !.file = SubSeq(Some, 1, n), !.flaky = f] :
        x \in BOOLEAN, n \in {0, 3, 4, 5, 12, 13}, f \in BOOLEAN}

MCFlashBytes == {"F", "o", "x"} \cup {Some[k] : k \in DOMAIN Some}

-----------------------------------------------------------------------------
(* resolv.                                                                 *)

Reply(c, r) == [code |-> c, records |-> r]
MCReplies == {Reply("ok", <<"other", "a", "b", "c">>), Reply("ok", <<"a", "cut">>),
              Reply("ok", <<"other">>), Reply("nx", <<>>), Reply("fail", <<>>)}

-----------------------------------------------------------------------------
(* sntp: seven of the sixteen seconds are before 1970. hwclock and rtcwake:  *)
(* around the ends of months, years and centuries. Half is in the year 2328. *)

MCTimes == {0, 3, 8, 9, 15}

EndOf(y, m, d) == [year |-> y, mon |-> m, mday |-> d, hour |-> 1, min |-> 1, sec |-> 1]
Soon == {EndOf(1999, 12, 31), EndOf(2000, 2, 28), EndOf(2000, 2, 29), EndOf(2001, 2, 28),
         EndOf(2003, 4, 30), EndOf(2000, 12, 30), EndOf(2100, 2, 28), EndOf(2100, 12, 31)}
Dates == Soon \cup {EndOf(2400, 2, 28), EndOf(2400, 12, 30)}

TimeJob(w, s, r) == [what |-> w, seconds |-> 0, epoch |-> 0, sys |-> s, rtc |-> r]

Calendar == INSTANCE Date

MCClockJobs ==
    {TimeJob(w, 5, EndOf(1999, 12, 31)) : w \in {"show", "alarm", "disable"}}
    \cup {TimeJob("s", 5, r) : r \in Dates \cup {[EndOf(1970, 1, 1) EXCEPT !.hour = 0, !.min = 0, !.sec = 0]}}
    \cup {TimeJob("w", e, EndOf(1999, 12, 31)) : e \in {-1, 0} \cup {Calendar!Elapsed(r) : r \in Soon}}
    \cup {[TimeJob(w, 100, r) EXCEPT !.seconds = n] :
              w \in {"no", "mem"}, n \in {0, 1, 3, Half, 2 * Half - 1}, r \in Dates}
    \cup {[TimeJob(w, 100, r) EXCEPT !.epoch = n] :
              w \in {"no", "mem"}, n \in {99, 100, 102, 103, Half, 2 * Half - 1}, r \in Dates}
    \cup {[TimeJob("no", 100, EndOf(1999, 12, 31)) EXCEPT !.seconds = 1, !.epoch = 101]}

-----------------------------------------------------------------------------
(* The file tools: two names, three inodes and one that is free.           *)

NameJob(c, args) == [cmd |-> c, args |-> args, cross |-> FALSE, stdout |-> 3,
                     ino |-> [x \in {"a", "b"} |-> IF x = "a" THEN 1 ELSE 0],
                     kind |-> <<"file", "file", "file", "free">>,
                     data |-> << <<"x", "y">>, <<"z">>, <<"o">>, <<>> >>]

MCNameJobs ==
    {[NameJob(c, <<"a", "b">>) EXCEPT !.cross = x, !.ino["b"] = n, !.kind[1] = t] :
        c \in {"cp", "mv", "ln"}, x \in BOOLEAN, n \in {0, 1, 2}, t \in {"file", "dir"}}
    \cup {[NameJob(c, <<"a">>) EXCEPT !.ino["a"] = n] :
        c \in {"touch", "rm", "mkdir", "mknod", "rmdir"}, n \in {0, 1}}
    \cup {[NameJob("rmdir", <<"a">>) EXCEPT !.kind[1] = "dir"]}
    \cup {[NameJob("cat", <<"a", "b", "a">>) EXCEPT !.ino["b"] = n, !.stdout = o] :
        n \in {0, 1, 2}, o \in {1, 2, 3}}
    \cup {[NameJob(c, <<"a", "b">>) EXCEPT !.ino["b"] = n] :
        c \in {"chmod", "chown"}, n \in {0, 1, 2}}

=============================================================================
