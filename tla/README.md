# A model of smolutils

smolutils is an init, a shell and some sixty small tools for machines with
little memory. This project models, in TLA+, the parts of it that run for long
or talk to something that may fail. TLC checks the models on small instances,
TLAPS proves theorems about them for every value of their constants, and
`PROJECT.json` ties every definition to the lines it models.

## The system

| part | source | state it keeps | what happens to it |
|---|---|---|---|
| init | `smold.c`, `inc/signals.h`, `inc/spawn.h` | tables of gettys and minions, telnetd's pid, the shutdown asked for, the alarm | boot, then for ever: shut down when asked, run due jobs, arm the alarm, wait(), restart what ended |
| jobs for later | `later.h`, `inc/fs.h` | one file per job in LATER_DIR | a program asks to be run again, init reads, removes and runs |
| telnet daemon | `telnetd.c`, `inc/nonblockingio.h`, `inc/pts.h` | a table of sessions, each with a telnet state and two queues | poll(), accept, serve every session |
| ring buffer | `inc/ringbuf.h` | a fixed buffer, start and len | init, put, add, span, nomnom |
| TFTP client | `tftp.c` | transfer id, block, the packet to resend | get, put: lock step with timeouts |
| DHCP client | `dhcpc.c`, `dhcpc.h`, `inc/net.h` | xid, offer; the interface and the DNS file it leaves behind | discover, request, configure, ask to be run again |
| resolver | `resolv.c`, `inc/net.h`, `inc/time.h` | id of the query, servers | ask each server in turn, match replies |
| ping | `ping.c` | id, number of the request | ten requests, each waited for |
| clocks | `rtc.c`, `inc/date.h`, `sntp.c` | none of their own: two clocks and an alarm | copy one clock to the other, set an alarm and sleep, ask for the time |
| file tools | `files.c` | none of their own: names and files | cp, mv, cat, touch, ln, rm, ..., over several files, across file systems |
| keeper, dungeon | `keeper.c`, `dungeon.h` | pid, cmd and keptby files of detached processes | start, stop, restart |
| shell, line editor | `smolsh.c`, `inc/readln.h` | the bytes read and not yet used, filter state | a line at a time, split, redirect, run |
| flash tools | `mtd.c` | none of their own: the flash | erase, dump, write around bad blocks |
| disk images | `blkwak.c`, `inc/android_sparse_img.h` | position in the image and on the device | stream a sparse image to a device |
| startup | `startup.c`, `inc/cmdline.h` | none that lasts | mounts, modules, network, once |
| login | `getty.c`, `seat.h`, `inc/auth.h`, `su.c` | none that lasts | open a tty, ask, exec a shell |
| everything else | `ls.c`, `gpio.c`, `i2c.c`, `ip.c`, ... | none | a call into the kernel, printed |

How they interact: the kernel starts init, init runs startup, which may run
dhcpc; init then starts gettys, telnetd and minions and is the only one to
reap them. Programs talk back to init in two ways only: by signals (the
shutdown names) and through files (later.h; the dungeon's pid files, which
keeper and init both write). dhcpc's state file is what resolv reads. telnetd
gives each client a pty and a getty. Nothing here has threads; all concurrency
is between processes, signal handlers and the kernel.

What is hard, and so what the properties are about:

- init has one wait() for everything, and the tables it looks a pid up in are
  its only memory of what it started. Spawns fail, pids are reused, a child
  may end at once: no slot may be filled twice or silently lost.
- A job is a file other processes create, truncate, write and replace while
  init reads its directory. It must be run once, not before it is due, and
  not be forgotten though the only thing that brings init back is an alarm
  in whole seconds.
- Signals arrive between any two instructions.
- telnetd serves every session from one loop, with queues of limited size both
  ways, partial writes, and telnet commands cut anywhere. Nothing may be lost,
  repeated, leaked from one session to the next, or stuck.
- A ring buffer is right in the middle and wrong at the ends.
- TFTP, DHCP, DNS, ping and SNTP talk over a network that loses, repeats and
  reorders, and hear what is not for them.
- The shell reads lines that read() cuts up anywhere, chops them up in place
  while it still parses them, and must let go of every end of every pipe on
  each of its ways out.
- blkwak and the flash tools sort a stream into blocks, chunks and fills whose
  ends never fall together, around blocks that are bad.
- keeper and init learn of each other's processes from three files that are
  written one after the other.
- mv may have to copy, any call may fail, and others may be at the same files.
- Between two calls of hwclock or rtcwake, time goes on.

`PROJECT.json` lists these, line by line, under "hazards", with the properties
that cover each or the reason why none does.

## The modules

```
Smold  <- SmoldProps <- MCSmold                 init and jobs for later
                     <- SmoldProofs
Fifo   <- (INSTANCE) Ringbuf <- MCRingbuf       the ring implements a queue
                             <- RingbufProofs
Telnetd <- TelnetdProps <- MCTelnetd            telnetd over such queues
                        <- TelnetdProofs
Transfer <- (INSTANCE) TftpProps <- MCTftp      tftp implements a transfer
Tftp     <- TftpProps            <- TftpProofs
Dhcpc   <- DhcpcProps <- MCDhcpc                dhcpc, run again by init
                      <- DhcpcProofs

Quoting <- Readln, ParseCmd   Pipeline          the shell: lines, words, processes
Blkwak  Mtd  Files                              images, flash, files
Date <- Clock   Sntp  Resolv  Ping              clocks; one question, one answer
Dungeon  Login                                  keeper; getty, seat and su

Slots <- HostTools    instances of Pipeline, Resolv, Ping, Sntp, Files, Dungeon, Login
      <- DeviceTools  instances of Blkwak, Mtd, Clock
HostTools, DeviceTools <- Tools <- MCTools      all of these, one specification
HostTools, DeviceTools <- ToolsProofs <- BlkProofs <- RunProofs
                                                      (Tools)
```

### Smold: init

`pc` is where `prog_init` is; every step of it between two system calls that
others can notice is an action, named after what happens there (`BeginScan`,
`NotAJob`, `NotDue`, `Due`, `UnlinkJob`, `RunJob`, `SetAlarm`, `CallWait`,
`Reap`, ...). The tables are the code's: `getty_pid`, `minion_pid`,
`telnetd_pid`, `started`. `First` picks the lowest matching entry, as the loops
over the arrays do. `proc`, `owner` and `ask` are the kernel's and the other
processes' side: whether a pid runs, has ended, or is free, what it really
runs, and how far it is in `later_ask()`. `later` is LATER_DIR. `down`, `dropped`
and `again` are histories: why the last process of a slot was not replaced,
which jobs nobody will ask for again, and which pids were handed out while a
table still remembered them.

What is nondeterministic: any spawn may fail; any process may end at any time
with any status, and ends a job unasked for if it does so too early; a signal may
come at any time; orphans are adopted; `later_ask()` is two steps, the
open() that empties the file and the write() that fills it; readdir() may or
may not return a name created meanwhile. `StaleReuse` says whether the
kernel may hand out a pid init still remembers; `Races` whether time may pass
and signals may land in the windows between init's own steps. The safety runs
have `Races = TRUE`; its absence matters to liveness only, see below. The runs
about jobs and liveness have `StaleReuse = FALSE`; that about the tables does not.

init returns in two places. From its loop it does so only when nothing is left
to wait for, jobs included (`exited`). At boot it does so as soon as a getty
cannot be started (`bootfail`), whatever jobs the programs that startup left
running have asked for: `NoJobLeftBehind` names that case and leaves no other.

### Ringbuf and Fifo

`Fifo` is what a ring promises: a sequence with a limit, whose `last` records
the last operation with what went in and what came out. `Ringbuf` has the physical buffer, `start` and
`len`, and both copies of `ringbuf_add()`. The refinement maps the queue to
`Contents` and `last` to itself, so an implementation that gave out other
bytes than it holds would not refine it. `ringbuf_span()` and
`ringbuf_nomnom()` are one action, as their caller uses them.

### Telnetd

One action per phase of the loop: `Poll`, `Accept`, and `service`, once per
session. Between any two of them clients connect, send, read and leave,
shells say things, read and end. Bytes are the ones telnet tells apart (`IAC`,
`SB`, `SE`, one for WILL to DONT, `CR`, one for `\0` and `\n`) and one letter;
the opening negotiation is one symbol. `Drains` is what a write() may take: any
part of what it is offered if there is room at all. `sent`, `taken`, `heard`, `said`,
`got`, `seen` are histories, from which the properties are stated against
`Meaning`, a decoder of a whole stream written from the standard and not from
`strip_iac()`. `StripFrom` and `Escaped` are the two loops, as recursive functions of
the position.

Three reductions, all of them sound for these properties: a client sends and
a shell speaks only while telnetd is about to poll() (bytes that come later
are either read as if they had been there, or first seen by the next poll());
at most one connection waits (accept() takes one per turn); a session's
histories go with the session.

### Tftp and Transfer

`Transfer` is the promise: the copy is always a beginning of the file, and all
of it once success is reported. `Tftp` has both directions. What
`tftp_transact()` does with a packet is one action per outcome: `RecvData`,
`RecvLastData`, `RecvAck`, `RecvDup`, `RecvOackGet`, `RecvBadOack`, `RecvTooBig`,
`RecvOther`, ...; `Timeout` sends again, `GivesUp` is every way to fail.
`toServer` and `toClient` are sets of packets that are never removed when they
arrive, so the network loses (nobody looks), repeats, delays and reorders as it
likes. Only what is `Modulus - 1` blocks old or older is dropped (`Young`): a
16-bit number cannot protect against a packet that is 65535 blocks late, and
no network keeps one that long. Numbers in packets are unbounded, and compared
modulo `Modulus` wherever the code compares them. Servers are not in the
repository; they follow RFC 1350 and 2347, several may answer one request, and
they may be sloppy: blocks larger than agreed, options ignored, an OACK without
the block size.

Within a file of seven bytes every byte is different, so a block written
twice, left out, or taken from another place makes the copy another sequence.

### Dhcpc

One action per system call that matters: `send_discover`, `do_discover` (the
offer is read), `send_request`, `do_request` (the ACK is read), `WrongPacket`
(anything else is read: the try is over), `Timeout`, `SendFails`, `Configure`,
`GiveUp`. `rx` is the socket's buffer, a sequence, because what a try has not
read is what the next one gets. An offer without a subnet mask or a server id is
one that `do_discover` reads, and ends the try over (`Complete`). `flight` holds the
requests the servers have not answered. Servers, network, other clients and init are external:
a server keeps its offer to an xid, an answer may come late, twice, be a NAK or
get lost. Every run of dhcpc draws a new xid (random numbers are taken to be
distinct).

### Quoting, Readln and ParseCmd

`Readln` is `readln()` with the shell's filter: `Read` may bring any number of
bytes, `TakeLine`, `Full`, `TooLong` and `StopDropping` are the ways through its
loop, `Copy` folds `ShellChar` over a line as `_readln_copy()` does. read() may be
interrupted, fail or be at the end of the input (`Interrupted`, `ReadFails`,
`EndOfInput`); in the last two cases what is in the buffer is dropped. The comment at
`readln.h:154` calls what is left at the end the last line, the code does not hand it
out, and `ReadsLines` takes neither side: every terminated line comes out, and nothing
but a last, unterminated one after them. `ParseCmd` is
`parse_cmd()`, character by character, over the buffer `mem` that it overwrites;
a word is a position in it, ends at the next NUL, and what a command's words are
is read from `mem` only when the whole line was parsed. Both are held against
definitions of the whole input (`Expected`; `Reads`) that say which characters
are quoted or escaped (`Quoting`) and cut the text there, and know neither
buffers nor reading positions.

### Pipeline

`run_line()` with up to `MaxStages` stages. `held` is the kernel's table of open ends:
which process, or the shell, holds which end of which pipe, and the files it was
redirected to; a child gets copies of everything that is not close-on-exec.
Programs are told apart by when they end: in their own time (`own`), at the end of
their input (`cat`), when nobody reads (`yes`). Every call may fail.

### Blkwak

Images, raw and sparse, are sequences of chunks with headers that may be wrong.
`WalkSpan` is one buffer of a chunk, `PutBuffer` one buffer of the device sorted
into blocks of a fill and others, `PutBlocks` the chunk that grows or is begun.
Sizes are scaled down (`Word`, `Block`, `MaxBody`, `MaxBlks`). `Decoded` says what an
image means, byte for byte: an octet (`Octets`), or that it says nothing (`Hole`). The
images of the command lines may be any, as long as no chunk has a longer body than it
states (`BlkwakAssumption`).

### Mtd

`flash` is programmed byte by byte: one that is not erased may become garbage.
`NandWrite` with `AfterBad` is the loop that keeps the file's next block while it
looks for a good one. Which blocks are bad is part of the job; a device may not say
(`mute`), and may not store what it is given (`flaky`).

### Files

Names refer to inodes (`ino`), so that two names may be one file. cp, mv and cat
take a step per system call (`OpenSource`, `Truncate`, `SendSome`, `Sent`, `Unlink`),
any of which may fail half way; the tools of one call are one action each.
`Meddle` is somebody else, who grows, empties or creates files meanwhile.

### Resolv and Ping

Both call `smolutils_net_recv()`, whose deadline is `left` and whose filter
decides between `RecvJunk` or `RecvOther` and an answer. `queue` is the socket,
`refused` its pending error. A server's answers may be late, double, errors or
missing; `said` and `answered` remember what was really answered. In Resolv one
socket is connected to each server in turn, and keeps what came before.

### Date, Clock and Sntp

`Date` has the closed formulas of `date.h`, C's division included, and next to them
the calendar as it is usually told. In `Clock` the RTC keeps a date and goes on by
the calendar, the system's clock by counting; every call of hwclock and rtcwake
is an action, `Tick` may come between any two. Minutes, hours and days have fewer
seconds than real ones, so that 430 years fit TLC's integers; months and leap
years are real. `Time` wraps what a `time_t` does not hold. `Sntp` is the loop over
the pool's addresses; NTP's seconds wrap at `Wrap`. recvfrom() takes what comes: the
packet of a server asked before, or of anybody (`SomebodySends`: any time, or not a
packet of NTP's at all) from the moment the socket has a port (`HasPort`).

### Dungeon and Login

`Dungeon` is one name: init (which keeps a process for it), keeper and keeper -r,
each of whose steps is one file written or read, or one signal. Each may begin in
the middle of another's steps, for there is no lock. Any process may die and its pid
be handed out again, keeper may be killed between two steps, a write may fail, with or
without leaving an empty file. `spoilt` is a history of the two things that keeper -r
cannot see through: init and a keeper at it at the same time, and a file that was not
even opened. `Login` is getty, started again and again, and su: the code
asked for on the secure console, `seat_make()` name by name while devices come and
go (`Plug`), the shell, and `seat_take_away()`. That runs as the user, whose directory
it is: the listing may fail (`SeatNotRead`), and so may each unlinkat(), which is passed
over (`SeatDrop`), say because the user has changed the directory's mode. The user may
remove nodes, or move them into a directory of their own and back (`UserRemoves`,
`UserBrings`, `aside`), the latter also with a process that outlives the login. `cut`
is the history of all that leaves nodes, since the last listing.

## The runs

| run | instance | what it shows |
|---|---|---|
| `smold_table` | 2 gettys, telnetd, 1 minion, 3 pids that are reused, clock 0..1 | `TypeOK`; never two processes for one slot (`OneEach`); a slot that counts as up has its process or is being refilled, but for one whose pid was handed out again (`Supervised`); a telnetd that gave up stays so until its pid is (`LeftAloneTillReuse`) |
| `smold_jobs` | 1 job, 1 getty, 3 pids, clock 0..3 | no job init has passed over is without something that brings init back (`NoJobOverlooked`), init does not return before one, but for a getty that cannot be started at boot (`NoJobLeftBehind`), a renewal has exactly one holder (`OneRenewal`), jobs are removed only when due (`RemovedWhenDue`) |
| `smold_live` | 1 job, 1 getty, 2 pids, clock 0..2, no races | a job is taken, a getty comes back, a shutdown is obeyed |
| `smold_stale_pid` | as `smold_table`, smaller | finding: a telnetd that gave up is started again |
| `smold_lost_signal` | 1 getty, with races | finding: a shutdown is asked for and never happens |
| `ring_fifo` | 4 bytes, 2 letters, adds of up to 5 | the ring stays in its buffer and implements `Fifo` |
| `telnetd_bytes` | 1 session, 3 connections | `ShellInput`, `ClientOutput`: both streams arrive as meant, however they are cut up; `EndsWhenLost`: no session ends for another's events or for a full queue |
| `telnetd_stall` | 2 sessions, the first client never reads | `BytesGetThere`: what is said gets to the other end, and nobody waits for the one who does not read |
| `tftp` | 7 bytes, blocks of 1 to 3, numbers modulo 4, 3 tries, 2 servers, get and put | implements `Transfer` (`IsTransfer`); never more than a block ahead or behind (`LockStep`); a put is not doubled by duplicate ACKs (`NoApprentice`) |
| `dhcpc` | 1 server, 2 leases, 3 tries, 2 runs, 3 packets lost, 1 late, double or foreign, offers that lack something | the address in use was acknowledged (`AckedAddress`); with no such stray packet, dhcpc gives up only if every try had a packet lost, a refusal, or an offer that lacks something (`GaveUpForLoss`); it always asks to be run again (`AsksAgain`) |
| `dhcpc_out_of_step` | 2 servers, 6 tries, nothing lost or late | finding: dhcpc gives up without having waited once |
| `tools` | the modules of `MCTools`, see below | what each tool promises |

`tools` is one run for programs that share nothing: a behaviour of `Tools` chooses
one of them (`tool`) and its module's variables are `s1` to `s12` (`Slots`). Each
property speaks of its own. `HostTools` and `DeviceTools` say which variable is which,
`Tools` has the specification, and `MCTools` the values of its constants.

| module | instance | property |
|---|---|---|
| `Readln` | lines of up to 5 characters, and some that do not fit; a buffer of 5, room for 3 | `ReadsLines`: each terminated line comes out once, in order, as meant, however it was read |
| `ParseCmd` | all lines of 3 characters, many of 4 to 11; 3 words | `WordsAsWritten`: the commands are those the line spells out, and stay so |
| `Pipeline` | 1 to 3 stages of 8 kinds, with redirections that work or not | `NothingHeld` at the prompt; `PromptAgain` |
| `Blkwak` | words of 2, blocks of 4, buffers of 2 to 8, 17 images, a device of 8 to 12 | `ImageAndDevice`: success means what it says, both ways, and the rest is untouched |
| `Mtd` | 3 blocks of 4, all sets of bad ones, files of up to 13 | `FlashAsAsked`, `BadLeftAlone` |
| `Resolv`, `Ping` | 2 servers, 3 requests; 2 seconds each, 2 packets in the socket | `OwnAnswer`: what is reported was said in answer to this; `WaitsEnd`: both end |
| `Clock`, `Sntp` | ends of months, years and centuries from 1970 to 2400, 4 seconds; 2 addresses | `ClocksRight`: clocks agree up to the time it took, alarms are for the second asked for, sleep has an end, NTP's wrap is not mistaken, a server's packet, late or not, gives the time it meant |
| `Files` | 2 names, 4 inodes, files of 1 or 2 bytes | `NothingLost`: the source is there or whole at the destination, at every moment |
| `Dungeon` | 3 pids, 3 starts | `KeptLeftAlone`: keeper -r does not signal what init keeps, but for the two reasons in `spoilt` |
| `Login` | 2 names, 2 logins, 1 device that comes or goes | `HardwareGoes`: after a login whose listing of the seat failed at nothing, nothing is on it |

Why the bounds are enough. Three pids are one fewer than the four slots of the
small table, so pids run out, and come round, in every order, with an orphan or without;
the second getty distinguishes the getty that ended from its neighbour; one
second of clock decides both sides of the insta-death test. For jobs, three pids are the asker,
the getty and one to spare; three seconds hold a job due now, one due later,
and an alarm in between; `MaxAsk = 2` is one delay the scan outlives and one
it does not. A ring of four with adds of up to five hits empty, full, one
short, wrapped and refused at every `start`. `telnetd_bytes` lets the queue (4) and the socket (2) fill up and
gives the first client the bytes of a subnegotiation, the second those of an
option, a newline and a stray NUL, and the third's shell an IAC to escape, so
that the states they leave behind meet the next connection. `telnetd_stall`
fills the queue of the client that never reads. For `tftp`, blocks of one byte
make eight blocks of the seven bytes (the last is empty), so that numbers
modulo four come round twice; blocks of two and three end in a short block; the
default size lies between the smaller and the larger one a server may come up
with; three tries are a first, a middle and a last one. `dhcpc` has one loss for
each try, a lease that can be halved and one that cannot, and a second run that
may hear the answers to the first. The six tries of `dhcpc_out_of_step` stand
for the ten of the code: the pattern that uses up one goes on for ever. In `tools`,
a buffer of five is one longer than the longest line that is kept, and shorter
than some that must be thrown away over two reads; three characters hold every
pair of quote, escape, operator and blank with what it applies to, and the longer
lines the `>>` and `2>` cases. Two pipes are the fewest for which a stage has a
neighbour on either side. A device of two or three blocks, read in buffers of one
or two, has chunks that end with a buffer, within one, and grow over two; the
images cover each error the code looks for. Three flash blocks have every position
of one or two bad ones in a row. Two servers are the first and the last; two
seconds and two packets let junk come before, between and after. Three starts are
the one that is restarted, a second under the name, and the restart.

Deadlock is checked everywhere but in the runs of telnetd, tftp, dhcpc and the
tools: with no client and no connection left to make, poll() blocks for ever,
rightly so, and the others are programs that end.

Fairness. init: it is scheduled (`WF` of `prog_init`), a due alarm goes off
(`WF` of `AlarmFires`), time passes (`SF` of `Tick`, since init's own work
disables it for moments), wait() reports every dead child in turn (`SF` of `Reap`: the kernel walks a
list), and a program that has opened its job's file goes on to write it and
end. Nothing is assumed of gettys, signals or spawns. `Races = FALSE`
in `smold_live` is the assumption that a signal does not fall into the few
instructions between the test and the wait(); `smold_lost_signal` shows that
it is needed. telnetd: it is scheduled; a reading client (`Readers`) and a
shell keep reading. A client outside `Readers` need never do anything. dhcpc: it
is scheduled (its socket has a timeout, so it never waits for ever), and what is
under way arrives or is lost. The shell, resolv and ping are scheduled (`WF` of
`Step`), time passes for the latter two, and each program of a pipeline that can end
does (`WF` of `World`); nothing is assumed of what they print or of the network. tftp
has no liveness property: what it promises
is about what it wrote when it ends.

## What is proved

The proofs hold for any number of gettys, minions, jobs, names, devices, pids,
sessions, connections and servers, any files and bytes, any sizes, any bounds and
any values of `StaleReuse` and `Races`. The constants are only assumed to be what the code makes them: sizes and
counts are positive, there are finitely many servers, `HELLO` is not a byte.

| theorem | inductive invariant |
|---|---|
| `TypeCorrect` (`SmoldProofs`) | `TypeOK`, which also says that a job is at hand where one is used |
| `OneEachCorrect` | `TableInv`: every process of a slot is the one the slot's entry names, and during boot and restart there is none before it is started |
| `OneRenewalCorrect`, `RemovedWhenDueCorrect` | `RenewalInv`: `OneRenewal`, and what init is about to remove is what it found due |
| `NoJobOverlookedCorrect`, `NoJobLeftBehindCorrect` | `ScanInv`: what the scan has already decided until the alarm is armed, and that none waits when the loop is left (`NoneWaiting`); for the second also `BootKept`: before the loop, a start that fails is a getty's and nothing else has been started yet |
| `SupervisedCorrect`, `LeftAloneTillReuseCorrect` | `FreshInv`: but for pids in `again`, remembered pids are distinct and an entry's pid is its own process until it is reaped |
| `TypeCorrect`, `IsFifoCorrect` (`RingbufProofs`) | `TypeOK`; each operation of the ring maps to the one of `Fifo`, by lemmas on where `Contents` wraps |
| `TypeCorrect`, `EndsWhenLostCorrect`, `ShellInputCorrect`, `ClientOutputCorrect` (`TelnetdProofs`) | `IInv`: what poll() said of a lost end is still true until the session is served and is nothing for a free one; each queue, after what left it, is what the loop makes of all that was read so far |
| `TypeCorrect`, `LockStepCorrect`, `NoApprenticeCorrect`, `IsTransferCorrect` (`TftpProofs`) | `IInv`: every packet under way is one that was sent, and what it says is so; each server is at most one block ahead or behind, and no packet is a turn of the numbers old |
| `TypeCorrect`, `OfferedAndAcked`, `AckedAddressCorrect`, `GaveUpForLossCorrect` (`DhcpcProofs`) | `SafeInv`: every offer and ACK under way or in the socket was made by its server; for the last, `OnlyThisTry`: what is under way belongs to the present try, unless something was lost or strayed |
| `KeptLeftAloneCorrect` (`RunProofs`) | `DungeonInv`, while nothing is `spoilt`: where the files say that nobody keeps the name, or are about to, or keeper -r has read that they do, the pid in them is no process of init's; nor is one in a keeper's hand |
| `HardwareGoesCorrect` (`RunProofs`) | `LoginInv`, while nothing is `cut`: whoever has made no seat finds it empty, and what is still on it while it is taken away is in `todo` |
| `OwnAnswerCorrect` (`RunProofs`) | `ResolvInv`: every packet in the socket that counts as a reply is one that a server the query reached has sent; `PingInv`: every reply in the socket is to a request the host has answered, and what was printed is for earlier requests than the one at hand |
| `NothingHeldCorrect` (`RunProofs`) | `PipelineInv`: what the shell may have open at each step of `run_line()`, that only running programs hold anything else, and which stages may have a child |
| `NothingLostCorrect` (`RunProofs`) | `FilesInv`: while nobody else is at the files, how much of the source is at the destination, how much of each file cat has put out, which files have been changed |
| `BadLeftAloneCorrect` (`RunProofs`) | `MtdInv`: nandwrite stays on whole pages, and only the tools for NAND come near it |
| `FlashAsAskedCorrect` (`RunProofs`) | `FlashInv`, for each command at each of its steps: which bytes are erased, written, read or compared, and that all others are what they were |
| `ClocksRightCorrect` (`RunProofs`) | `ClockInv`: what hwclock has read is as far behind as the seconds that passed since, the RTC says the time that has gone by, the alarm is the one chosen; `NtpInv`: a packet that can be used is a stranger's, or one that a server sent after it was asked |
| `ImageAndDeviceCorrect` (`RunProofs`) | `BlkInv`: where the walk is in its image and what it has seen of it, that what lies behind it on the device agrees, or that the differences counted so far are right; and while an image is made, that its chunks, unpacked, are the part of the region that was read |
| `ToEpoch`, `FromEpoch` (`ToolsProofs`) | none: what `date.h` computes, against the calendar |

Why they need strengthening: `OneEach` alone is not inductive, because it does
not say that the entry being refilled is the one whose process is gone;
`NoJobOverlooked` is not, because the alarm remembers only the earliest job;
`Supervised` and `LeftAloneTillReuse` name what spoils them, a pid handed out while a
slot remembers it, and `FreshInv` says of all other pids what each property needs of its
own: so the counterexample of `smold_stale_pid` is the only kind there is.
`KeptLeftAlone` needs the order of the files: between `pid` and `keptby` init's process
stands in a file that says nobody keeps it, which nobody else can see as long as no
keeper is at it. That pids come round does no harm, since a process of init's is there
as long as its pid is, and the files say whose it is before anybody reads them; and
keepers racing each other only mix up pids of their own. `HardwareGoes` is about an end, and
what makes it true is that all the nodes there are were in the listing. `EndsWhenLost` is not
inductive, because service() acts on what poll() said before accept() gave the slot to
somebody else; a slot taken over must be known to have nothing said of it.
`ShellInput` is not, because it is about what is read in all and service() reads a part:
`IInv` remembers that strip_iac()'s state and output are those it would have after the
whole, `StripIacJoins` that it goes on from there, `CutTwice` that short writes before and
after a read add up to one. Only then `StripMeans` and `EscapeMeans` say once, for every stream,
that this is what the bytes mean. `IsTransfer` is not, because the client compares
numbers modulo `Modulus`: `SameNumber` says that two numbers less than a turn apart are
equal when their remainders are, and the invariant that no packet young enough to arrive is
further from the awaited one. `AckedAddress` follows from `OfferedAndAcked`, which holds for
any number of servers: the address in use is what its server offered to a run of dhcpc, and a
request of that run was acknowledged by some server; that these are one is only certain when
there is one. `GaveUpForLoss` says of the ways a try can fail that each takes a packet
lost, a refusal or an offer without a subnet mask or a server id (`BareOffer`).

The theorems of `RunProofs` are about `Tools` and so state the run's own properties;
`ToolInv` gives each tool its invariant, and `ToolNext` has one step for each. What it
takes for one tool is in `ToolsProofs` (those of `HostTools`, and the clocks), `BlkProofs`,
and for flash `RunProofs` itself. `OwnAnswer` is not inductive, because it says nothing of
packets that wait in a socket. `NothingHeld` says something only at the prompt.
`NothingLost` speaks of what has happened, and needs how far a copy is: between
`Truncate` and `Unlink` it is the source's inode that is still named, another than the
destination's, or else there would be nothing left to copy.

`BadLeftAlone` needs arithmetic: what nandwrite writes, padded to whole pages, is no more
than what was left of the block it was read for (`RoundUp`, `WithinWholePages`), so that
it also stays within the good block it is written to (`PaddedFits`, `AfterBadIsGood`,
`InBlock`). `FlashAsAsked` speaks of success only. For nandwrite, `Writing` says that the
first `Written` good bytes hold what was taken of the file, and that as many good bytes
(`Nth`) lie before the next place. A step keeps this because no good byte lies between
a bad block and the next good one (`AfterBadSkips`, `NthOverGap`), because what
is written then goes into good bytes only, one after the other (`NthOfRun`), and because
only the end of the file is padded (`PaddedIs`). flashcp's read-back is why its success
needs nothing of the medium. nanddump's local variable that says whether a block is bad
is right wherever it is used (`DumpKnows`).

`ImageAndDevice` is an argument in two halves. A walk goes over what the image says
(`Unpacked`) a part at a time, and no part ends where a chunk does: `SpanIs` says that
every part is the next piece of the image, `RepeatIs` that a fill is too if a buffer holds
whole words, `SpanWritten` and `SpanCompared` what becomes of the device and of the count.
The other way round, `PutBlocksIs` says that a run put into the last chunk or a new one adds
just this run to what the chunks say, whether it is a fill or not, `RunIs` that a run is
all one fill if its first block is (`SharedIs`), and `PutBufferIs` that the runs of a buffer are
the buffer. `FillsExact` is the one condition: with a buffer that does not hold whole words,
the property says nothing of images with fills, and the code is then wrong.

`ClocksRight` needs that `date.h` is right, which no run of a model checker shows for
every date: `ToEpoch` and `FromEpoch` say so, by the leap years that go by (`LeapsTo`) in
years, centuries and eras, and the days before each month, and `SecondAfter` that a second of the
calendar is one of the count. `ClockAssumption` takes the RTC's date to be one that a `time_t` holds
during the run, and a system clock that is copied to the RTC not to be before
1970; where it is not so, see the last of the behaviours below. Of sntp it says no more than
can be had: the clock is set to the time of the packet taken, anybody's, and if that was
a server's, to the time it meant.

What a loop computes for every input needs induction over the input. Where the theorems
need it (telnetd's two loops, and cat, whose output is that of the files before and this one),
the predicate is made a set of positions: a set of numbers has
a least element (`LeastNumber`), so one that has 0 and with each number the next has all
(`UpTo`), and likewise downwards (`DownTo`); `Recursion` and `DownRecursion` give the recursive functions
their values the same way.

Only model-checked: every liveness property (`JobTaken`, `GettyBack`,
`ShutdownObeyed`, `BytesGetThere`, `AsksAgain`, `PromptAgain`, `WaitsEnd`), which is
out of the prover's reach; and of the run `tools`, `TypeOK`, `ReadsLines` and
`WordsAsWritten`. The last two hold a loop against a reference that both fold over a
sequence or select from one (`Copy`, `Ascending`) with operators that are given
operators: nothing about such can be proved here.

## Findings

1. `smold_stale_pid`, `smold.c:517`: "telnetd gave up, leaving it alone", but
   its pid is remembered, and another child that is given that pid is later
   taken for telnetd; a getty lost this way is not restarted.
2. `smold_lost_signal`, `smold.c:499`: a shutdown signal between the test of
   `shutdown_cmd` and wait() is not seen until some child ends.
3. `dhcpc_out_of_step`, `dhcpc.c:462`: "the socket timeouts control how long this
   loop sleeps between tries", but a packet that is not the wanted one ends the
   try at once and leaves what follows it to the next. One offer too many puts
   all tries out of step: each finds an answer to the one before.

Behaviour that the models have, that no doc, comment or test speaks of, and that
limits what the properties say (the comment of `readln.h` is the exception):

- `smold.c:404`: a job asked for by hand between being read and being removed is
  removed unread. `RemovedWhenDue` leaves out jobs that are run by hand.
- `smold.c:470`: a getty that cannot be started at boot makes init return, though jobs
  have been asked for by then.
- dhcpc with two servers and one xid for all tries: a late ACK from one server is
  taken to confirm the other's offer. `AckedAddress` is stated for one.
- `dhcpc.c:406`: a lease without DNS servers leaves those of the lease before in the
  file that resolv reads.
- `inc/readln.h:156`: the last line of a script that lacks its newline is not run, though
  the comment two lines before calls it the last line.
- `sntp.c:57`: neither the sender of a packet nor what it answers is looked at; 48 bytes
  with a stratum and a time, from anybody, set the clock.
- `blkwak.c:268`: with `-b` not a multiple of four, a fill that takes more than one
  buffer is written, and verified, with a pattern that slips (`FillsExact`).
- `resolv.c:327`: an error a server sends late ends the turn of the next one.
- keeper -r may signal what init keeps if init starts its process while keeper is at the
  same name (`crossed`), or if a file could not even be opened when it did (`unsaid`).
- `mtd.c:283`: nanddump that starts in the middle of a bad block reads the rest of it.
- `getty.c:201`: a getty that cannot change the user returns without taking the seat
  away; `getty.c:57` and `110`: nor does it if the user has made the directory unreadable or
  not writable, which is not noticed. The next login on the seat that gets to its end does
  it. Nodes the user has moved into a directory of their own are never looked for.
- `rtc.c:323`: an alarm that goes off before the machine sleeps does not wake it;
  and where a `time_t` has 32 bits, an RTC past 2038 is counted from a wrapped time.

## Not modelled

Of the modelled parts: parsing of init's command line and its limits of
entries, `later_ask()`'s checks of its arguments, telnetd's wait for its shells and
its end when poll() fails, `nonblockingio_flush()`; tftp's command line, the
resolution of its host and the opening of its file; the layout of dhcpc's
packets and options, and a `later_ask()` of dhcpc's that fails, at which it does not look.

Of the tools: blkwak's info and rescan, mtdinfo, `ln -s`, cat from standard input, ls,
df, less and their like, which read and print; resolv's building of its query and the
memfd its caller reads; what the shell's builtins do themselves, and how `$PATH` is
searched; keeper -l and the files that take a process's output; getty's environment
and terminal; the parsing of options, numbers and sizes everywhere.

`startup` runs once, step after step, before there is anybody to interfere: it mounts,
loads modules, labels files and starts dhcpc, and a step that fails is printed and
passed over. The hardware, process and system tools and `ip` make one call into the
kernel and print what it says. The vendored LZ4 and SHA-256, the Makefiles and the
Python test harness are not this project's logic.
