# A TLA+ verification of nmsg

nmsg is a library (`nmsg/`) and a tool (`src/nmsgtool.c`) that read, transport
and write *NMSG payloads*: small protobuf messages that are packed together
into *containers*, which travel in UDP datagrams or are stored in files. This
directory holds TLA+ models of the parts where its correctness is hard to
test, the TLC runs that check them and the TLAPS proofs about them.
`PROJECT.json` lists components, runs, mutants, the map from definitions to
source lines, findings, hazards and theorems.

Paths below are relative to the repository; so `io.c` is `src/nmsg/io.c` in
`PROJECT.json`.

## 1. Inventory

| Component | State it keeps | Operations | Interacts with | What is hard | What makes it correct |
|---|---|---|---|---|---|
| **nmsg_io engine** (`nmsg/io.c`) | inputs, outputs, `stop`, totals; per output: object, mutex, counter, `last`; per thread: time, result, cursor | `nmsg_io_loop`, `io_thr_input`, `io_write`, `check_close_event`, `nmsg_io_destroy`, `nmsg_io_breakloop` | reads inputs, writes outputs, calls `close_fp` | one thread per input, shared outputs closed and rotated under a mutex, signals | no use of a closed output, no message skipped or leaked, everything stops and is released |
| **close callback and rotation** (`src/nmsgtool.c`, `src/kickfile.c`) | file names, the signal handler's globals | `io_close`, `kickfile_exec`, `kickfile_rotate`, `signal_handler` | called by engine threads with the output's mutex held | order of close, rename and reopen | a published file is complete |
| **container** (`nmsg/container.c`, `payload.c`) | payloads, crcs, `estsz`, sequence flag | init, add, serialize, deserialize | used by stream outputs | size *estimates* that decide about fullness and allocation | a serialized container fits its buffer and its datagram |
| **stream output** (`output_nmsg.c`, `output_frag.c`, `output.c`) | the open container, sequence number and id, settings | write, flush, write container, fragment, close | container, socket or file | buffering, failing sends, fragmentation | each message reported as written reaches exactly one container |
| **stream input** (`input_nmsg.c`, `input.c`) | the unpacked container and the index of the next payload, filters | read, read container from a socket, a file or XS | reassembly, sequence sources, read buffer | payloads handed out over several calls | exactly the wanted payloads, in order |
| **fragment reassembly** (`input_frag.c`) | tree of incomplete containers, `nfrags`, `lastgc` | attach, reassemble, collect | stream input | loss, repetition, reordering, expiry | never mixes containers, completes what is complete, expires the rest |
| **sequence sources** (`input_seqsrc.c`) | list of sources: next number, counts | get, update, destroy | stream input | numbers modulo 2^32, restarts, late datagrams | losses counted exactly when the order is kept |
| **read buffer and file reader** (`buf.c`, `read_file`, `do_read_file`) | `pos`, `end`, file offset | read, reset | stream input | `read()` may cut a container anywhere | never overruns, never loses its place |
| **null and callback inputs** (`input_nullnmsg.c`, `input_callback.c`) | as the stream input, fed from a caller's buffer | read | reassembly | | as the stream input |
| **IP reassembly** (`ipreasm.c`, `ipdg.c`) | entries with holes and fragments, time-out list, statistics | `reasm_ip_next`, add fragment, assemble, time out | pcap input | overlaps, repetitions, any order, time-outs | only complete, non-overlapping datagrams, none from fragments too far apart |
| **pcap input** (`pcap_input.c`, `input_pcap.c`) | handle, filter, reassembly state | open, set filter, read, read raw, close | IP reassembly, message modules | a filter on datagrams over a capture of frames | what is handed on passes the filter |
| **dnsqr module** (`base/dnsqr.c`, `base/ipreasm.c`) | hash table and FIFO list of queries, count, clock, a reassembly of its own | trim, insert, retrieve, remove with backward shift, merge, filters, field getters | raw pcap input, IP reassembly, messages | bounded table with wrapping probes, time-outs seen late, fragments kept and reassembled twice | a response gets the oldest query it answers, none is lost, the table keeps room, the end drains it |
| **presentation input and output** (`input_pres.c`, `output_pres.c`, `msgmod/transparent_payload.c`, `transparent_pres.c`, `strbuf.c`) | the reader's closure: half-built message, mode, string buffers | print fields, read a line, finalize | message modules | a closure that lives from message to message | what was printed comes back |
| **messages and modules** (`msgmod/*.c`, `msgmodset.c`, `dlmod.c`) | arrays of vendors and modules; per message: packed payload, unpacked object, `updated` flag, module's private data | load, look up; init, from payload, dup, get, set, write, compact, destroy | everything | two forms of one message, converted lazily; arrays that grow | what is written is what the program built; loaded modules are found |
| **base modules** (`base/*.c`) | tables of fields; ncap's decoded packet | load, getters, printers, packet to payload | messages, pcap input | getters over payloads that may not decode | |
| **rate limits** (`rate.c`, `brate.c`) | tokens, last tick | sleep | stream output, input | overflow of tick arithmetic | |
| **zlib, random numbers** (`zbuf.c`, `random.c`) | library state | | | | |
| **aliases, channels, sockets, XS** (`alias.c`, `chalias.c`, `xsio.c`, `sock.c`) | tables from configuration files | load, by key, by value, channel lookup | nmsgtool | growing arrays, bad lines | every name up to a bad line is usable |
| **nmsgtool set-up** (`src/process_args.c`, `src/io.c`, `src/daemon.c` ...) | arguments, user, working directory, descriptors, pidfile | open inputs and outputs in order, drop privileges, daemonize, rotate, exit | engine, aliases, modules | order of privileged steps, descriptors and names that are used again | outputs keep their settings, files are handed over complete, nothing runs as the wrong user |
| **libmy** | | | | vendored utilities | |

Section 7 says what is not modelled and why. The
hazards (each at its line, with the properties that would catch it) are in
`PROJECT.json`.

## 2. Modules

```
NmsgIo ───────────── MCIo        NmsgIoProofs
NmsgContainer ─┬─ NmsgOutput ─┐
               └─ NmsgInput ──┴─ NmsgStream ─── MCStream   NmsgStreamProofs
NmsgFile ─────────── MCFile      NmsgFileProofs
IpReasm ─┬─ NmsgPcap ─ MCPcap    IpReasmProofs ─ NmsgPcapProofs
         └─ DnsqrReasm ─┐
DnsqrTable ─────────────┴─ Dnsqr ─ MCDnsqr    IpReasmProofs ─ DnsqrProofs
                            └ implements DnsqrQueue
NmsgMsgmod ─ NmsgPres ─ NmsgBase ─ NmsgMessage ─ MCMessage   NmsgMessageProofs
NmsgAlias ── NmsgTool ── MCTool   NmsgToolProofs
```

**`NmsgIo`** is the engine with nmsgtool's callback. One TLA+ process per
`io_thr_input` thread, one for `main()` and one for the signal handler. Every
load, store and lock of state that two threads share is a step of its own:
`io_output->count_nmsg_payload_out += 1` is `CountLoad` then `CountStore`,
`nmsg_io_breakloop()` is `BreakLoad` then `BreakStore`. `pc[t]` names the
place in `io_thr_input`, `io_write` or `check_close_event`; while it is in
`WritePC` or `CheckPC` the thread holds the mutex of its output if there is a
`close_fp`. An output object is a number, so a rotation gives a new one and a
stale pointer can be told from a live one. Notes on fidelity:

* the signal handler runs on the main thread, so `main` does not advance while
  it is active; the handler can run before, during and after the loop;
* `nmsg_output_close()` frees and then sets the pointer to NULL: with the mutex
  held, both are one step, except that the lock-free reader in
  `nmsg_io_breakloop()` sees the pointer before it or after it;
* the code names the counter twice in the count test; `CheckCount` reads it
  once, which is what a compiler makes of it and loses nothing: both tests only
  look for a positive multiple of the limit;
* `close_fp` is nmsgtool's `io_close()`: the user pointer of an output decides
  whether an event closes it for good, rotates it or is ignored.

**`NmsgContainer`** has the sizes: `estsz`, what protobuf-c really needs, and
the full and overfull tests of `nmsg_container_add()`. Payloads are their
length, the size of their fixed fields, a kind and a tag (for the filters).
**`NmsgOutput`** is `nmsg_output_write()` down to the datagrams: buffering, the
second `nmsg_container_add()` after a full container was written, fragments,
sequence numbers, sends that fail, close and reopening. **`NmsgInput`** is
`_input_nmsg_read()`: sockets, fragments and their expiry, sequence sources,
filters. **`NmsgStream`** composes the two over the datagrams (`net`) and the
containers (`bodies`). A socket input picks any datagram, so that datagrams are lost, repeated
and reordered; with `fifo` only one behind the last it took, so that they are
lost and nothing else. A container is unpacked to the body it was made from; a crc is
identified with the number of the body, and pieces of different bodies glued
together are `Garbage`, which is never accepted as a container. Which of several
sends fail, and which sources of the list a walk finds too old, are subsequences
(`Picks`). `recv` and `delivered` are history: the containers unpacked, and what the
caller got with its place in which of them; `from` of a source is the container
its counts start at.

**`NmsgFile`** is the file reader byte position by byte position, over every
way `read()` may cut the file and over files that were cut off themselves.

**`IpReasm`** is `reasm_ip_next()`: one action per way a fragment can go
(`FragUnrecognized`, `FragDropped`, `FragRejected`, `FragStored`,
`FragCompletes`), each with the time-outs, the lookup and the statistics that
come with it. The sorted list of an entry's fragments is a set, because no two
have the same offset; `CurEnd` and `NextOffset` are the neighbours that the walk
over the list finds. `early` is a history field. **`NmsgPcap`** is
`nmsg_pcap_input_read()` down to it: a frame is something else, a datagram in one packet, a
fragment, or a fragment whose length field does not agree with it; the user's
filter is the set of IP versions it can match (which is what
`nmsg_pcap_input_setfilter()` finds out by compiling it) and its verdict on
each datagram. `Captured` is the wider filter given to libpcap, `Refilter` what
happens to a reassembled datagram. Timestamps do not go back, which the comment
at `ipreasm.c:98` requires of the caller.

**`DnsqrTable`** is the hash table and the list of `dnsqr.c`: `table[s]` holds a
query by its number, `linked` is the list (in the order of the numbers), `he` its
pointers into the table. `dnsqr_remove()` is taken apart into its rounds
(`ShiftMove`, `ShiftKeep`, `ShiftDone`); the real code holds the mutex over them, and
so nothing else moves meanwhile. **`DnsqrReasm`** is what `base/ipreasm.c` does
differently from `IpReasm`. **`Dnsqr`** is `dnsqr_pkt_to_payload()`: a call
trims (`Trim` or `NoTrim`), reads a frame in raw mode, and a datagram, whole or
reassembled, is a query (`ArriveQuery`), an answer (`ArriveAnswer`, then
`Merge`), unsolicited, or of another protocol (`ArriveSingle`). A datagram is a
record of what the parsers find in it; a key stands for the six or nine fields that
`dnsqr_eq()` compares, two keys may have the same hash. Filters, check sums, the
zeroed resolver address, `dnsqr_get_response()` and `dnsqr_get_delay()` are
operators. A timestamp may go back (`late` records it). **`DnsqrQueue`** is the
abstract specification: a set of waiting queries, from which a response takes the
oldest it answers, and room, time or the end takes the oldest of all. The
refinement maps `waiting` to the list, and the table, its hash function, the shifts
and the reassembly are invisible in it.

**`NmsgMsgmod`** loads a directory of plugins (`_nmsg_msgmodset_init()`, one step
for each file and plugin) and looks modules, vendors and fields up. **`NmsgPres`**
has printing and reading of presentation text; a text is a sequence of lines, a line
a key and words, and a word is what a value is printed as, with integers wrapped to
their width. **`NmsgBase`** has the field tables of the base modules and the
code of ncap, pkt and packet. **`NmsgMessage`** has the messages: any
sequence of calls on the handles of a program, among them duplicates as mirroring
makes them and payloads that do not decode. `view`, `source` and `spoiled` of a
message are history: what the program built, and the calls after which the library
does not promise it any more.

**`NmsgAlias`** is the alias tables, with the array as it grows. **`NmsgTool`** is
nmsgtool as a process: `process_args()` turns a command line into a script
(`Script`) of items in the order of the code, each an action that opens, forks or
changes the user; descriptors are numbers, of which the lowest free one is taken,
and a file has a name, an object and a history of who wrote to it. While the loop
runs, outputs are written, closed, renamed and reopened in separate steps.

`MCIo`, `MCStream`, `MCFile`, `MCPcap`, `MCDnsqr`, `MCMessage` and `MCTool` hold the
instances, `*Proofs` the theorems.

## 3. Runs

| Run | Checks | Shows |
|---|---|---|
| `io_engine` | `UsesOpenOutput`, `ClosedMeansStop`, `PublishedIsClosed`, `NothingSkipped`, `MessagesReleased`, `AllReclaimed`, `IntervalSlotsAdvance` | the engine is right in every interleaving of two inputs and a signal |
| `io_terminates` | `StopTerminates` | once `io->stop` is set everybody sees it and leaves, idle inputs too, and everything is closed |
| `stream` | `SerializeFits`, `FragmentsHoldOneMessage`, `AcceptedOnce`, `FragmentTree`, `ReassembledWhole`, `CompleteIsReassembled`, `FragmentsExpire`, `DropsExact`, `DeliveredFiltered`, `FileRoundTrip` | a stream over a bad network, or over a file |
| `file_reader` | `ReadFits`, `BytesInOrder`, `WholeContainers` | the reader keeps its place and its bounds |
| `pcap` | `FragmentsDisjoint`, `AssembledWhole`, `NoneOverdue`, `FilteredDelivery` | only whole and wanted datagrams come out of fragments in any order |
| `dnsqr` | `ProbeFindsAll`, `ListMatchesTable`, `RoomLeft`, `EofDrained`, `NoneTooOld`, `FieldsReadable`, `PairsOldestFirst`, `Drains` | queries and responses are paired as `DnsqrQueue` says, whatever the table goes through, and the end drains it |
| `message` | `ModulesFound`, `WrittenIsCurrent`, `TextReadsBack` | modules are found, messages are written as built, text can be read back |
| `tool` | `SettingsKept`, `HandedOver`, `RunsAsAsked`, `AliasesUsable` | nmsgtool does what its command line says, from set-up over rotations to the exit |

Four runs state what the repository says of itself, in its documentation or
its comments, and end in a counterexample:

* `io_count_race` (`CountHonoured`): the per-output counter is incremented
  without a lock (`io.c:580`) and tested for being a multiple of the limit, so
  with two inputs a limit can be missed.
* `io_signal` (`BreakloopTouchesLive`): `nmsg_io_breakloop()` stores into an
  output that a thread has closed between its test and its store (`io.c:121`).
* `stream_multiple` (`CompleteIsReassembled`): a container packed into an exact
  multiple of the fragment size announces one fragment too many
  (`output_frag.c:81`) and is never reassembled.
* `stream_bare` (`OutputIsReadable`): a large message that compresses into one
  datagram is sent without its header (`output_frag.c:65`), and the read of the
  input fails.
Four more configurations end in a counterexample and are kept beside those, to be
run by hand (`tlc -config MCIoIdle.cfg MCIo` and so on):

* `MCIoIdle.cfg` (`CountEventHasPayloads`): the same multiple is seen again by the
  next `nmsg_res_again`, and an empty file is rotated (`io.c:604`); the manual
  says that outputs are reopened "after count payloads have been processed".
* `MCPcapFilter.cfg` (`FilterHolds`): with a filter that can match IPv6, libpcap is
  asked for all of IPv6 (`pcap_input.c:288`), and only reassembled datagrams are
  filtered again (`ipdg.c:105`).
* `MCFileCut.cfg` (`LengthIsThere`): a file that ends within a length makes
  `assert(bytes_avail >= lenhdrsz)` fail (`input_nmsg.c:520`).
* `MCMessageMirror.cfg` (`WriteSynchronizes`): `_nmsg_message_dup()` does not copy the
  `updated` flag (`message.c:81`), so the duplicate of a changed message, as mirrored
  outputs get it, is written with its old payload; `private.h:350` says that an
  output synchronizes the two.

Every property of a passing run has a mutant in the module of the code it is
about: an operator with a plausible mistake (a missing lock, a lost reset, an
off-by-one) under which TLC finds the property violated.

### Bounds

* `MCIo`: two threads, two outputs, two messages per input, clock up to 3. All
  sharing in the engine is pairwise: two threads on one output with a stale
  time, a rotation under a waiting writer, a stop under a waiting writer.
  `MaxMessages = 2` with a limit of 2 lets the limit be reached by one thread or
  by both, before and after a stop. Reads that end in `nmsg_res_again` are not
  counted: an input is idle as long as it likes. Only where such a read rotates an
  output (its count stays a multiple of the limit) is it held back, once the output
  has had `MaxFiles = 3` files. The interval of 2 with a clock of 3 gives
  a slot boundary and a stale time on either side of it. Seven configurations
  cross stripe and mirror, close for good, rotate and ignore, with and without
  `close_fp`. Threads are symmetric. Liveness runs with one message per thread,
  idle reads without a bound, and no symmetry.
* `MCStream`: buffers of 512 bytes, the smallest the code allows, and real
  lengths around its thresholds. The network configurations differ in what they
  stress (see the comments of `MCConfigs`). Numbers are scaled: sequence
  numbers modulo 4 instead of 2^32, an implausible gap from 2 on, expiry after
  2 ticks. One id for all fragmented containers: the worst case of a random
  one.
* `MCFile`: a buffer of 12 + 12 bytes and containers up to 12 bytes, so that
  containers end at, before and past the middle, and every cut is met.

* `MCPcap`: four frames, timestamps up to 2 with a time-out of 1, so that an
  entry expires between two fragments of its datagram. The fragments of `d4`
  include ones that fit, overlap on either side, repeat, end the datagram at
  three places, are empty in the middle and at the end, or have an odd length;
  four of them are enough for a hole to be split and both halves filled. A
  datagram of 32 bytes and a header of 20 do not fit the buffer of 44. There is
  every filter on IP versions, a datagram the filter rejects and one that is not
  UDP.

* `MCDnsqr`: a table of four slots for two queries, three keys of which two hash to
  the last slot and one to the first, so that probes collide and wrap and a removal
  shifts over the end; four frames, of whole datagrams, fragments and a short
  one; timestamps 0 and 2 with a time-out of 1, so that time may jump past it or
  go back; captures of queries, of answers, of both, and with every filter on.
* `MCMessage`: directories that load the base modules, two versions of a module,
  one plugin twice, files that are skipped, do not open or hold a plugin that is
  refused; two messages, five calls, two texts. Payloads decode or do not; fields
  are required, optional, repeated and computed. Widths are 4 and 16 instead of 2^16 and
  2^32, so that both wraps are met.
* `MCTool`: seventeen command lines that between them use every kind of input and output,
  rotation with and without a command, daemon, other user, pidfile and errors, in
  six environments; ten descriptors, five rotated files. The largest unsigned number
  is 31, the first alias array has three entries; alias files have the largest key that
  can be used (28), one at which the size of the array wraps to 0 (29) and the largest
  of all (31).

`CHECK_DEADLOCK` stays on, but for `message`: the only final states are those of a
returned `main()`, a finished stream, an ended reader, a closed pcap input and an
exited nmsgtool. A program that uses messages may stop calling the library at any time,
and the model does when its calls are used up.

### Fairness

Two runs assume any. In `io_terminates` threads are scheduled, so `io_thr_input(t)`,
`main()` and a handler that has started are weakly fair. For a thread in
`nmsg_input_read()` that means that the read returns: a socket read gives up
after `NMSG_RBUF_TIMEOUT`. What it returns is not fair: an idle input says
`nmsg_res_again` for ever and is never made to end, so a thread leaves its loop
because it looks at `io->stop`, or not at all; the mutant of this run reads an idle
input again before it has looked. A blocking read of a pipe or of a
terminal is not covered by this assumption, and nmsgtool is then not stopped by
a signal before the next input arrives. Weak fairness is enough for the
mutexes, because a thread that sees `io->stop` finishes its iteration and takes
none again. Neither the clock nor the signal is fair.

In `dnsqr` a call that has begun goes on (`Work`), and once libpcap has said that there
are no more packets it says so again (`stop /\ ReadNone`): the input thread
calls `nmsg_input_read()` until it gets `nmsg_res_eof`. Nothing makes packets
arrive or the input end.

## 4. Proofs

All are checked by TLAPS for every value of the constants that satisfies the
named assumptions.

**`NmsgIoProofs`** (any finite set of threads, any number of outputs, any
configurations). `TypeCorrect`, `WritersAreSafe`, `ClosedOutputsStopTheLoop`,
`PublishedFilesAreComplete`, `NothingIsLeft` and `IntervalsAdvance` follow
from one inductive invariant, `IInv`: `TypeOK` and
`PhaseInv` (threads run only while `main` waits for them, and work on outputs
that exist), `LockInv` (a thread at a place inside a critical section holds the
mutex of its output, when there is a `close_fp`), `NoCloseInv` (without a
`close_fp` no thread is ever at a close and no output is NULL before the
destroy), `HoldInv` (what a holder knows of its output: open, or closed and to
be reopened), `ObjectInv` (the live object is the one the pointer refers to, and a published
one is an earlier one), `StopInv` (an output
that is NULL and not in the hands of a closing thread comes with `stop`),
`SlotInv` (`last` is a multiple of the interval, and no thread's time is ahead
of the clock) and
`EndInv` (where `nmsg_io_destroy()` has got to). `UsesOpenOutput` alone is not
inductive: that a writer's object is live needs that nobody else can be in a
critical section of the same output, and that an output which is NULL is
tested before it is used. `SlotInv` rests on the arithmetic of `RoundDown`,
proved from the division theorem.

Two more invariants follow the messages. `MsgInv`: a message object that exists is
the one its thread is writing or, in mirror mode, the original of it; or it was left
behind by a thread that met a closed output and is done. `MessagesAreReleased` follows,
and needs the places in between: that after a write only the original is left. `RouteInv`:
all messages of a thread before the current one have been accepted, in mirror mode by
every output, and the current one by the outputs before the one it is at.
`NoMessageSkipped` follows; without the part about the outputs already served it would not
be inductive, since a mirror writes to one output per round.

**`NmsgStreamProofs`** (buffer sizes from `NMSG_WBUFSZ_MIN` to
`NMSG_WBUFSZ_MAX`, payloads up to 2^28 - 1 bytes). `SizeInv` relates a
container's estimate to the bytes it is packed into: each add enlarges the
estimate by at least what protobuf-c needs for the payload's tag, length and
crc, so by induction over the steps the packed container with header and
sequence fields fits `estsz`, which is what `SerializationFitsItsBuffer` says.
`OnlyLargeMessagesFragment` needs `BodyInv` and the same arithmetic the other
way: the margin of 32 bytes in the full test covers all that an add can add to
a payload, so a container with two payloads is never overfull. `AcceptedAreHeld`
rests on `OrderInv`: what the containers written and the one being filled hold has
rising numbers, none above that of the last write, and what was reported as written is
in one of them; while a write is on its way (`Busy`) its message is newer than all of
those, which is why a second `nmsg_container_add()` cannot put it in twice.

The second half of `NmsgStreamProofs` is about the reader (any network, number of fragments,
lengths, intervals, filters and sequence space). Its invariants build on each other:

* `WireInv`: a datagram belongs to a container that was serialized, and the fragments of
  one agree on the last index, which is the number of fragments or one less. `TreeInv`: an
  entry has at least one piece, misses at least one, holds pieces of one container,
  and `nfrags` is the size of the tree. With `RecvInv` (only serialized containers are unpacked)
  this gives `TreeIsCounted`, `ReassemblyIsWhole` and `CompleteUnlessMultiple`: the one
  reason for a complete container to wait is a writer that announced a fragment too
  many. So `CompleteIsReassembled` holds as long as none did (`AnnouncedRight`,
  `CompleteWhenAnnouncedRight`), and the run `stream_multiple` shows that the
  condition is needed.
* `ClockInv`: at the last walk no entry was overdue, and while the tree has entries the
  last walk is less than an interval before the last read. Hence two intervals in
  `FragmentsAreFreed`. The invariant fails to be kept by a read that ends in an error,
  which does not walk the tree; such a read is the last one, and `FragmentsExpire`
  speaks of the others (`ended = "no"`).
* `PayloadInv` and `GivenInv`: the current container is the last one unpacked, some of its
  payloads have been taken, and what was delivered is what the filter
  wants of those taken so far. `DeliveryIsExact` follows.
* `ShapeInv` (datagrams are in the order of their containers and indices, and unless
  writes fail none is missing), `TakenInv` (every message in a container was reported as
  written), `FifoInv` (nothing to come belongs to a container that was unpacked, and
  the tree has no piece that was not read) and `FileInv` (of a datagram read, the
  container is unpacked or the tree holds the piece). At the end of a file an entry of
  the tree would be complete, which `CompleteWhenAnnouncedRight` excludes; hence
  `FileGivesBack`. A write that failed (`conf.fail`) has taken messages with it that were
  reported as buffered, and the announcement of a fragment too many leaves a container
  unread: both conditions are needed.
* `NumberInv`: numbers of containers of one sequence id differ as their places do, modulo
  `SeqSpace`. `SourceInv`: the list has each source once; the source of the last container
  unpacked expects the number that follows, and no other source is heard of again, because ids
  are used one after the other; received and lost add up. The step is `Distance`: the
  difference modulo `SeqSpace` is at most the true one, and equal to it for a gap of at most
  `SeqSpace`. A longer loss looks like a shorter one (`GapsShort` in
  `DropsAreExact`), but is never counted too high (`NoDropMadeUp`).

**`NmsgFileProofs`** (every buffer size from 6 bytes, every file whose
containers fit the buffer, every way to cut it). `IInv` is `TypeOK`, `PlaceInv`
(how far the parser is into the container that starts at `start`, and which
containers it has passed) and `LayoutInv` (how many bytes the buffer can hold
at each place: at most `BufSz` before a container's body is fetched, which is
why the rest of a body always fits in the other half). `BufferNeverOverruns`,
`ParserKeepsItsPlace` and `CompleteContainersAreRead` follow.

**`IpReasmProofs`** is what the two copies of the reassembly have in common (fragments of any
size, in any order). `EntryInv` says of an entry that its fragments are finitely
many and disjoint and, while it is active, below its length, that
`holes` is the number of `Starts` (the first missing byte of each hole), and
that some fragment ends where the datagram ends once that is known. The last
part is what makes the count inductive: only because the end is taken can no
other fragment fit on the right without having a right neighbour. An empty last
fragment that comes early breaks it, and from then on `holes` is only at least
the number of holes (`early`). `HolesMove` is the heart: a stored fragment takes
away the hole that starts where it starts, if one does, and leaves one behind
itself unless something follows there. `EntryStep` is the step of the induction, and
`NoHoleNoGap` shows that the least byte no fragment covers would start a hole.

**`NmsgPcapProofs`** (datagrams of any length, any number of fragments; any time-out). `IInv` is
`EntryInv` for every entry; `FragmentsNeverOverlap`, `HolesAreCounted` and
`DatagramsAreWhole` follow. `FilterIsApplied` is
inductive by itself. `TimeInv` says that the list is in the order of the time-outs, all
between the time of the last fragment and that plus the time allowed, with one
entry for a datagram: this is why `process_timeouts()` may stop at the first entry that
is not overdue (`NoEntryOverdue`). `TypeCorrect` includes that the statistics of
waiting datagrams count the list.

**`DnsqrProofs`** (tables of any size, any hash function, any datagrams, frames and
filters). `TableInv` has six parts: `Shape` (types), `Links` (list and table point
at each other), `Counted`, `Gap` (while a removal shifts, the slots from the hole to
the scan are full), `Paths` (no gap between the slot a query hashes to and the one it
is in, but for the hole, and only for queries beyond the scan) and `Order` (queries
of one natural slot lie along the probe in the order they came). `ProbeFindsAll`
is `Paths` when nothing is shifted, and would not be inductive without `Gap`, which
says that a shift which ends at an empty slot has looked at every query the hole
could hide. `Order` is what makes the first match of a probe the oldest, and so
the refinement. The arithmetic is about `Dist`, the distance along the probe:
`MovesUpDist` shows that the test of `dnsqr_remove()` on three slots asks whether the
hole is nearer to the natural slot than the query is. `CallInv` ties the count to
the place in a call: one query may be too many, and then only until the next call
trims it. `Findable`, `ListAndTable`, `RoomForOne` and `Drained` follow, and
`Refines` shows that every step is a step of `DnsqrQueue` or changes none of its
variables. `AgeInv` is about time, as long as it does not go back: queries are in
the order of their times. A fragmented query has the time of its first fragment, and
is inserted when the last one arrives; the order holds because dnsqr's reassembly has
a time-out of 0, so that all fragments of an entry have the time of now.
`NoQueryTooOld` and `DelaysAreDelays` follow.

`PiecesInv` is about the fragments themselves, whatever the time: every entry is `Sound`
(`EntryInv`, and a last fragment that is stored ends where the datagram does), and what
has been taken out of the reassembly, waits with a response for the shifting to end, or is stored
in a message is `Whole`: disjoint fragments without a hole below their last one. `dnsqr_get_response()`
reassembles these once more, in the order in which they were stored. `Part` says what holds when the first
n have been added, and `PartStep` that the next one is accepted: it finds its left neighbour in place
and nothing on its right, so none is rejected, and after all of them
(`ReaddAll`) no hole is left (`ReaddWhole`). With `DelaysAreDelays` this is `FieldsReadable`
(`FieldsAreReadable`). An empty last fragment is not stored, and a response in a single
fragment is never added again: `FieldsReadable` excludes both.

**`NmsgMessageProofs`** (any modules, payloads, settings and handles, any number of
calls). `MsgInv` says of each message that is not spoiled: the object, if there is
one, is what the program built (`ObjectCurrent`); the payload is, unless the object
is newer (`PayloadCurrent`); the source is the one that was set (`SourceCurrent`).
`WrittenIsCurrent` alone says nothing of messages not yet written, and is not
inductive.

`ModulesFound` is proved for every directory of plugins (`Found`). `ModInv` says that the set
and its arrays are indexed by numbers (`LoadTypes`, `Shape`), that what stands at a place is a plugin
loaded under these ids (`Placed`), and that the plugin loaded last for its ids stands
there alone, with its table sorted (`LatestFound`). `Placed` is not part of the property: a
vendor's name is looked up in the plugins found on the way, and they must be ones of that
vendor. `InsertIs` says that loading a plugin changes the place of its ids and no other, however
the arrays have grown. For the fields, `Rank` is shown to be a bijection from the fields of a
plugin to the places of its sorted table. `PluginAssumption` requires that a plugin does not
use a field name twice. A vendor called "ISC" is exempt (section 6).

Of `TextReadsBack` two parts are proved. `WordsReadBack`: what is printed of a value of one line is
read, and what is read prints as the same, for every type and all widths (`Short`, `Word`); the
upper half of a 16-bit value is lost before it is printed, and `SignedIs` shows that
a number printed with its sign wraps to where it came from. `MessagesStartFresh`: between two
messages no buffer of a multiline string has a line in it, whatever lines have been read.
`FreshInv` says that a line in a buffer belongs to the message being read: its string is the
one that is open, or is already set in the message, so that the finalizer, which looks at the message only,
finds the buffer (`FinalFresh`). This needs that a key names a field of the plugin
(`KeyedField`, with `AllTabled`) and that a value of one line never has the name of a multiline string.

**`NmsgToolProofs`** (any command line, any environment, files, aliases and descriptors;
the number of rotations is the bound of the model). Four invariants, each with its own
strengthening:

* `RunsAsAsked`: the script is shown to be in the order of eight stages: interfaces and the
  pidfile first, then the change of the user, then all other files and sockets, then the fork,
  the pid and the signals. `AskedInv` says how far it has been carried out (`Planned`): from
  the stages of the items left one can tell whether the user has been changed and whether
  the pid is still to be written, by which of the two processes. `RunsAsAsked` is not inductive,
  because nothing in it keeps an output from being opened before the change.
* `AliasesUsable`: `AliasInitIs` shows by induction over the lines of a file that the array,
  whatever number of times it has doubled, holds for each key the name of the last line that
  has it (`Stored`), and that reading goes on as long as the lines are good. Each growth
  is `GrownIs`: for a key of at most `UIntMax - 3` neither the key plus one, nor the doubled
  index, nor the number of elements asked for wraps to something too small; that the
  doubled index, once wrapped, is not `UIntMax` itself needs that `UIntMax` is odd
  (`AliasAssumption`). `AliasInv` says that the tables stay what was read. The three largest
  keys are exempt, in the property as in the code (section 6).
* `SettingsKept`: a string is unescaped character by character, and the proof is an induction
  over its length (`Unescaped` is a recursive function); `IdsInv` adds that the names of
  operators and groups were resolved before any output was opened.
* `HandedOver`: `FilesInv` relates names, open descriptors and files that were closed.
  A name has the time of some rotation, and no two outputs the same (`NameInv`, `StampInv`); a
  file with a name is open at the output of that time and nowhere else (`OpenInv`); the
  file of an open output is there under its temporary name (`TmpInv`); and a file handed over
  has its final name and is closed (`FateInv`). While the process is not a daemon and does not
  take its standard input twice (`Undisturbed`), a descriptor has one holder (`HoldInv`), so
  that a file that can still be written to holds only what is its output's (`OwnInv`), and so
  does one that was handed over (`WroteInv`). `HandedOver` speaks of files that are
  finished, and says nothing of those still open.

The exemptions are the code's: a daemon and a second input on "-" may get descriptors 0 to 2
for a file (section 6), and an `--endline` that ends in a backslash is not what was
given. `EnvAssumption` and `ToolAssumption` give the types of files and command lines; a
process has at least the descriptors 0 to 2 (`MaxFd`).

Induction over data is possible where the definition is a recursive function: the least
number at which a statement fails (`LeastNat`, from the well-foundedness of the natural numbers)
has a predecessor at which it holds. `Recursion` in `NmsgToolProofs` and in `DnsqrProofs` gives the
defining equation of such a function from the way it is built.

Checked by TLC only:

* liveness (`StopTerminates`, `Drains`): the prover does not handle fairness;
* `TextReadsBack`: what a message prints is a concatenation over its fields, each a
  concatenation over its values, and reading it back a fold over the lines with a
  closure; the argument is an induction over both at once. Its parts for one value and
  for the change from one message to the next are proved (`WordsReadBack`, `MessagesStartFresh`).

## 5. Abstractions

* Payload contents, crcs, random numbers and zlib are constants or choices: a
  compressed length is any member of `ZLens`, a fragment id any of `Ids`.
* Allocation failures and zlib errors are left out, as is everything that only
  logs. A `size_t` is wide enough for the sizes multiplied in it (64 bits).
* In `NmsgStream` a file is the sequence of frames that `NmsgFile` delivers;
  one sender address is modelled.
* A file's containers are assumed to fit the reader's buffer. Every container
  the library writes uncompressed does; zlib could in principle make an
  incompressible one longer than the buffer it was limited to.
* The header kept from a first fragment has the same size in every datagram
  (`HdrSz`). A datagram that consists of one empty IPv6 fragment is left out
  (`FrameOk`): it would leave `assemble()` without a fragment to take the header
  from.
* A socket output with several fragments keeps sending when one send fails, and
  the result of the last one is what the caller sees (`output_frag.c:108`); the
  model does the same.

* In `Dnsqr` one thread calls the module, as one engine thread reads a pcap input; its
  mutex is not a step of its own. Times are whole seconds. The header of a DNS message
  is its `rd` bit, whether it is a response, and one of the four rcodes that
  `dnsqr_eq()` treats differently.
* A fragment of one datagram does not fit another key: an id names one datagram.
* In `NmsgMessage` a payload is the message it decodes to, or `Garbage`; the crc and
  the order of bytes are left out. A dangling pointer (`stale`) is recorded and
  what it yields is not a value. An rdata that wdns cannot print fails like one without a
  type. The header line that the output prints before a message is not part of a text,
  because the presentation input does not know it; a text is `readable` when it has only what
  the reader implements.
* In `NmsgTool` a command line is what libmy's `argv_process()` found, a port range
  what `getsock()` parsed; sockets are opened or fail as a whole. When an output is
  closed is free, which includes every order that `NmsgIo` allows.

## 6. Behaviour worth knowing

Met while modelling, without a line of the repository that contradicts it:

* in mirror mode only the output under the cursor of a thread is checked for
  its limits after a message (`io.c:730`);
* an output opened by a rotation after `nmsg_io_breakloop()` does not have its
  stop flag set; only XS outputs look at that flag, and those are not rotated;
* a message that meets a closed output is not destroyed (`io.c:563`): a thread
  leaks at most one, on its way out (`MessagesReleased` bounds it);
* a late or repeated container resets its sequence source, and the next one in
  order counts as lost (`input_seqsrc.c:99`);
* `nmsg.h:227` says that units stored on disk do not contain fragments, while
  a file output fragments a large message like a socket does, and the file
  input reassembles it;
* a version 1 container in a file keeps the flags of the container before it
  (`input_nmsg.c:485`);
* entries of the IP reassembly time out only when the next fragment arrives, and
  one repeated fragment invalidates its datagram (`ipreasm.c:350`);
* an empty last fragment that comes before the fragment to its left leaves the
  hole count one too high for good: the datagram is never assembled (`HoleCount`
  allows for it); an accepted empty fragment is not freed (`ipreasm.c:384`);
* with a fragment header behind other extension headers, `frag_from_ipv6()` is
  given its offset and rewrites the next-header field of the IPv6 header rather
  than that of the header before it (`ipreasm.c:604`);
* `_output_pres_write()` returns success whatever the module's formatting
  returned;
* dnsqr never sets the time-out of its reassembly, which is 0: fragments captured in
  different seconds are not joined (`dnsqr.c:629`);
* a call of dnsqr trims one query before it reads the packet that moves its clock: a
  response that comes after the time-out may still be paired (`dnsqr.c:2296`);
* `dnsqr_get_response()` fails for a response of one IPv6 fragment and for one whose
  last fragment was empty (`dnsqr.c:1233`);
* a filter on the RD bit does not look at fragmented queries (`dnsqr.c:1840`), and a list of
  names to include filters nothing unless there is one to exclude (`dnsqr.c:2031`);
* `ncap_msg_load()` asserts on a payload that does not decode or has an unknown type
  (`ncap.c:192`), and does not look at the result of `nmsg_ipdg_parse()` (`ncap.c:167`), so the
  model takes every datagram to parse; `ncap_get_srcip()` of a legacy message without addresses succeeds without a
  value (`ncap.c:253`); the private data points into a payload that
  `nmsg_message_set_field()` frees;
* `nmsg_message_set_field()` with an address of the wrong length fails but leaves the
  field present (`transparent_message.c:329`);
* a module file that does not open after others did leaves a set without the rest
  (`msgmodset.c:97`), and a plugin loaded twice loses its fields (`msgmod.c:124`);
* a key that no field has is taken for the last field (`transparent_pres.c:73`);
  the presentation of `bool` and `bytes` cannot be read back;
* one bad line, even an empty one, in the operator aliases keeps the group aliases from being
  loaded, and the program then fails when a group is named (`alias.c:88`); a
  key of 0 cannot be looked up;
* at the three largest keys `alias_resize()` wraps: for `UINT_MAX` it does not grow the
  array, for `UINT_MAX - 1` it makes an array of one entry, and the name is stored outside
  (`alias.c:168`); for `UINT_MAX - 2` it asks `realloc()` for 0 bytes, which frees the array and
  returns NULL, and frees it again (`alias.c:176`). All three are a crash in `NmsgAlias`,
  and `AliasesUsable` exempts them;
* a daemon changes to `/` after it has opened its files: a relative file that is rotated
  cannot be renamed, and the command is not run (`daemon.c:56`, `kickfile.c:72`);
  it has closed descriptors 0 to 2, so a rotated file may get one of them and
  what is printed there;
* a rename that fails removes the file (`kickfile.c:74`), and an error after outputs have been
  opened leaves `.part` files;
* `xs_init()` is called before the fork of `daemonize()`, and the threads of libxs
  do not survive that (`process_args.c:252`);
* two inputs on "-" are both given descriptor 0 and both close it: the second close
  takes whatever was opened there since, a rotated file among them (`src/rwfile.c:33`);
* an `--endline` that ends in a backslash loses the NUL at its end, which is taken for the
  character escaped (`src/unescape.c:52`);
* a plugin whose vendor is called "ISC", under another number, is found by its number only:
  the name means the vendor compiled in (`msgmod/lookup.c:63`);
* the outputs of a port range share one rate limit, which is not protected by a lock
  (`src/io.c:178`).

## 7. Not modelled, and the plan

Worth adding next, most important first:

1. Settings of an output in use (`nmsg_output_set_buffered()` with payloads
   buffered), partial writes of files, `_input_nmsg_loop()`, the I/O of XS sockets.
2. An abstract specification of reassembly (the set of bytes received of each
   datagram), with `IpReasm` shown to implement it, and the same for the
   stream's fragments.
3. A theorem for `TextReadsBack`, from `WordsReadBack` and `MessagesStartFresh`; for arbitrary
   modules it needs that no multiline string is repeated and that no other module has the
   names of the one that is read.

Left out, and why:

* **null and callback inputs**: the callback input passes on what a user's function
  returns; the null input parses a caller's buffer with the functions
  that `NmsgInput` models. nmsgtool uses neither.
* **rate limits** (`rate.c`, `brate.c`): they sleep for a computed time, and nothing else
  depends on it.
* **`zbuf.c`, `random.c`**: calls into zlib and the system's entropy.
* **`sock.c` and the rest of `xsio.c`**: conversions of addresses and calls into libraries.
* **printers of the base modules** beyond whether they fail or print: their text
  is layout.
* **libmy**: vendored utilities (argument parsing, crc, hash functions, trees).
* **generated protobuf code**.
