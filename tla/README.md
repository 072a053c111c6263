# A TLA+ verification project for QoSRTP

QoSRTP is a C++ library for RTP media sessions over UDP. Besides the RTP and RTCP basics it recovers
lost packets: by retransmission (RTX, requested with NACK) and by forward error correction (ULP FEC).
This directory holds TLA+ models of its protocol logic, TLC configurations that check them on small
instances, and TLAPS proofs that hold for every value of the constants. Paths below are relative to the
repository's `src/` directory; `rtp_rtcp/x.cc` is `src/rtp_rtcp/x.cc`.

## 1. Inventory of the system

| Component | State | Operations | Hard behaviour |
|---|---|---|---|
| `utils/seq_comparison.h` | none | order of 16-bit sequence numbers, distance, range | wrap of the counter, half-range ambiguity |
| `RtpReceiver`, `RtpReceiverPacketCache` (`rtp_rtcp/rtp_receiver.*`) | ordered list of cached packets with time-outs, ordered loss list with NACK times, last number called back, extended first/highest number, received count | `OnRtpPacket` = `PutPacket`, `SupplementLossSeqs`, statistics, `GetLossPacketSeqsForNack`, `GetPackets`; `ReconstructRtpFromRtx` | late, repeated, reordered packets; wrap; time-out against retransmission |
| `RtpSender`, `RtpSenderPacketCache` (`rtp_rtcp/rtp_sender.*`) | last number, cache of copies, rtx counter | `SendRtp`, `SendRtx`, `ConstructRtx` | two threads; cache window over wraps; NACKs for old or unknown packets |
| `RtcpSender`, `RtcpReceiver` (`rtp_rtcp/rtcp_*`) | last report block, has-sent flags, BYE flags; sender information of the peer | `ScheduleSendRtcp` (a delayed task that pushes itself again), `SendNack`, `SendBye`, `OnRtcpPacket` with one parser per packet type | NACK and BYE against the schedule, which reads the clock before it takes the lock; tasks that run late |
| `MediaSession` (`session/media_session.*`) | the four objects above, `initialized_`, a callback to the user | `Initialize`, `SendRtpPacket`, `SendBye`, the callbacks between sender and receiver parts | order of construction against packets already arriving; failure half-way |
| `QosrtpSessionImpl`, `SessionStates` (`session/`) | threads, network, router, one `MediaSession` per configuration; global BYE counts | `StartSession`, `SendRtpPacket`, destruction; checks of a configuration | start-up and teardown across four threads |
| `RtpRtcpRouter`, `RtpRtcpPacketDemuxer`, `RtpRtcpTranceiverImpl` (`rtp_rtcp/`) | lists of destinations | add and remove destinations, split and route packets, build compound packets | a mutex held during the callbacks |
| `Thread` (`utils/thread.*`) | task queue, delayed tasks, `runing_`, `should_stop_` | `Start`, `Stop`, `PushTask`, the loop | lost wake-ups, stop against push, start against push |
| `NetworkIoScheduler`, `UdpNetworkTranceiver` (`network/`) | handlers, wake-up event, socket event | `Wait`, `WaitUp`, `OnEvent`, `Send` | events reset while data arrives |
| `UlpFecEncoder`, `UlpFecDecoder` (`rtp_rtcp/ulp_fec.*`), mask tables | the encoder none; the decoder a list of cached media and FEC packets and the last number given out | `Encode` (masks, FEC packets), `Decode` (insert, recover, expire, output), `Flush` | masks of two widths put together from tables and patterns; pointers from FEC packets into a cache that expires; batches |
| `Nack` (`rtp_rtcp/nack.*`) | the list and its items | pack, unpack | the edge of the mask, lists that are not sorted |
| packet formats (`rtp_rtcp/*.cc`) | none | `LoadPacket`, `StorePacket` of each type, the loop of `RtcpReceiver::Parse` | writer and reader are separate code; optional parts, padding to words, texts of any length |
| log, buffers, time, addresses (`utils/`) | none of protocol interest | | |

How they interact: the user calls `QosrtpSession::SendRtpPacket`, which runs on the signaling thread and ends in
`MediaSession::SendRtpPacket` and `RtpSender::SendRtp`; the packet goes through `RtpRtcpTranceiverImpl`
to the network thread and the socket. Arriving data is read on the network thread, split by the
demuxer and routed on the worker thread to `RtpReceiver::OnRtpPacket` or `RtcpReceiver::OnRtcpPacket`.
The receiver calls back `NotifyLossPacketSeqsForNack`, which becomes a NACK of `RtcpSender`; at the other end
`ParseNacks` calls back `NotifyNackReceived`, which becomes `RtpSender::SendRtx`.

What makes each component correct, in a line: the comparison of sequence numbers is the order of the
stream; the receiver delivers in order, once, and gives a gap up only when its time is over; its loss list
and NACKs name exactly what is missing; the sender's cache answers every NACK for a recent packet with
that packet and not one of another cycle; retransmission recovers what was lost; the thread loses no task
and no wake-up; the network thread reads what arrives; reports are sent at their pace until a BYE, and
count the loss of their interval; a NACK packet says what it was given; configurations with equal ssrcs are
refused; no callback reaches an object that is gone, and a start that fails leaves nothing running; what one
side writes the other reads; a FEC packet recovers a packet when it is the only one missing, and the decoder neither drops nor
repeats nor reorders what it is given.

## 2. Modules

| Module | Models | Uses |
|---|---|---|
| `SeqNum` | `utils/seq_comparison.h`, with the modulus `SeqSpace` as a parameter | |
| `ListOps` | the elements of a list whose indexes are in a set, in order | |
| `SeqNumProofs` | lemmas: the comparison is the order of the stream; induction, iteration, insertion and `Picked` | `SeqNum`, `ListOps` |
| `InOrderDelivery` | abstract: what the receive side promises its user | |
| `RtpReceiver` | `RtpReceiver` with its cache | `SeqNum`, `ListOps`, `InOrderDelivery` |
| `RtpReceiverProofs` | order, completeness and refinement of the receiver; the counters of its reports, waiting out gaps, the exact loss list | `RtpReceiver`, `SeqNumProofs` |
| `RtpSender` | `RtpSender` with its cache | `SeqNum`, `ListOps` |
| `RtpSenderProofs` | the cache is the configured window; what NACKs are answered with | `RtpSender`, `SeqNumProofs` |
| `RtxSession` | sender, receiver and network composed | `RtpSender`, `RtpReceiver` |
| `RtxSessionProofs` | the ends of a session are the specified ones; NACKs are justified and retransmission keeps its pace | `RtxSession`, `RtpReceiverProofs`, `RtpSenderProofs` |
| `TaskThread` | `Thread`; also the promise the network thread is held to | |
| `TaskThreadProofs` | tasks keep their order and know their thread | `TaskThread` |
| `NetworkIoScheduler` | `NetworkIoScheduler`, the reading of `UdpNetworkTranceiver` | |
| `NetworkThread` | `Thread` with the scheduler as its wait task | `TaskThread`, `NetworkIoScheduler` |
| `RtcpSession` | `RtcpSender`, BYE of `RtcpReceiver`, `MediaSession` in between | |
| `RtcpSessionProofs` | one schedule, bounded silence, pace, silence after a BYE, fractions since the last report; packing a NACK loses nothing and wastes no item | `RtcpSession`, `NackPacking`, `SeqNumProofs` |
| `NackPacking` | `Nack::Pack`, `Nack::Unpack` | `SeqNum` |
| `FecMaskTables` | the tables of `fec_private_tables_*.cc`, as sets of bits | |
| `UlpFecEncoder` | `UlpFecEncoder`: masks, FEC packets | `FecMaskTables` |
| `UlpFecDecoder` | `UlpFecDecoder`: its cache, `Decode`, `Flush` | `SeqNum`, `ListOps` |
| `FecSession` | blocks encoded, sent over a lossy network, decoded | `UlpFecEncoder`, `UlpFecDecoder` |
| `FecSessionProofs` | what leaves the decoder: originals, in order, each once, nothing dropped, no dangling pointer followed | `FecSession`, `SeqNumProofs` |
| `SessionLifecycle` | `QosrtpSessionImpl`, `MediaSession`, router and demuxer on their three threads, a packet's way to the user | `ListOps` |
| `SessionLifecycleProofs` | no call reaches an object that is gone; a start is all or nothing; packets are given in order | `SessionLifecycle`, `SeqNumProofs` |
| `RtcpPacketFormat` | the octets of the RTCP packets, written and read | |
| `RtpPacketFormat` | the octets of an RTP packet, its cached copy | |
| `PacketExchange` | a packet from `SendRtcp`, `SendRtp` or `SendRtx` to the parser at the other side | `NackPacking`, `RtcpPacketFormat`, `RtpPacketFormat` |
| `MC...` | values of the constants for TLC | the module of the name |

Properties are in the section "Properties" at the end of each module. A definition whose comment begins
"Mutant of" is a plausible bug: no action uses it, and putting it in the place of the definition it
belongs to makes the property named for it in `PROJECT.json` fail.

## 3. How the modules correspond to the code

**SeqNum.** `IsSeqAfterInRange` and what is built from it are the templates of the header. The code uses
`uint16_t`; the modulus is a parameter so that a model can wrap after a few packets.

**RtpReceiver.** The remote stream is a set of positions; the packet at position *n* carries number
`SeqAt(n)`. The operators that stand for code see numbers only; positions serve the history variables
`arrived` and `delivered`, the properties and `WithinReach`. `OnRtpPacket` is one action: the worker thread runs
the handler to its end, PutPacket (late test, extended numbers, insertion, loss list), statistics, the NACK,
then GetPackets. It takes the four kinds of packet that the code tells apart by ssrc, payload type and
rtx payload; a refused one changes nothing. The list scans of the code (`StopsScan`, `PlaceLossSeq`, `CutOf`)
are kept as they are, with their order, because what they do at a wrap is the point.

*The assumption on the network.* `WithinReach` says that a packet that arrives is within half the sequence
space (32767 packets) of those in the cache and of the last one delivered. 16-bit numbers cannot order more,
and the code does not try. It is a guard of `OnRtpPacket` and every result about the receiver rests on it.

**RtpSender.** `SendRtp` for the next number and any payload type, `SendRtx` for any list of numbers;
`out` is what goes to the tranceiver. `first_n` and `last_n` are the positions of the first and the last packet
sent. The packets of `WithoutPayload` have no payload: `ConstructRtx` reads through a null pointer for one of them
(`rtp_sender.cc:244`), the process ends, and `SendRtx` has no step. The two callers are the signaling and the worker thread; `RtpSenderPacketCache` is used inside one lock of
`RtpSender`, so each call is one action and the calls interleave.

**RtxSession.** `net` is a set of packets in flight, media and rtx one way and NACKs the other. `Deliver` takes
any of them, which reorders; `Lose` and `Repeat` happen `MaxFaults` times, `Repeat` with every kind of packet: a repeated NACK is answered
again. The NACK of a handler is put on the network in the same step, as the code does in the callback. `asked_times`,
`rtx_count` and `nack_repeats` are histories.

**TaskThread.** One action for each critical section of `mutex_` and for each access to `should_stop_` and
`runing_` outside of it; `pc` is the place of the thread in `ThreadMain`, `owner` that of the thread which
called `Start` or `Stop`. `thread_known` is the assignment `thread_ = ...`, which comes after the thread has
begun to run. `signaled` says that `WaitUp` was called and no wait has ended by it: the promise of a wait task.
`wait_duration` is given to Wait as the code does, an absolute time. `wait_task` is chosen at the start: the signaling and the worker
thread poll, the network thread sleeps. A task is pushed again once it has run, without end; so that there are finitely many states, the
history of pushes and runs (`Record`) forgets what ran before the task's last run.

**NetworkIoScheduler, NetworkThread.** The state is that of the Win32 events: the signaler's event, the socket event, `Wait`'s
own flag, and the datagrams in the socket. Each call of the event functions is a step. `Select` is the wait
for one of several events, of which Windows reports the first; `WakeBySocket`, `Read` and
`ResetSocketEvent` are the branch of the socket. `NetworkThread` replaces TaskThread's `Wait` by these steps
and refines `TaskThread`: its `signaled` maps to the flags of the scheduler.

**RtcpSession.** `scheduled` holds the execution times of the pending calls of `ScheduleSendRtcp`.
`BeginSchedule` reads the clock, and `EndSchedule`, `Postpone` or `Report` follow under the lock, so a BYE or a tick of the clock may
come in between. `SendRtcp` is the compound packet: whether it has a report block and the fraction lost in it.
`ReceiveRtp` counts a packet, moves the highest number up or, before the first wrap, the first one down (`rtp_receiver.cc:67-83`), and goes
on to `SendNack` or `SkipNack`, the worker thread being busy in between. `FinishInitialize` sets `initialized_`, before which the callbacks of `MediaSession` answer no.
Nobody in the program calls `MediaSession::SendBye` yet; the model lets any thread do it, as the interface allows.

**NackPacking.** A behaviour is one call of `SetPacketIds`; a step is an iteration of its loops; a bitmask is the
set of its bits.

**UlpFecEncoder.** A mask is a sequence of rows, a row the set of the media packets (bits) it names. The
rows keep the width in octets they were written with, since `Mask` writes into memory whose rows may have another
width: `UniformRows` says when the two agree. `Encode` answers with the group of packets of each FEC packet and
`BuildFecPacket` with the header made for it.

**UlpFecDecoder.** `cached_packets` is the list of the code. The payload of a packet is the set of the media payloads that
are XORed in it, so `Xor` is the symmetric difference: the payload of a media packet is its own number and one that was
recovered wrongly shows. `received` holds the numbers a FEC packet has pointers to; a pointer to a packet that has left the cache is a number
not in it. `Decode` is one action, the batch packet by packet: insertion, recovery, expiry, output at the end.

**FecSession.** What the two test programs of `src/test` do with the encoder and the decoder. `Deliver` is a batch in order:
`RtpReceiver` gives packets to the user in order (theorem `InOrder`). A block too long for `MaxSent` is
only encoded, for the properties of the masks.

**SessionLifecycle.** `todo` holds the calls a thread has still to make in the task it runs, so that the steps of handlers on
three threads and of the caller interleave; a task in a queue is the call with the session it points to. `live` is the set of
objects that exist. `owner` is the place of the caller in `StartSession`, `MediaSession::Initialize` or the
destructor; `Release` frees what `failed:` or the destructor frees once the threads are joined. The mutex of the
router's destinations is `Routing`. The socket is opened by `CreateTranceiver`, which fails as well when an earlier attempt of
the same process left the address bound. A datagram has a payload type, an ssrc and the position of its packet in the stream. Of the receiver it has what decides
what the user gets when: a packet is refused (`Accepts`), is late or goes into the cache (`PutPacket`), and `GetPackets` gives out the packets up to one of them, at
least the run that continues the last one given out; which packets have waited out their time is left open, since the clock is in `RtpReceiver`. `MayAsk` says when
there can be something to ask for. A start may fail at the tranceiver, at an `RtpSender` and at an `RtpReceiver`; after the last, the scheduled report of the freed `RtcpSender`
may run: it then sends and comes again, does nothing, or does not return (`ScheduleSendRtcp`, `ScheduleNothing`, `ScheduleCrashes`; `owner` is "crashed" after that).

**RtcpPacketFormat, RtpPacketFormat.** An octet is a number; each `Load...` is the list of the octets written, each `Store...` reads
them with the checks and the early returns of the code. Texts are their lengths. `StorePacket` of the RTCP formats takes what an octet
holds that the code reads without having set it (`byte_io.h:36-40`), and `PacketExchange` lets it be 0 or 255.

**PacketExchange.** One behaviour is one packet. A NACK is packed by the steps of `NackPacking` and goes behind a
receiver report and SDES; the other compounds are all those `SendRtcp` can build and, since `Bye::SetReason` is there, BYEs with a reason.
`ParseNext` is a round of the loop of `RtcpReceiver::Parse`. `stage` says how it ended: `dropped` by the tranceiver,
`refused`, `crashed` for a read through a null pointer, `done`.

## 4. Runs

| Run | Question | States | Bounds and why they are enough |
|---|---|---|---|
| `receiver` | does the receiver keep the order of the stream around a wrap, and is its loss list right before one? | 65 507 | `SeqSpace` 16, so that half the space is 7. A behaviour has packets 1..5, or 13, 15, 16, 17, 21 around the wrap, with gaps on both sides of it and one pair just out of reach of each other; seven arrivals of five packets: each late, early, repeated, by rtx or missing; a clock of five values against a cache time of 2 lets packets time out before, with and after others |
| `receiver_gap_listed` | finding, section 7 | | |
| `sender_window` | is the cache the window, through wraps, and does every NACK get just the packets it names? | 5 981 | eight packets in a space of five, a window of three, every NACK of up to two numbers, one packet without payload, rtx numbers from any start |
| `session` | are NACKs and retransmissions justified on a bad network, and is what was lost recovered? | 109 779 | four packets, two losses or repetitions, of NACKs too, all orders; rtx numbers that wrap; the sender's window of 2 is just what the receiver may still wait for. Only media packets are lost: for safety a lost NACK or rtx packet is one that is never delivered, which the network may do with any packet |
| `thread` | is the order of tasks kept over Start and Stop, do due tasks run, is a wake-up lost? | 478 970 | two tasks and two delayed ones, with and without delay, each pushed again whenever it has run, two starts: tasks of before, during and after a Stop meet, the queue can be kept from ever being empty, and a due task can have another due one before it; threads with and without wait task |
| `network_wait` | does the scheduler keep the promise of a wait task, and is the socket read? | 51 967 | three datagrams and three tasks: a datagram and a push at each of the steps of `Wait` |
| `rtcp_schedule` | do reports keep their pace, stop after BYE, count the loss of their interval? | 3 525 497 | an interval of 2 and a lateness of 1 over a clock of eight values: three and more intervals; four arrivals, with losses of two, repeated, late, or before the first one, which is at the start of a cycle or later; six packets sent, with and without a block before the first that has one |
| `packets` | does the other side read what was written, and is nothing dropped on the way out? | 69 418 | every compound of a report (none, or one block with a loss of 0, of more than 16 bits, negative, too large for its field), an SDES name of 0 to 4, 255 or 256 characters (each remainder of a word, the limit, beyond) and a BYE with and without reason; all NACK lists of up to four numbers of eight with a mask of three bits: inside the mask, at its edge, beyond it, unsorted, repeated; RTP packets with every mixture of marker, payload type, csrcs, extension, padding and payload, and the cached copy of each |
| `fec` | is a block protected, and what comes out of the decoder? | 92 611 | masks: 2688 calls, all sizes up to 14 and around 16 and 32 and the maximum 48, none, one, a quarter, half or all of the packets important. Transport: two blocks of one to three packets with one FEC packet or one for each, numbered over a wrap at 64 (`FirstSeqs`), up to two losses, delivered in every batching, a cache difference of 3, so that packets expire inside a block and between blocks |
| `fec_mask_names_block` | finding | | |
| `lifecycle` | does a call reach a freed object, does a start that fails clean up, does a started session deliver, does every call return? | 198 080 | five configurations (both ways with rtx; a second session whose sender is refused; a sender and a receiver; a receiver that is refused; equal ssrcs, refused), two starts, two datagrams of four kinds (a media packet, the one before it as rtx or media, an rtx packet that is too short, a NACK), one send or report: each arrives, routes, is sent or falls due before, during and after each step of a start, a failure and a destruction, and the packet shown missing arrives after the one that shows it |
| `lifecycle_live_senders` | finding | | |

The bounds are constants (`Max...`) in the guards of the actions they bound; `MaxTime` ends the clock. In a run
with `CHECK_DEADLOCK FALSE` the system comes to an end because a bound is reached or because the
call, the packet or the session is at its end (`packets`, `lifecycle`). The thread models are checked for deadlock. `LossListIsGaps` fails at a wrap because of the finding at `rtp_receiver.cc:147`; it is stated for a stream
that has not wrapped yet (`InFirstCycle`), and holds for it.

Properties worth a comment:

- `GapsWaitOutTheCache`: a gap is given up only for a later packet that has spent the whole of
  `max_cache_duration_ms` in the cache. A timed out packet drags everything behind it out, so this is not what
  the line that tests the time-out says.
- `CacheHoldsUndelivered`: the list contains exactly the accepted packets above the last one delivered, in
  strict order; `DeliveredInOrder` and the refinement need it.
- `NackAsksOnlyForMissing`: no reordering makes the receiver ask for a packet of the future, or for one that is in its cache or was given
  out. It is silent about a packet that came too late for the cache: that one may be asked for (section 7).
- `RetransmissionsPaced`: two requests for a packet are 50 ms apart, and it is retransmitted no more often than it was requested, counting the NACKs
  the network repeated. `SendRtx` itself limits nothing: delayed requests may arrive together and are answered together, so the property speaks of the times of the requests and the number of answers.
- `DueTasksRun`: the next delayed task that is due is found in list order, one per round; the list grows at its end only, so it is always reached.
- `TasksInOrder`: accepted tasks = run + in hand + queued, over restarts.
- `ImplementsTaskThread`: the scheduler's event handling never swallows or invents a wake-up.
- `SilenceBounded`: NACKs put off the schedule, which then waits only for the rest; with lateness L the longest
  silence is an interval and 2 L, and no less: with 1 L it is violated.
- `FractionSinceLastReport`: a fraction lost is about the packets between two compound packets, exactly, and the 8-bit cast
  does not wrap in it: the loss is below the packets expected. It claims nothing of the block after the first number was lowered, and of the first block only that it does not
  make the loss larger (section 7).
- `CompoundRead`, `RtpRead`: stated for the packets that are read as written, the rest is in section 7. They fail when the reader
  takes one octet more or less of a text, or when the copy of a cached packet forgets a field.
- `ProtectsWholeBlock`: no media packet is left without a FEC packet, each FEC header names just the packets it was built
  from, and important packets have the first rows to themselves where the mode says so - for masks of rows of one width (`UniformRows`).
- `DanglingNeverUsed`: FEC packets keep raw pointers to packets that were given out. It is the test of the last number given out that
  keeps them from being read, and only as long as both use the same order.
- `FecRecoversOneLoss`: a FEC packet that is in time makes up for a single loss, within the batch or a later one; recovery and expiry must not
  get in each other's way.
- `OnlyLiveObjectsCalled`: tasks hold bare pointers; it is the order network, signaling, worker in which threads are joined and the
  freeing after it that keeps them valid. Leaving one thread to its destructor breaks it. It leaves out one call, the report of a session whose receiver was refused:
  that one is the finding `ReportsOfLiveSenders`.
- `GivenInOrder`: the order of the stream, not of arrival: a packet that shows a gap waits in the cache, the rtx packet that fills it comes later and is given first or with it.
- `StartedSessionDelivers`: what the socket holds gets into the cache or comes too late, and what is in the cache is given out or stays there for
  ever, since only a later arrival gives it out. The receiver is a destination of the router before `initialized_` is set, and batches given out in between are
  dropped; that window is over when `StartSession` returns.

## 5. Fairness

Safety properties assume none. `session` assumes that a packet which is not lost arrives (`Fairness`
of `RtxSession`: the network, the network threads and the worker threads make progress); it is weak fairness of delivery
with the condition for it to be enabled written out. Nothing makes the user send or the network lose. Loss is
limited to media packets: if the NACK or the rtx packet may be lost too, only a later arrival asks again, and after the last packet of a stream there is none.
`thread` and `network_wait` assume weak fairness of the thread and of the owner's calls: the operating system
runs them and every task ends. Pushing, starting and stopping are not fair, except that in `network_wait` the
periodic RTCP report pushes a task again and again (`Reports`). That is needed: without it `DatagramsRead` fails,
since `AddHandler` does not wake a network thread that is already asleep (`network_io_scheduler.h:53-72`), and
the thread listens to the new socket only after the next task. Report and NACK pushes supply one.
`DatagramsRead` also asks that the thread get to its wait, or end, again and again: the socket is read inside `Wait` only, which the loop calls when it has found
the queue empty (`thread.cc:151`), and in the model tasks may come without end. `DueTasksRun` and `TasksRun` hold against endless tasks.
`lifecycle` assumes weak fairness of each of the three threads and of the call under way (`OwnerStep`): they are
threads of the operating system, and each of their handlers ends. The user need not call and nothing need arrive. A thread
that is stopped is not obliged to empty its queue; that joining waits for the task that runs is part of `JoinThread`.
The code gives no promise about pushed tasks while datagrams arrive without a pause, and the model bounds them.

## 6. Proofs

All theorems hold for every value of the constants under the named assumptions of the modules (`SeqSpaceAssumption`,
`ReceiverAssumption`, `SenderAssumption`, `SessionAssumption` of `RtxSession` and of `FecSession`, `DifferenceAssumption`, `ThreadAssumption`, `NetworkAssumption`, `RtcpAssumption`, `NackAssumption`, `LifecycleAssumption`, `ConfigsAssumption`),
which say that sizes are natural numbers, that configurations are sequences and, for
the sequence space, that it has at least two numbers. Time and counts are bounded by constants of any size.

- *SeqNumProofs.* `SeqOrderIsStreamOrder`: for positions within half the space, `IsSeqAfter` on the numbers is
  `<` on the positions. From division with remainder: two positions less than a cycle apart are in the same cycle or in
  neighbouring ones. `InRangeIsStreamDistance` says the same of any range up to a cycle, for the sender.
- *RtpReceiverProofs.* `DeliveryInv` = types, `DeliveredInOrder`, `CacheHoldsUndelivered`, `CacheInReach`. None of them is
  inductive alone: the late test looks at `latest_callback_seq`, which is the last delivered packet only by `CacheInReach`;
  the insertion is right only if the list is in order and within reach; and reach is kept because
  delivery takes everything behind the cut (`PutKeepsDeliverable`, `GetPacketsStep`). `InOrder`, `NoPacketLost`
  and `ReachKept` are its parts (`CacheInReach` is proved only, no run lists it); `Refinement` shows each step to be a step or a stutter of `InOrderDelivery`.
  - *The reports.* `StatsInv` says that `extended_highest_seq` is whole cycles behind the last position that arrived, that
    `extended_first_seq` is not before the first one, and that at least as many packets are counted as positions have arrived (`LossBounded`, `HighestFollows`). A packet is
    highest for the code just when it is highest in the stream, because it is within reach of the cached ones or of the last delivered.
  - *Waiting out.* `GapsWaited`: what `GetPackets` delivers without a time-out is the run that follows the last number called back, so a position
    passed over lies before a packet that timed out. It assumes `MaxCacheDuration > 0`; with 0 every packet leaves in the handler that brought it.
  - *The loss list.* `LossInv`: the entries descend, lie within reach, and above the last packet delivered they are the positions missing
    below the highest cached one (`LossListExact`). `PlaceGap` walks the list from its end for each missing number;
    `Placing` is what holds after each: entries at or above the low end of the scan descend, and stale ones below it are cut when
    packets are delivered. It holds until the counter wraps, as the property says; `rtp_receiver.cc:147` breaks it there.
- *RtpSenderProofs.* `WindowInv`: the cache lists the positions from max(first, last - difference) to last. A position
  stays exactly while its distance is in the range, `InRangeIsStreamDistance`, including when the window is nearly a cycle.
  Two positions in the window never have the same number, so a NACK finds the packet it means (`RtxAnswers`). Both assume that every payload type has an rtx
  type (section 7, `rtp_sender.cc:161`).
- *RtxSessionProofs.* `EndsInv`: each end keeps the invariant of its own module, and what is on the network or has arrived was sent. Every step of
  the session is then a step or a stutter of `RtpSender` and of `RtpReceiver` (`EndsAreSpecified`): what is proved of the components holds in
  their composition (`SessionInOrder` and, inside the proofs, the loss list and the statistics).
  - *The pace* (`PaceKept`). `PacedInv` counts for each position the retransmissions made and the NACKs for it still on the network (`Requested`): NACKs
    may bunch up, so a count of what was sent is not inductive. An answer takes the NACK off the network, or counts as the answer to a repeated one, and sends what it asks for once (`GetPacketsOnce`).
    The time of the last request for a listed number is that of its last notification (`EntryPaced`), so the next one is an interval later;
    a number that was requested is listed, or it arrived or was given up, and neither is ever listed again
    (`ArrivalAsks` of `RtpReceiverProofs`).
  - *What is asked for* (`NackForMissing`) lies between two packets that arrived, so it was sent; and nothing on the loss list is kept or was given out (`MissingInv` of `RtpReceiverProofs`):
    an arrival takes its number off the list, and what is kept or was given out is never listed again.
  - Both theorems speak of the states in which the stream has not wrapped (`BeforeWrap`: `last_n < SeqSpace`), of every length up to there and from every first number.
    After a wrap they are false: a gap just behind number 0 lists a whole cycle (`rtp_receiver.cc:147`).
    `SessionAssumption` has no stream longer than half the sequence space, so that what is on the network stays within reach.
- *TaskThreadProofs.* `ThreadInv` adds to `TasksInOrder` and `TasksKnowTheirThread` where a task can be in hand
  (`TasksHeld`) and how far the owner is while the thread is where (`OwnerInStep`): a queue is empty
  until `runing_` is set, so a thread that runs before `thread_` is assigned finds no task.
  - *The network thread* (`NetworkThreadIsThread`). Every step of the scheduler is a step or a stutter of `TaskThread`. What it needs is that a wait ends
    by a wake-up that was given and not yet taken: the flags the wake-up passes through never lose it (`SignalStays`), and a Wait that returns was ended by
    one, not by the socket (`DoneBySignal`).
- *RtcpSessionProofs.* `ScheduleInv`: the schedule is pending as one task, or running, or over after a BYE, and
  `NextSend` relates `utc_ms_next_send_` to the last packet and to the time the task is due. `ReportsArePaced` (a scheduled report
  comes no sooner than an interval after the packet before it) is proved only. `SilenceAfterBye` goes through the three steps that send. `ReportInv` relates the statistics at the last sending to
  those of now: they lie behind, and if the highest number has grown since and the first one was not lowered, fewer packets are missing than
  were expected. So the loss the next block reports is below the number expected and its fraction fits 8 bits; before the first block `last_report` is all zeros, and counting from 0 can only make the
  fraction smaller (`FractionOfMore`, `FractionsAreSinceLastReport`).
- *RtcpSessionProofs*, the packing of a NACK. `PackInv`: what the items say is what was taken from the list (`NothingLostInPacking`), and the
  first number of the item under way is not above the number before it. `FitMeansFollow`: the 16-bit test of the
  code means `pid < seq <= pid + MaskBits`.
- *FecSessionProofs.* `FecInv` relates the cache and the output of the decoder to the stream that was sent. The sent packets name only media packets of the stream
  (`StreamOK`). What is cached are copies of them in stream order, below `passed`, over at most `MaxCacheSeqDifference` numbers; those not above the last number given out are
  among the output, and the numbers a FEC packet has found are cached or not above it (`HeldInv`, `FoundOrGiven`). What was given
  out are copies too, in stream order until the end (`GivenInv`). None of the four properties is inductive: a recovered payload is right only if
  every source is an original (`XorRecovers`), the insertion keeps the order only for numbers within half the space (`InsertedFacts`), and a packet put together late would come out after
  its successors but for the test of the last number given out.
  - *The argument.* `CachePacketsFacts`, `RcoverPacketsFacts`, `LeavingFacts`, `RunLengthFacts` and `ReleasedFacts` follow `Decode` in its order: the cache with the batch, the
    cache with what FEC packets recover, what expires and the run that follows it. `HeaderNamesGroup` is the encoder's side: what the decoder reads from the header of a FEC packet
    are the numbers of the packets it was XORed from, for every row of up to 48 bits.
  - *The hypothesis.* The theorems assume `[]MaskNamesBlock`, that every row of a mask names packets of its block and at least one. The code breaks it for the calls of section 7
    (`ulp_fec.cc:466`), where nothing can be promised. For rows of one width it is a conjunct of `ProtectsWholeBlock`, which the run `fec` checks
    over the tables: those are data, and a proof about them would be their enumeration.
  - The bound on a stream, `MaxSent + MaxCacheSeqDifference <= HalfRange`, is what lets numbers stand for places. `Flush` at the end gives out packets once more that were given out
    as copies (section 7), so the order is claimed of `Decode` only.
- *SessionLifecycleProofs.* All three theorems hold for every set of configurations and every set of datagrams. `LifeInv`: what makes `OnlyLiveObjectsCalled` true of the call a thread makes now must already hold of every
  call in a queue or left in a task (`CallsOK`), and of everything that may become a call later: delayed reports,
  destinations, initialized sessions (`ReferencesOK`). A session such a call points to is `Ready`: session, `RtcpSender`, `RtcpReceiver` and, where
  it sends, `RtpSender` exist. Freeing happens at two places. In `FailInitialize` nobody calls the session under way yet (`Routed`: who is called is initialized or a destination), but for
  the report of a session whose receiver was refused (`Orphaned`, `MayReport`). In `Release` nothing
  points to anything, because the threads are joined and a joined thread has no task (`StoppedIsEmpty`). `Progress` counts the sessions done, which is
  `AllOrNothing`.
  - *The order of what is given.* `OrderInv`: the batches given so far, the one in the hands of the signaling thread, those in its queue and the one the worker thread
    is about to pass on come in stream order (`StagesOK`), all at or below `latest_callback`, while the cache is above it (`CachesOK`). None of these is inductive alone: a new batch is
    behind the others only because the cache is above all that was given out.

The library's induction theorems take an operator as a parameter, which no installed prover can instantiate. Where a proof needs induction, `SeqNumProofs`
states it with a set (`InductionUpTo`: a set of numbers that has 0 and is closed under the successor has all up to a bound) or with a function
(`IterationExists`: the recursive function that applies a step n times exists). `Picked` takes the place of `SelectSeq` for the same reason.

Only model-checked:

- all liveness (`LostPacketsRecovered`, `DueTasksRun`, `TasksRun`, `StopReturns`, `DatagramsRead`, `StartedSessionDelivers`, `CallsReturn`), which is beyond the prover;
- `ProtectsWholeBlock`, that the tables and the code that puts them together leave no packet without protection, and `FecRecoversOneLoss`, where the single loss may be made up for by
  another FEC packet of the same batch first, which a proof would have to follow through all of `RcoverPackets`;
- `PacketExchange`, whose readers are recursive operators, which the prover does not take. The step-by-step packing in `NackPacking` is proved, what `PacketExchange` adds to it is not.

## 7. Disagreements found

Three are runs that must end in a violation, described under `findings` in `PROJECT.json`.

- `EveryGapIsListed` (`rtp_receiver.cc:147`): a lost packet with number 0 is never asked for.
- `MaskNamesBlock` (`ulp_fec.cc:466`): in the mode without overlap, when a block of more than 16 media packets less the rows for the
  important ones leaves at most 16, rows of 2 octets are written into the mask whose rows have 6: a row names packets past the
  block (17 packets, one important), or none at all (17 packets, 4 FEC packets, 13 important).
- `ReportsOfLiveSenders` (`media_session.cc:111`): `Configure` accepts a remote rtx cache with a difference of 0, for which `RtpReceiver` is refused after `RtcpSender`
  has pushed its report on the worker thread. The sender is freed and the thread stopped only later, so the report may run on the freed sender.

The models follow the code in the following too, met while writing them; no run is spent on them.

Receiver, sender, reports, threads:

- `rtp_receiver.cc:147`: a gap just behind number 0 lists the whole cycle as lost, unordered, where `rtp_receiver.h:10` wants a list that increases.
- `rtp_receiver.cc:60-63`: a packet that comes too late for the cache does not leave the loss list, and the scan that follows may ask for it.
- `rtp_sender.cc:244`: `ConstructRtx` reads the payload of a cached packet that may have none.
- `rtp_receiver.cc:374`: the expected packets leave out the first one, so the cumulative loss is one too small.
- `rtcp_sender.cc:165`: the first report block after a packet without block takes zeros for the last report, and its fraction is too small.
- `rtcp_sender.cc:161-170`: when a packet from before the first one arrives between two blocks, `extended_first_seq_` is lowered and the packets missing
  behind it count as lost, while the number expected does not grow: the fraction can be too large and wrap in 8 bits. Without the
  hypothesis about `first`, `FractionSinceLastReport` fails by it.
- `thread.cc:151`: an absolute time is passed where `thread.h:81` says a duration. Latent: no thread with a wait task is given delayed tasks.
- `rtp_sender.h:33` requires the packets in the cache to be continuous, but `SendRtp` (`rtp_sender.cc:161`) leaves out those whose payload type
  has no rtx type. `MCRtpSender` gives every payload type one, and `CacheWindow` assumes it.
- The media ssrc of a NACK is not looked at (`rtcp_receiver.cc:201-219`).

Session:

- `AreAnySsrcsEqual` (`qosrtp_session_impl.h:120`) compares the local ssrc with none.
- `Configure` accepts payload types 64 to 95, which the demuxer takes for RTCP (`rtp_rtcp_demuxer.cc:60`).
- A start that fails leaves its socket open, so the next start on the same address fails too.
- A packet the user sends before `StartSession` has set `has_started_` is refused.
- A user who destroys the session in its own callback makes the signaling thread join itself; the model has the destructor
  called by another thread.

Packet formats:

- `rtp_packet_impl.cc:156-161`: `LoadPacket` writes 0x20 for an extension and 0x10 for padding, where `StorePacket` (lines 21-22) and the drawing in `include/rtp_packet.h:14`
  have them the other way: a packet with padding is taken for one with an extension and refused. `RtpRead` is about packets without either.
- `sender_report.cc:104-107` reads report blocks through the null pointers of its resized vector.
- csrcs are read without change of byte order (`rtp_packet_impl.cc:92-95`) and copied as octets (`rtp_packet.cc:15-25`).
- The padding size is kept only with a payload (`rtp_packet_impl.cc:98-103`).
- A cname of more than 255 characters is refused by `AddCName` and the empty SDES is sent; a packet that is only a header makes
  `NextPacket` null and `Parse` reads through it.
- `byte_io.h:36-40` reads an octet it has not set when it extends 24 bits.
- `app.cc:79` tests its argument the wrong way round.

FEC:

- Above 12 packets `Mask` builds its rows in `fec_packet_mask_` itself, from the first on, and so overwrites the rows just made for the
  important packets: larger blocks get no unequal protection. `ProtectsWholeBlock` claims it up to 12 media packets.
- With 48 media packets, 48 FEC packets and 8 or more rows for important ones, `ShiftFitSubMask` writes one octet past the array.
- A lone cached packet is given out and erased at once, although `forward_error_correction.h:93` says the cache reaches back to
  `seq_latest - max_cache_seq_difference`; FEC packets that come later find it gone.
- Copies given out for media packets still cached make FEC packets invalid, and `Flush` gives them out once more. FEC packets are among the output.
- `Decode` of an empty batch with an empty cache reads `back()` of an empty list.
- A packet without payload cannot be recovered.

## 8. Not modelled, and left to do

Left out for good: logging, buffers, addresses, APP packets (nobody sends one), interarrival jitter and the timestamps of reports
(arithmetic on data without control), failing system calls but for the address in use, `Configure` of the FEC classes
(range checks), `SendBye` of a session and the counts of `SessionStates` (nobody waits for them), removing of destinations and handlers (nobody does).

Left to do:

1. A proof of `FecRecoversOneLoss`, on top of `FecInv`: that a recovery never takes from a FEC packet behind it in the cache the packet it needs.
2. `RtcpSession` for two ends with BYE and NACKs between them; NACKs and rtx packets lost in `RtxSession` with a stream that goes on.
