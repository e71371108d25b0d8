# TLA+ models and proofs of the VCU control software

The VCU control software drives Allegro DVT's video codec: a decoder library
(`lib_decode`, `lib_parsing`, `lib_common_dec`), an encoder library
(`lib_encode`, `lib_common_enc`, `lib_bitstream`), the libraries under them
(`lib_common`, `lib_rtos`, `lib_fpga`) and three applications. The hardware and
its firmware are behind a driver: the software sends commands through a
channel and a thread of the channel calls back with the results.

This directory holds models of the parts whose correctness depends on order:
who holds which buffer, who wakes whom, what a flush or a destruction leaves
behind. Sections: inventory, modules, correspondence with the code, runs,
fairness, proofs, findings, what is not modelled, plan.

## Inventory

For each part: its state, its operations, who it meets, what is hard, and what
makes it correct. *(M)* modelled, *(p)* planned, *(-)* left out.

**Decoder**

- *Frame buffer pool* `lib_parsing/I_PictMngr.c` (M). State: slots
  `vFrameData[]` (buffer, `iAccessCnt`, `bToBeDisplayed`,
  `bAlreadyDisplayed`), the fifo of available slots, a semaphore,
  `isDecommited`. Operations: put, pop, increment, decrement, output, display,
  force display, decommit, flush one, deinit. Three threads share it: the
  decoder thread, the scheduler's callback thread, the application. Hard:
  the last reference and the application's return race; the semaphore is taken
  outside the mutex; two display modes. Correct when counts are exact, a frame
  in use is never popped, none is lost, waiters wake, Destroy leaves nothing.
- *Picture manager and decoded picture buffer* `I_PictMngr.c`, `DPB.c`,
  `Avc_PictMngr.c`, `Hevc_PictMngr.c`, `HevcDecoder.c` (M: `Dpb` and `PictMngr`
  for frames, `DecodeFlow` for the buffers behind them). State: nodes in POC
  order and in decoding order, marking, picture ids, the display fifo, the list
  of deleted frames whose references are dropped later, frame status.
  Operations: picture order count, gaps, insert, mark (sliding window, memory
  management commands, reference picture sets), bump, output, remove, flush,
  reference lists and their modification, end of decoding, get and release the
  displayed frame. Hard: two lists, three counts and a table of ids for one set of
  pictures, kept by hand through any legal order of commands; references are
  dropped at another time than nodes; the callback thread runs between two
  critical sections of one update. Correct when the buffer holds, marks and
  shows what the standards' decoded picture buffer does, and no frame is reused
  while a node or a picture in flight needs it.
- *Annex buffer pool* `lib_common_dec/BufPool.c` (M). Motion vector buffers with
  counts and a blocking fifo.
- *Decoding of one picture* `SliceDataParsing.c`, `AvcDecoder.c`,
  `HevcDecoder.c`, `DefaultDecoder.c` (M for AVC, access units). State: the
  semaphore `Sem` of `iStackSize` tokens, the counters `iNumFrmBlk1` (sent) and
  `iNumFrmBlk2` (finished), the ring of reference lists. Hard: cancelled
  pictures, failure while destroying, flush while pictures are in flight.
- *Feeder* `DecoderFeeder.c`, `Patchworker.c`, `UnsplitBufferFeeder.c` (M),
  `SplitBufferFeeder.c` (p). State: a fifo of input buffers, the one being
  copied, the circular buffer and two views of it (what is held, what is not
  scanned), a semaphore, `keepGoing`. The application's buffers are copied by the
  slave thread, which decodes from the circular buffer; the callback thread frees
  the space. Hard: end of input, a full circular buffer, wrapping, shutdown while
  work is left. Correct when no byte is overwritten while the hardware or the
  parser reads it, and the slave never sleeps with work left.
- *NAL search, parsers* `SearchDecUnit.c` (the table of NALs and its grouping in
  access units, M), `NalUnitParser.c`, `*Parser.c`, `*SliceHeaderParsing.c`,
  `Concealment.c` (syntax -).
- *Decoder scheduler* `DecSchedulerMcu.c` (M in part). One notification thread per
  channel and one start code thread with a queue of requests; the start code
  requests, its retries and both destructions are modelled.

**Encoder**

- *Encoder context* `Common_Encoder.c` (M in part). State: the semaphore
  `PendingEncodings`, pools of frame-info and HDR ids, `SourceSent[]`, the ring
  `StreamSent[]`, the current request. Operations: process a frame, put a
  stream buffer, change parameters, end of encoding (callback), destroy. Hard:
  a refused frame, a part with an error, frames that come back in another order
  than they went, two threads putting stream buffers, destruction with buffers
  in flight. Correct when each buffer is released exactly once, the tokens and
  ids come back, and a frame in flight keeps its own.
- *Headers* `EncUtils.c`, `AVC_EncUtils.c` (the rings of SPS and PPS ids M): an id
  in use is not taken, and the stream carries every header before it is used.
- *Encoder scheduler* `EncSchedulerMcu.c` (M in part), *sections and bitstream*
  `*_Sections.c`, `IP_Stream.c`, `lib_bitstream` (emulation prevention p, the
  rest -).

**Under them**

- *Containers* `Fifo.c`, `IntFifo.c`, `StaticFifo.c`, `WorkPool.c`,
  `BufferAPI.c` (p): blocking queues, a two-list pool, reference counts.
- *DevicePool* `lib_fpga/DevicePool.c` (p): reference counted descriptors.
- *Levels, settings, constraints* (-): tables; the sizes they give are constants
  here.
- *Operating system layer, logging, DMA allocator, firmware, driver headers,
  rate control example* (-).

**Applications** `exe_decoder`, `exe_ntc_vcu_decoder`, `exe_encoder`, `lib_app`:
file formats and command lines (-); they are "the application" of the models.
The encoder's two-pass manager, command scheduler and look-ahead (p).

## Modules

| module | what it is |
|---|---|
| `FrmBufPool` | the frame buffer pool, its clients reduced to who holds what |
| `MCFrmBufPool` | its instance for TLC: symmetry of buffers and clients |
| `FrmBufPoolProofs` | its inductive invariant and the theorems from it |
| `DecodeFlow` | pictures through the AVC decoder: three threads, both pools, the DPB |
| `MCDecodeFlow` | the input streams the runs consider |
| `DecodeFlowInvariant` | its inductive invariant: tokens, pools, DPB, pictures in flight |
| `DecodeFlowProofs` | tokens, display, ring of lists, reference counts, what is overwritten, flushes |
| `DecInput` | bytes through the decoder: feeder, circular buffer, start codes, access units, Destroy |
| `MCDecInput` | the programs of the application the run considers |
| `DecInputInvariant` | the inductive invariant of `DecInput`, the order of the offsets and cells in the circular buffer |
| `DecInputProofs` | the frames in the hardware, their offsets, when the circular buffer is emptied, and that what is read is kept |
| `QueueLemmas` | facts about queues, rings and least numbers the proofs use |
| `Dpb` | the operations of `DPB.c` on frames, as operators on a record |
| `PictMngr` | what the AVC and the HEVC decoder do with it, picture after picture |
| `IdealDpb` | what a decoded picture buffer promises, and the streams that conform |
| `MCPictMngr` | the kinds of streams the runs consider |
| `EncFlow` | frames and stream buffers through the encoder: application, callback thread, driver |
| `MCEncFlow` | the programs of the application the runs consider |
| `EncInvariant` | the inductive invariant of `EncFlow`, a part for each thing the encoder counts |
| `EncTypeProofs` | what the variables are, and the lemmas on counts the other three use |
| `EncFrameProofs` | source frames, their ids, the tokens and the HDR SEIs |
| `EncIdProofs` | SPS and PPS: their counts, how far behind they are, and that the pools suffice |
| `EncStreamProofs` | stream buffers and the references on the application's buffers |

`FrmBufPool` and `DecodeFlow` meet in the frame pool. `FrmBufPool` has every
flag and slot of it and lets any client do anything the clients' contract
allows (`LastRefIsSafe`). `DecodeFlow` has the clients, and keeps of the pool
the counts, one flag and the fifo, in the mode that shows pictures once they
are decoded; there a buffer and its slot are one thing. `DecInput` and
`DecodeFlow` meet in `Sem`, the two counters of frames and the callback thread:
`DecInput` is the slave thread up to the call that decodes a unit and after it,
`DecodeFlow` what happens inside; each keeps of the other the token of `Sem` and
the wait for all of them. `PictMngr` extends `Dpb` and is shown to implement
`IdealDpb`; `DecodeFlow` has of the same code the marking by sliding window and the
bumping, with the buffers `Dpb` leaves out. `EncFlow` shares no state with them:
encoder and decoder meet only in the driver.

## Correspondence with the code

`PROJECT.json` ("map") names the lines of every definition.

**FrmBufPool.** One action is one function, because each runs under the pool's
recursive mutex; `sFrmBufPool_Pop` is `PopWait` (the semaphore) and then
`PopTake` or `PopDecommited` (the mutex). `sFrmBufPool_DecrementBufID` is three
actions for its three outcomes, `sFrmBufPool_ReleaseDisplayBuffer` two.
Recycling (`Rebind`) unbinds a slot and binds the buffer to the first empty
slot, as `RemoveID` and `AddAvailableBuffer` do. `refs`, `queued`, `shown`,
`user` and `poolRef` are the environment: who holds a slot, whether its picture
was queued and shown, which buffers the application has, and the references the
pool took on each buffer. What the environment may do is what the code does:
a picture is queued once; in the normal mode it is shown only when queued; its
last reference goes only after it was shown, since the display fifo holds one.
In the early mode (`bForceDisplay`) a picture is shown while it is written and
may lose its last reference at any time after the DPB is done with it.
`AllOutput` says whether every picture of the stream has its output flag.
Destruction follows `AL_Default_Decoder_Destroy`: decommit, join the threads,
hand the free frames back one by one, deinit. The application calls the decoder
no more once the threads are joined.

**DecodeFlow.** `mngr` is the picture manager: the pool (`iAccessCnt`,
`bToBeDisplayed`, `avail`), the annexes (`mvAccessCnt`, `mvFree`), the DPB
(`nodes` in POC order, `dispFifo`, `deleted`, `pFrmStatus`). Its operations are
operators from one value of `mngr` to the next, and an action applies those
that the code runs in one critical section of the DPB's mutex. The decoder
thread's `dpc` runs through one picture: `ReserveStart` (`Sem`), `BeginFrame` and
`GetAnnex`, `InitRefBuffers`, the four steps of `updatePictManager`,
`LaunchFrameDecoding`; or `CancelFrame`; or a flush: `WaitFrameSent`,
`AllFramesSent`, `DecoderDisplays`, `Terminate`, `AnnexesTerminated`. The callback
thread's `cpc` runs through `AL_Default_Decoder_EndDecoding`. `inflight` is the
hardware's queue (external): commands finish in the order they were sent. The
input is a sequence of pictures (POC, IDR, reference, decodable or not) and
flushes. `content` and `output` are ghosts: which picture is in a buffer and what
was displayed. `Leave` may come before the end of input: the slave thread drops
what is left when the decoder is destroyed.

**DecInput.** A *cell* stands for some bytes: `<<n, k>>` is the k-th cell of NAL n
of the program. The first cell holds the start code and the NAL header, the second
the bit that tells the first slice of a picture. `ring`, `out` and `view` are the
circular buffer, its meta data and `startCodeStreamView`; `table` is the NAL
table. The application pushes buffers (`Push`), flushes and then waits for the end
of the stream (`FlushCalled`, `EndOfStreamSeen`), and may destroy the decoder at
any time: `DestroyCalled`, `DestroySlave`, `SlaveJoined`,
`DestroyStartCodeChannel`, `ChannelDestroyed` are the steps of
`AL_Default_Decoder_Destroy` between which other threads run. `slave` runs through
`Slave_EntryPoint`: `wait`; `read` is `AL_Patchworker_Transfer` with the space
freed before; `search` is `FindNextDecodingUnit`, and `detect` the wait for the
start code thread; a unit found is launched, refused, dropped (filtered out) or
fatal, as the verdict on its first slice says; `notFound` is the end of
`Slave_Process`, which makes room if the circular buffer is full; `flush` and
`lastFlush` are `InternalFlush`; `drain` is the loop after `keepGoing` has ended.
The start code thread has a queue of messages; the detector (external) reports up
to `ScdMax` start codes of what it is shown, or is busy, and then the slave asks
again. `inflight` is what the hardware reads. `EndDecoding` and `FrameEnded` are
the callback, before and after the display. `units`, `lost` and `shown` are
ghosts.

**Dpb, PictMngr, IdealDpb.** `d` is `AL_TDpb`: `nodes` (a node keeps its index),
the lists of links as sequences `poc` and `dec`, the ids `freeIds` and `idNode`,
the counts. Each operator is one function of `DPB.c`. What is unlinked by mistake
in the code is unlinked in the sequence: `SwitchLongTermPlace` leaves out the
nodes the head no longer reaches. `PictMngr` has one action per picture
(`Decode`), since a picture's update runs to its end in one thread: picture order
count of the three types, gaps, insertion, marking and cleanup for AVC; reference
picture set, `ClearDPB`, the list and `EndFrame` for HEVC; and the flush at the
end (`EndOfStream`). `IdealDpb` says what that has to come to, without nodes,
lists, ids, counts or POCs: a set of pictures, each with its marking and its rank
in the display. It is also the environment: `Slices` are the pictures with which a
conforming stream may go on, described by what the encoder means; `Header`
translates that into what the slice header says (`difference_of_pic_nums`, long
term numbers). The mapping is `held <- Held`, `shown <- d.output`. With
`Restricted` the stream avoids three situations (`Careful` names them): in the
first, finding 5, the code loses references; in the others marking or the picture
order count depends on values the code does not reset.

**EncFlow.** A program is the sequence of calls the application's thread makes:
put a stream buffer, set HDR SEIs, the resolution or the chroma offsets, push a
frame (with or without QP table, of one part or two, fitting or not), end the
input. `apc` runs through one call: `AL_Common_Encoder_Process` is
`ProcessEnters`, `WaitReadiness`, `GetFrameInfo`, `AddSourceSent`,
`UpdateEncoderInfos`, `SetHLSInfos` and `FrameSent` or `FrameRefused`, each one
critical section or one operation on a fifo, a semaphore, a count or the driver;
`ProcessRejects` is its early returns. `cpc` runs through `EndEncoding`, from
`EndEncodingBegins` to `StreamReleased`, with the application's callback in the
middle, which puts the stream buffer again (`CallbackTakesSlot`,
`CallbackHandsOver`) as `sink_encoder.hpp` does; the steps from `SourceReleased`
to `TokenReleased` run after the last part. `heads` is `tHeadersCtx`; what AVC
does with it is `WriteSections`. `hw` is the driver and the firmware (external):
jobs are encoded part by part, each part into the next stream buffer; a job may be
overtaken by later ones as often as the GOP pattern reorders (`GetMaxReordering`,
`DPBConstraints.c:44-78` and `215-229`: once in a default GOP, up to four times in a
pyramid, whose levels nest), and never across a restart of the GOP (`MayEncode`); a status
may be an error (`Errors`) and a call may be refused (`Refusals`).
`DestroyChannel`, `CallbackThreadEnds` and `ReleaseAll` are Destroy, between any
two calls. `refs` counts the references the encoder has on the application's
buffers; `decoder` and `eosSeen` are ghosts: the headers a decoder of the stream
has, and whether the application was told of the end. Each frame has a source
buffer of its own. `SpsFree` and `PpsFree` are the assertions of `AL_GetSps` and
`AL_GetPps` that the next id of the ring is not in use. `StreamAssumption` is what
`exe_encoder/main.cpp:1047-1072` does: the application puts each stream buffer once,
before its first frame; the callback puts it again. With `NumStream < AL_MAX_STREAM_BUFFER` the ring never
overflows, which the code does not check.

## Runs

| run | bounds | checks |
|---|---|---|
| `PoolNormal` | 4 slots, 3 buffers, 2 clients | `TypeOK`, `SemaphoreCounts`, `BoundOnce`, `DestroyReleasesAll`, `PinnedWhileReferenced` |
| `PoolEarly` | the same, early display | `CountMatchesHolders`, `AvailableIsFree`, `NoBufferLost`, `PoolInv`, `PutAddsBuffer` |
| `PoolEarlyNotOutput` | 2 slots, 2 buffers | `PutAddsBuffer` is violated (finding 1) |
| `FlowDisplay` | 2 reordered and 2 low delay streams of 6-8 items, stack 2, DPB 2, 4 frame buffers | `OutputInOrder`, `FlushIsComplete`, `InputIsProcessed`, `DestroyEnds` |
| `FlowAny` | all 625 streams of an IDR and 4 items, stack 2, DPB 2 with 1 reference, 3 frame buffers | `TypeOK`, `CountsAreExact`, `NoOverwrite`, `OneThreadDisplays` |
| `FlowIntraStackOne` | 1 annex buffer, stack 1, IDRs only | `InputIsProcessed` is violated (finding 2) |
| `Enc` | a pyramid of 3 B pictures (a frame overtaken twice), 2 stream buffers in a ring of 3, 5 SPS ids; 5 programs of up to 8 frames, 2 of them with refusals and errors | `TypeOK`, `RefsAreExact`, `StreamsInOrder`, `InfoIsPrivate`, `TokensComeBack`, `PoolsSuffice`, `StreamDecodable`, `EncoderFinishes` |
| `EncPyramid` | a pyramid of 7 B pictures, 30 at most and 32 SPS ids as in the code, 36 frames with a PPS each | `HeadersFree` is violated (finding 3) |
| `EncErrors` | 1 B picture, 8 frames with a PPS each, errors | `HeadersFree` is violated (finding 4) |
| `Dpb` | 3 ids, 6 nodes; AVC streams of 5-8 pictures of four kinds, HEVC streams of 4-5 of two | `TypeOK`, `NoNodeIsLost`, `PicIdsAreExact`, `PocOrderIsDisplayOrder`, `PListIsIdeal`, `BListsAreIdeal`, `ModifiedListIsIdeal`, `RpsListIsIdeal`, `FollowsDpbSpecification` |
| `DpbLost` | 4 ids, 7 nodes, 6 pictures with any command | `EveryReferenceIsListed` is violated (finding 5) |
| `Input` | circular buffer of 9 cells, stack 2, 2 input buffers of 3 or 5 cells, table of 5 NALs, 2 start codes a request, 5 programs | `TypeOK`, `BytesAreKept`, `UnitsAreWhole`, `InputIsAnswered`, `DestroyEnds` |

The properties, in words: counts equal the references somebody holds; a popped
frame is nobody's; a slot keeps its buffer while it is referenced; the semaphore
counts the fifo; no buffer is stranded; Destroy leaves nothing; nothing is written
while it is read; output is in POC order within a sequence and without repetition;
only one thread displays at a time; a flush outputs all that was sent and leaves
no reference; input is processed; Destroy ends. For the input path: bytes stay
while the hardware or the table refers to them; units are whole, in order and none
is left out; every buffer pushed is copied and every flush answered. For the
decoded picture buffer: it implements `IdealDpb`; lists, counts and ids agree; the
reference lists, and their modification, are those of the standards. For the
encoder: the application's buffers are referenced exactly while they will be given
back; statuses come in the order of the stream buffers; a frame's ids are its own
until it is done; what is missing of the tokens is the frames in process
(`TokensComeBack` says so where nothing is refused); with a token in hand nothing
else runs out; a decoder of the stream has the parameters each frame was encoded
with; all input is encoded and the end reported.

Why the bounds are enough. The pool needs a slot more than buffers, so that a
recycled buffer can move to another slot, and three buffers, so that one can be in
the fifo, one referenced and one with the application; two clients show first,
last and other references. No counter needs a bound: the pools are finite and
clients hold a slot once. In `DecodeFlow` a stack of two with `MaxStack = 2` makes
the ring of reference lists wrap with pictures in flight, a DPB of two fills with
the third picture, and one reference makes the sliding window run on the second.
Annex buffers are as many as `AL_AVC_GetMinOutputBuffersNeeded` gives: DPB + stack
+ 2; the low delay streams have more pictures than annex buffers. Frame buffers
are the application's to give, when it likes: the runs have fewer than pictures,
so that they are reused. The streams end, so every state space is finite, and
deadlock is checked; of these runs only `FlowIntraStackOne`, which shows a stop,
switches it off.

`EncFlow` computes `ENC_MAX_CMD`, `MAX_PPS_IDS` and `AL_MAX_SOURCE_BUFFER` with the
formulas of the headers from a small `AL_MAX_NUM_B_PICT`. What matters is how they
compare: there are two tokens more than B pictures and two PPS ids more than tokens,
and it takes more frames than ids, all with new parameters, to make a ring come round.
`Enc` has a pyramid of three, whose orders include those of a default GOP of three: 5
tokens, 6 frame-info ids and 7 PPS. Its programs of seven and eight frames have more
frames in flight than any pool would hold without the tokens. In the one of eight each
frame takes a PPS: the first B picture is overtaken by the 5th and the 3rd frame, and
while it waits no frame after the 8th can have a token, so that eight are enough to come as
close to its PPS as the ring allows; with one place less in the ring `PoolsSuffice` fails.
Its 6th frame restarts the GOP, which keeps the state space small. The SPS ring has the two
ids more than B pictures that the proof asks for. The deeper pyramids have at
least 7 B pictures, so the finding is shown with the sizes of the code itself:
`EncPyramid` keeps it small with `PyramidSpec`, a part of the behaviours of `EncFlow`
in which nobody destroys the encoder, the application pushes frames as long as it has
tokens, and the firmware takes the frames of a pyramid in exactly its order. Two stream
buffers in a ring of three make that ring come round with a buffer in each thread's
hands. The programs that try the sizes have neither refusals nor errors: with them
`HeadersFree` and the tokens fail, which is what `EncErrors` shows and finding 4 and the
remarks after the findings say.
Programs end, and the application may also destroy the encoder and stop there
(`Destroyed` is the only state that stutters), so deadlock is checked.

In `Input` nine cells hold two or three units, so that the buffer fills, wraps and
has to make room with frames in the hardware; a picture of nine cells does not
fit in it; a table of five NALs and two start codes a request make a unit need
several requests; chunks of three and five cut NALs and headers. Refused units
hold the buffer full, a filtered and a fatal one occur, and a flush comes twice.
Deadlock is checked: `Done` stutters only when Destroy has returned.

In `Dpb` three references fit in a DPB of two or three pictures that are shown
late; six nodes are as many as pictures, references and the current one need.
POC LSBs (four bits) wrap where pictures are 3 counts apart, and a gap of 14
makes frame numbers wrap. MMCO 1 to 6
occur with two long term indices. The stream's end is the end of the
behaviour, so the two runs switch the deadlock check off.

`OutputInOrder` is for streams whose reordering fits the DPB (a stream that does
not conform is shown out of order by any decoder), so `FlowAny`, which has such
streams, does not check it.

## Fairness

`FlowFairness` is weak fairness of the decoder thread, of the callback thread and
of the application giving back each buffer it has. Threads of the process are
scheduled; a command the hardware took ends (the driver reports hangs as ended
pictures); an application that keeps all its buffers stops decoding by design,
and `InputIsProcessed` is about the code, not about that. Weak fairness of a
thread as a whole suffices, for a thread never has two continuations of which
one could starve the other, save `Leave`, which ends it. Nothing is
assumed of `Destroy`: the application may never call it.

`InputSpec` has weak fairness of the slave, the callback thread, the start code
thread and the rest of a Destroy that has begun, and strong fairness of
`StartCodesFound`: the detector may answer with nothing any number of times (the
slave then asks again, DefaultDecoder.c), but not for ever. The application need
not push, flush or destroy.

`EncFairness` is weak fairness of the two threads, of the firmware's report of the
end, and of the firmware encoding a frame when it has all it may wait for
(`MustEncode`): more frames than B pictures of the GOP, the end of the input, a restart, or
a frame overtaken. A firmware that holds frames to complete a GOP is allowed, and
`EncoderFinishes` shows that the tokens suffice for it. The application's calls do
not compete with each other, for its program fixes them.

## Proofs

`FrmBufPoolProofs` proves, for every `PoolSize`, `Buffers`, `Holder` and both
display modes, from `PoolAssumption` alone:

| theorem | property |
|---|---|
| `PoolInvariant` | `PoolInv` is an invariant |
| `TypeCorrect`, `CountIsExact`, `PopIsSafe`, `NoLostWakeup`, `RefsBalanced`, `DestroyIsClean` | the invariants of the runs |
| `BuffersConserved` | `NoBufferLost`, assuming `bForceDisplay => AllOutput` (without it finding 1 refutes it) |
| `FramesArePinned` | `PinnedWhileReferenced`, an action property |

The properties are not inductive on their own. `PoolInv` adds four parts to them:
`FlagsAgree` (what `bToBeDisplayed` and `bAlreadyDisplayed` say of the picture's
history), `UserAgrees` (the slot knows when the application has its buffer),
`IdleSlots` (a bound slot nobody holds is available, being flushed, or will be
recycled when the application returns it) and `StagesAgree` (what each stage of
Destroy has emptied). `UserAgrees` is what makes `AvailableIsFree` inductive: when
the last reference goes and the flags say the application does not have the
buffer, it does not; `IdleSlots` does it for `NoBufferLost`.

The proof of `InvStep` has a lemma for each action. Actions that recycle a buffer
share `RecyclePreserves`, those that empty a slot `ReleasePreserves`, those that
change flags or clients of one slot `SlotStepPreserves`. `AppendRange`,
`TailRange` and `HoldersCount` are the facts about fifos and counts they need. TLC
checks `PoolInv` itself in `PoolEarly`. `PutReallyAdds` proves the action property
`PutAddsBuffer` with display after decoding; with early display finding 1 refutes it.

`DecodeFlowProofs` proves, from `FlowAssumption`, for every stack size, pools and
streams:

| theorem | property |
|---|---|
| `TokenInvariant` | `FlowInv`: every token of `Sem` has one holder; `iNumFrmBlk1 - iNumFrmBlk2` pictures are in flight |
| `NoTwoDisplays` | `OneThreadDisplays` |
| `ReferencesAreKept` | the reference lists of pictures in flight are not overwritten in the ring |
| `PictureInvariant` | `PictureInv`, the rest of the inductive invariant |
| `CountsStayExact` | `CountsAreExact` |
| `NothingIsOverwritten` | `NoOverwrite` |
| `FlowTypesAreKept` | `TypeOK`, with the depth of the DPB |
| `FlushesAreComplete` | `FlushIsComplete` |

`FlowInv` says for each place of the decoder thread and of the callback thread
which tokens they hold. While the decoder thread displays in a flush it has taken
all `iStackSize` tokens, so the sum leaves none for a picture in flight or for
the callback, which is `OneThreadDisplays`. The same sum bounds the pictures in
flight by the length of the ring, and `RingPlaces` (numbers closer than n differ
modulo n) gives `ReferencesAreKept`.

`PictureInv` is about the buffers, and none of the four properties above is inductive
without the others. Its core, `MngrInv(m, H, K, U, shown, N)`, is a property of the
picture manager alone: when others hold `H[f]` references to frame f and `K[a]` to
annex a, the application has the buffers `U`, the pictures in the frames `N` are not
decoded and `shown` entries of the fifo have been shown, then the counts are `H` and `K` plus what the
DPB holds (`Counted`), what is available is referenced by nobody (`AvailableIsFree`),
the pool knows which buffers are with the application (`UserIsKnown`), a frame is in
one node at most, goes to the fifo once and to the application from there
(`QueuedOnce`), and not before it is decoded (`StatusIsKnown`). Each operation of the
DPB and of the pools has a lemma that says how it moves `H`, `K`, `U` and `N`, whatever
thread runs it (`FrmReleased`, `Displayed`, `NodeRemoved`, `Flushed`, `RoomMade`,
`NodeInserted`, `ListLocked`, `DecodingEnded`, `HeadReleased`, `FrameTaken`, ...); an
action's lemma instantiates it with `OtherFrm` and `OtherMv`, what the threads hold. So a cancelled
picture, an IDR and a flush need no argument of their own about counts.
`CurIsFresh`: the frame of the picture being parsed is nobody else's. With it
`PicturesKept`, that a node's or a locked list's picture is still in its buffer,
survives the launch, which is where a buffer is written. `DpbHasRoom`: one node above
`uNumRef` only between the insertion and `AL_Dpb_AVC_Cleanup`, because then either
a reference has just been marked as unused or the new picture is none, so that the
bumping finds one to remove. `OutputIsExact`: pictures sent are pictures displayed
plus those that wait to be; `FlushLeavesNothing` says from where in a flush which lists
are empty, and the two together give `FlushIsComplete`: that all counts are 0 then is
`Counted` with nothing left to count.

The DPB's loops run over lists of any length. A fold's definition is recursive and
gives no induction here, so the loops of the model are functions of the turn
(`LET unlocked[i \in 0 .. Len(list)] == ...`); `LoopExists` proves that such a function
exists and `LoopInduction` takes the least turn at which a claim would fail. Adding and
removing an element at any place, which is all the DPB does to its lists, moves every
count in them by one (`Grown`, `RefsGrown`). TLC checked both invariants
on the states of `FlowDisplay` and `FlowAny` before they were proved.

`DecInputProofs` proves, from `InputAssumption`, for every size, stack and program:

| theorem | property |
|---|---|
| `TokensConserved` | every token of `Sem` is free, with a frame in the hardware, or about to be released |
| `FlushIsSafe` | the circular buffer is emptied, or jumped over, only with no frame in the hardware |
| `OffsetsAreKept` | the end of a frame in the hardware is not overwritten in `iStreamOffset` |
| `InputIsInvariant` | the inductive invariant `InputInv` |
| `BytesKept` | `BytesAreKept`, as long as no input has been discarded |
| `InputTypesAreKept` | `TypeOK`, as long as no input has been discarded |

The last two are not true without `~lost`: a full table that is cleared leaves
`iCurNalStreamOffset` behind, which the bounds of `Input` are too small to show (see
*Met while modelling* below). `~lost` is false from the first time the decoder
discards input to avoid a stall; until then the theorems hold for every program of
NALs and flushes, every size and stack, and through every Destroy.

`InputInv` measures every offset by how far it is ahead of `out.off` (`At`), so that
the circular buffer has a first and a last cell and no proof but that of a few lemmas
(`AheadFrom`, `AheadTells`, `Advanced`) has a modulo in it. `OffsetsInOrder`: what has
been decoded, what has been parsed, the NALs of the table one behind the other, the
view, and the end of what is held follow each other. `FramesKept`: the frames in the
hardware lie between what has been decoded and what has been parsed, in the order of
their slots of `iStreamOffset`, with the bytes they were sent with; so the space that
`SlaveReads` and `RoomMade` free is in front of all of them, and what is copied is
behind all of them. That a NAL in the table still has its own cells needs to know
where it ends, which only the next start code tells: `CellsInOrder` says that in
the circular buffer, in the buffer being copied, in the fifo and in the input a cell
either begins a NAL or is of the NAL of the cell before it, across every boundary
between them (`BuffersChained`, `InputChained`), and that no start code has been
passed unseen behind the last NAL (`TableRead`). `StatusRight` keeps what the
detector has reported true until the slave takes it: meanwhile the view does not move,
because only one request is under way (`Requests`), which is also why a table that had
room when the request was made has room for the answer (`TableHasRoom`). TLC checked
`InputInv` on the states of `Input` before it was proved.

The proof corrected the model: the alternatives of `BufMeta` overlapped, so that its
value was not determined when a buffer of the application is copied while no end of
stream is pending. TLC takes the first one, which is the code's; they now exclude
each other. The start codes the detector reports, sorted with an operator of the
library before, are now stated as what the proofs use: the sequence of their positions
in increasing order (`InOrder`).

`EncTypeProofs`, `EncFrameProofs`, `EncIdProofs` and `EncStreamProofs` prove, from
`EncAssumption` and `StreamAssumption`, for every number of B pictures, look-ahead,
stream buffers and SPS ids, and every program of the application:

| theorem | property |
|---|---|
| `EncTypesAlways`, `EncFramesAlways`, `EncHdrAlways`, `EncHeadsAlways`, `EncPoolsAlways`, `EncStreamsAlways`, `EncDecoderAlways` | the parts of the inductive invariant |
| `TokensReturn` | `TokensComeBack` |
| `InfoStaysPrivate` | `InfoIsPrivate` |
| `PoolsAreEnough` | `PoolsSuffice`, with `iMaxSpsIds >= AL_MAX_NUM_B_PICT + 2`; its part on SPS and PPS for a reordering of two at most |
| `StreamsComeInOrder` | `StreamsInOrder` |
| `StreamsAreDecodable` | `StreamDecodable` |
| `RefsStayExact` | `RefsAreExact` |
| `CountsStayInRange` | `TypeOK` |

`EncInvariant` has the invariant in seven parts; each part is inductive together
with those before it, so that a part is proved without the actions of the others
in sight. `EncTypes`: the types of the variables, and which call each place of a
thread belongs to. `EncFrames`: a slot of `SourceSent` has a frame and a frame-info
id of its own; every part of a frame in the firmware, waiting or in the callback
is of a frame whose slot is held (`PartsHeld`), and only the last one is `last`
(`PartsInOrder`), so that the frame `releaseSource` looks for is there once and is
given back once; from it follow the tokens and the references on sources and QP
tables. `EncHdr`: the references on HDR SEIs are the frames in `Holding`, so the
SEIs an id is reused for were nobody's. `EncHeads`: `iRefCnt` of an SPS or a PPS
counts the frames in `Open`, those that still wait for their headers. `EncPools`
says how far the ids of those frames are behind the last ones given: a frame takes
at most one new PPS, and the firmware lets at most `GetMaxReordering` later frames pass
(`overtaken`), so a PPS is behind by at most that many ids more than there are frames of
`Open` pushed after it (`PpsNear`, which says it for each waiting job with the number
of times it has been overtaken so far); a new SPS restarts the GOP, and such a frame passes no
other, so an SPS is no further behind than those of them that restart (`SpsNear`).
With a token in hand at most `AL_MAX_NUM_B_PICT + 1` other frames are in flight. A PPS
in use is then at most `AL_MAX_NUM_B_PICT + GetMaxReordering` behind the last one, and
the next one of the `AL_MAX_NUM_B_PICT + 4` of the ring is nobody's as long as no frame is
overtaken more than twice. That is the hypothesis `GetMaxReordering <= 2` of
`PoolsSuffice`: it holds in every default GOP and in pyramids of 3 and 5 B pictures; with
3 or 4, pyramids of 7 and 15, the ring really is too short (finding 3). The next SPS
is nobody's if there are two more ids than B pictures; and every frame-info id is free or
has a token (`AllIdsKnown`), for every GOP. The hypothesis on `iMaxSpsIds` is true of AVC
(32 ids, 30 B pictures), whose headers `EncFlow` models, and not of the 16 ids of HEVC,
for which the theorem says nothing. `EncStreams`: the k-th waiting status and then the
k-th buffer of the driver are in the k-th slot from `iCurStreamRecv`
(`RingOrder`), the two threads that pass a buffer on are the last ones
(`RingLength`), and the buffers of the ring are distinct (`RingBuffers`).
`EncDecoder`: an SPS or PPS that a frame of `Open` uses has the parameters the frame
was pushed with (`HeadersKept`), for an id in use is not given again; an id marked
as sent is what the decoder has (`PpsSent`, `SpsSent`). The first part of a frame
writes the PPS if it is not marked, and the SPS if the frame restarts the GOP; any
other frame must find its SPS sent, which holds because a new SPS comes with a restart
that no frame passes, so that its frame comes out before the others that use it
(`SpsComes`). Later parts of a frame come directly after its first one (`PartsAdjoin`),
when its headers may be free for new frames but nothing has been sent since
(`Delivered`).
`~Refusals` or `Faultless` stands in the invariant only where the code loses a
token or a count (finding 4, and the refused frames described after the findings): the rest is proved with refused frames,
failing parts and a Destroy at any time. TLC checked each conjunct of the invariant
on the states of `Enc` before it was proved; it also found that `StreamDecodable`,
which first excluded only failing parts, needs `Faultless` (see the refused frames after the findings).

The lemmas of `QueueLemmas` say of `Append`, `Tail` and an empty queue what the
proofs need, for queues whose elements have no type of their own
(`s \in Seq(Range(s))`), and of rings that places closer than n differ modulo n.

Only model-checked: `Dpb` and `PictMngr`; `OutputInOrder` in `DecodeFlow`, which holds
only for streams whose reordering fits the DPB; `UnitsAreWhole` in `DecInput`, and its `BytesAreKept` and `TypeOK` once input has been discarded. Out of the prover's reach:
liveness under fairness (`InputIsProcessed`, `InputIsAnswered`, `DestroyEnds`,
`EncoderFinishes`), and what folds over lists compute for every length, which
needs induction over data and is what the operators of `Dpb` are made of. (Where one
such fact was needed, that the cells of a program are chained, the proof takes the
least number of NALs for which it would fail: `FlattenExists`, `ProgramChained`.)

## Findings

1. *A buffer is lost with early display* (`PoolEarlyNotOutput`,
   `I_PictMngr.c:905`). A picture shown early whose output flag is not set is
   never queued; when its last reference has gone and the application returns
   the buffer, `bPushBack` is false because `bToBeDisplayed` is: the slot stays
   bound, unreferenced and outside the fifo. `AL_Decoder_PutDisplayPicture`
   returns true, which `lib_decode.h:155` documents as "successfully added".
2. *An intra stream with a stack of one stops* (`FlowIntraStackOne`,
   `DecInfo.c:44`). One annex buffer is allocated; the picture in the DPB keeps
   it until the next one is inserted, and the next one waits for it. The
   settings accept a stack of one (`DecSettings.c:128-134`).
3. *A deep pyramid runs into a PPS in use* (`EncPyramid`, `EncUtils.c:349`). There are
   34 PPS ids (`EncUtils.h:22`) and 32 tokens. In a pyramid of 7 or 15 B pictures, both
   accepted by `Settings.c:894-897`, the first B picture of the GOP is overtaken three
   or four times. When each frame has chroma offsets of its own it takes a new PPS; with
   the 8th, the 4th and the 2nd frame done, the frames in flight reach all the way round
   the ring, and the assertion that the next PPS is free fails on the PPS of the first B
   picture. It takes an application that changes the offsets with every frame and keeps all
   tokens in use. Two ids more in the ring would do for 15 B pictures.
4. *A failed frame keeps its headers in use* (`EncErrors`,
   `Common_Encoder.c:1611`). The SPS and the PPS are released where headers are
   written, which an error skips. When the ring of ids comes round, the
   assertion that the next id is free (`EncUtils.c:349`, or 326) fails, however
   long the ring.
5. *A reference leaves the decoding order list* (`DpbLost`, `DPB.c:246`).
   `AL_Dpb_sSwitchLongTermPlace` takes a picture that becomes a long term
   reference out of its place. When it is the head of the list,
   `tHeadDecOrderNodeID` stays: the nodes between are no longer reached, and
   "each reference picture" that `DPB.h:301` has numbered is so no more. It
   takes a long term reference of index 1 and then the oldest picture made one of
   index 0.

Met while modelling `DecInput`, outside the bounds of `Input`:

- A unit whose NALs are all filtered out gives no new token to the slave
  (`DecoderFeeder.c:76-87`), although line 22 says `incomingWorkSem` counts incoming
  work. With a program of a first slice, four filtered NALs in a row, a first slice
  and a flush in one input buffer (chunks of 12 cells, `Size` 15, a table of 10 NALs
  and 4 start codes a request), `InputIsAnswered` fails: the slave sleeps with a unit
  in the table.
- A table of start codes that is full without a unit is cleared together with
  `iCurNalStreamOffset` (`DefaultDecoder.c:856-861`); if the circular buffer then
  fills, `AL_Decoder_SkipParsedUnits` frees up to offset 0. A picture of two cells and
  then seven delimiters, with `Size` 15 and the other bounds of `Input`, break
  `BytesAreKept`.
- After a unit that is fatal the slave ends without the flush that waits for the
  hardware. Destroy frees the feeder (`DefaultDecoder.c:478`) before it destroys the
  channel (line 490), so the end of a picture still in the hardware signals
  (line 392) a feeder that is gone.

Met while modelling `EncFlow`:

- A refused frame keeps its token (`Common_Encoder.c:687`). When the driver refuses a
  frame, its source and QP table are released; its token of `PendingEncodings`, which
  "tracks the count of jobs sent to the scheduler" (`IP_EncoderCtx.h:165`), its ids and
  its references on headers are not. After `ENC_MAX_CMD - 1` refusals the application
  blocks in `WaitReadiness`. `TokensComeBack` is `TokensAreExact` without refusals;
  `TokensAreExact` itself fails with one B picture, a look-ahead of one, two SPS ids and
  `Refusing <- FaultPrograms`. If the refused frame was the first of a new resolution, the
  request to restart the GOP goes with it (`pReqInfo` is cleared, line 691): the next
  frame uses an SPS that is written only with a restart and so has not been sent, which
  is why `StreamDecodable` says `Faultless`.

## Not modelled, and why

- Syntax and bit-exact data: parsers, sections, CABAC, scaling lists, tables of
  levels. Nothing interleaves there and their state is the standard's.
- Contents of pictures and buffers, memory layout, file formats, conversions,
  logging, the firmware and the driver (binary or external).
- In the decoder: concealment, sub-frame units (`AL_VCL_NAL_UNIT`), resolution
  changes, the initialisation in steps of the picture manager, postprocessed
  outputs, fields, the low latency display modes of the DPB; the split feeder;
  the end-of-stream buffer whose meta data a second flush replaces while the
  slave copies it (`UnsplitBufferFeeder.c:80`); creation and queries of the decoder
  channel, and driver calls that fail. `BListsAreIdeal` is not checked on streams
  with gaps, and HEVC streams lose no picture their reference picture sets name.
- Streams outside `Restricted`: besides finding 5, MMCO 3 on an index a picture
  that is no longer a reference had, and a picture that is no reference right
  after MMCO 5.
- In the encoder: look-ahead and two-pass metadata, requests that only fill the
  request record, user data and SEI sections, reconstructed pictures, the error
  code, HEVC's own header rules.
- Containers, `WorkPool`, `DevicePool` and the applications' own pools: their
  queues and counts are modelled where they are used, not on their own.
- Two threads of the application that put stream buffers at the same time: the
  order then is not kept, and the applications here do not do it.

## Plan

Done: `FrmBufPool` with its proofs; `DecodeFlow` with its inductive invariant, from
which all its safety properties but the output order follow; `Dpb`, `PictMngr` and
`IdealDpb` with the refinement checked;
`EncFlow` with its inductive invariant, from which all its safety properties follow;
`DecInput` with the start code channel and its inductive invariant, from which
`BytesAreKept` follows. In order, what is left:

1. `OutputInOrder`: what a stream must satisfy for its reordering to fit the DPB, and
   the proof for those streams.
2. `UnitsAreWhole`: the order of the units follows from `CellsInOrder` with the numbers
   of the NALs; that none is left out needs the history of the program as well.
3. `FrmBufPool` as what `DecodeFlow` uses: the mapping, checked and proved.
4. The split feeder, and the decoder channel of `DecSchedulerMcu`.
5. `BufferQueue`: an abstract blocking queue, with `Fifo`, `WorkPool` and the
   application's `BufPool` refining it; reference counts of buffers; `DevicePool`.
6. An abstract encoder `EncFlow` implements: frames in, parts out, each source given
   back once.
7. Pure algorithms: emulation prevention, picture id and DPB size arithmetic.
8. The encoder application's two-pass manager and command scheduler.
