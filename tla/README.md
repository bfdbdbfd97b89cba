# Specifications of thubo

thubo (`src/`) sends messages over one byte stream: it batches them, gives them
priorities, fragments the large ones and either blocks or drops when the link
cannot keep up. This directory holds TLA+ specifications of its concurrent
core and of what a message becomes on the wire, the TLC configurations that
check them on small instances, and theorems about them that TLAPS checks for
every instance. Paths below are relative to
`src/` unless they name a file of this directory; `tx.rs`, `rx.rs` and
`common.rs` are in `src/pipeline/`, `sender.rs` and `receiver.rs` in `src/api/`.

- [Inventory](#inventory): the parts of the program and what makes each correct
- [Modules](#modules): which models what, what composes what, and what could follow
- [What is modelled](#what-is-modelled): modules and code side by side
- [What the runs check](#what-the-runs-check): properties, bounds, fairness
- [What is proved](#what-is-proved)
- [Where code and documentation disagree](#where-code-and-documentation-disagree)
- [What is not modelled](#what-is-not-modelled)

## Inventory

```
 Sender::send ──► lane 0 ┐  ring of batches        ┌► ring 0 ┐
 Sender::send ──► lane 1 ├──────────► write_task ══► read_task ├► Receiver::recv
   ...            ...    │  can_pull     link      └► ring n ┘
                lane n ◄─┘  can_refill, recycled buffers
```

| part | state | operations | hard behaviour | correct when |
|---|---|---|---|---|
| Events (`src/sync/event.rs`) | flag word `OK`/`ERR`, list of listeners | `notify`, `wait`, drop of either side | the flag and the list are two objects; a wait may be dropped | no wakeup is lost; one token; closing wakes the waiter |
| Status (`src/pipeline/mod.rs`) | 16 bits: CONGESTED and FLUSH per lane, DISABLED, BACKOFF | `set`, `unset`, `any` | read and acted upon non-atomically by both sides | no stale bit stops the pipeline |
| Transmission pipeline (`tx.rs`) | per lane: mutex, ring of committed batches, booked batch, recycled buffers, allocation counter, sequence numbers, back-off word | `push` (append, new frame, fragment), `flush`, `disable`; `pull`, `try_pull`, `drain`, `refill` | several senders, one writer task; every wait has a timeout; sends may be cancelled | buffers conserved, order per lane, fragments together, nothing accepted is lost, failures are not delivered |
| Writer task, `Sender`, `SenderTask` (`sender.rs`) | locals of `write_task`, cancellation token | `send`, `stop` (both), keep-alive, coalesced writes, graceful drain | `select!` drops the pull; writes fail or time out part-way | stop loses nothing and ends; nothing is written twice |
| Ring buffers (`src/pipeline/ringbuf/`) | slots, two atomic words with a wrapping index per lane and the flags BOOKED, old copies of them in each handle | `book`, `commit`, `peek`, `push`, `pull`, `pull_priority`, `peek_mut`, drop | lock-free; some words shared by several handles | a bounded queue per lane, no slot used by both sides |
| Reception pipeline (`rx.rs`) | per lane a ring of batches with a position each, two families of events, the bits CONGESTED | `push`, `pull`, `try_pull` | one reader task feeds all lanes; a batch is peeked and later pulled; blocking push with a timeout | order per lane, no wakeup lost, a reliable message returned unless its time was over |
| Reader task, `Receiver` (`receiver.rs`) | buffers of the stream, token | `read_task`, `recv`, `try_recv`, both `stop`s | timeouts, end of the link, batches that do not decode | every wait of the task ends with a stop; the end is reported |
| Defragmentation (`rx.rs`) | `DefragBuffer` per lane and congestion control: expected number, id, bytes | `clear`, `sync`, `extend` | lost, refused and abandoned fragments | a message that is returned is one that was sent |
| Protocol core (`src/protocol/core/`) | none | sequence numbers of 28 bits, QoS byte, priorities | wrap-around | comparison right within half the range |
| Codec, headers (`src/codec/`, `src/protocol/`) | none | encode, decode, lengths | variable-length integers at their boundaries | decode inverts encode; a written length is the announced one |
| Buffers, collections (`src/buffers/`, `src/collections/`) | `Bytes`: a `SingleOrVec` of `Chunk`s; a cursor (chunk, byte) per reader; `BoxBuf` | `read*`, `skip`, `seek`, `backtrack`, `view`, `write*`, `siphon` | operations that fail half-way, cursors at the end of a chunk | nobody can tell how the bytes are cut into chunks |
| Durations (`src/sync/time.rs`) | one atomic word | `load`, `store` | packing | no torn value |

How they interact. `Sender::send` runs `PipelineTxIn::push` in the caller's
task. It locks a lane, fills a batch and commits it to the lane's ring, or
leaves it booked, that is visible but unfinished. `write_task` alone takes from
the rings. Two families of events connect them: `can_pull`, from all senders to
the writer task, and `can_refill`, one per lane, from the writer task to the
sender that holds the lane. Everything else they share is the status word, the
lane's lock and the back-off word. `Sender::stop` locks every lane, as does the
writer task's `drain`. The reception side shares only the bytes of the link.
There `read_task` puts fragments together and pushes batches into a ring per
lane; `recv` reads messages from the batch at the head of the first lane that has
one. `can_recv` wakes it, and one `can_send` per lane wakes the reader task when it
waits for space, during which no other lane is read.

## Modules

| module | models | uses |
|---|---|---|
| `Signal` | what an event promises: a one-token signal | |
| `Event` | `src/sync/event.rs` | implements `Signal` |
| `LaneQueues` | what a ring promises: one bounded queue per lane | |
| `RingBuffer`, `RingProperties`, `MCRing` | `src/pipeline/ringbuf/` | implements `LaneQueues` |
| `TxPipeline`, `TxProperties`, `MCTx` | `tx.rs`, `sender.rs` | events as signals, rings as queues |
| `RxPipeline`, `RxProperties`, `MCRx` | `rx.rs`, `receiver.rs` | events as signals, rings as queues, the link as the sender fills it |
| `SeqNum` | `src/protocol/core/seq_num.rs` | |
| `Bytes` | `src/buffers/`, `SingleOrVec` | |
| `Codec` | `src/codec/`, `src/protocol/` | `Bytes`, `SeqNum` |
| `FlatReader` | what a reader of `Bytes` promises | |
| `Wire`, `WireProperties`, `MCWire` | a message from the sender's chunks through both pipelines to the receiver's reader, in bytes | `Codec`; implements `FlatReader` |
| `EventProofs`, `RingProofs`, `TxProofs`, `TxMessageProofs`, `RxProofs`, `CodecProofs`, `WireProofs`, `DeliveryProofs` | theorems | `TxMessageProofs` extends `TxProofs`, `WireProofs` extends `CodecProofs`, `DeliveryProofs` extends `WireProofs` |

The layers are separate on purpose. The pipelines use signals and sequences,
because `Event` implements the one and `RingBuffer` the other; what interleaves is in
`TxPipeline` and `RxPipeline`, where a message is a list of pieces; what a piece
is in bytes is in `Wire`, where one push follows another. `RxPipeline` assumes of
its link what `TxPipeline` guarantees of its wire: `WireGapless`,
`WireInSequence` and `FragmentsTogether`, except that fragments may be missing.

What could follow, apart from proofs: the deadlines of `tx.rs:294` with a clock.

## What is modelled

One action is one atomic access to state that several tasks share, with the
local code around it. Where two accesses are merged into one action a comment
gives the reason why nobody can tell. Definitions keep the names of the code or
of its comments; a definition `X_Something` before `X` is `X` with a mistake,
used to show that a property notices it.

### `Signal`, `Event`

`Event` has a variable for the flag word, one for the waiter's listener and a
control state per notifying thread and for the waiter. `Notifier::notify` is
`SetFlag` and `NotifyEvent`; the drop of the last handle is `DropHandle` and
`NotifyErr`; `Waiter::wait` is `StartWait`, `Check`, `Listen`, `Recheck`, `Wake`
or `Cancel`; `DropWaiter` is the drop of the other side. `event_listener::Event`
is external: `WakeListener` models `notify` as waking a registered listener.
`Signal` is the contract: at most one token; a completed wait takes and returns it, an
abandoned wait leaves it, closing answers for ever.

### `TxPipeline`

| variables | code |
|---|---|
| `ring`, `booked` | a lane of the in-out ring: committed batches, the booked slot |
| `free`, `allocated` | the refill ring and `StageRefill::allocated` |
| `lock` | `StageIn::priorities[p]` |
| `bo` | `AtomicBackoff`: how far the booked batch has grown |
| `seqnum` | `SeqNumPool`, per congestion control |
| `canPull`, `canRefill` | the events, as signals |
| `congested`, `flush`, `disabled`, `backoff` | the bits of `Status` |
| `flagged` | the drop flags of fragmented messages |
| `pc`, `msg`, `pieces`, `res` | a task inside `Sender::send` |
| `wpc`, `lane`, `seen`, `inBackoff`, `hand`, `nref`, `owed` | `write_task` with its calls to `pull`, `try_pull`, `drain` and `refill` |
| `wire`, `linkUp` | what was written, and that no write has failed |
| `token`, `spc`, `slane`, `promised` | the cancellation token, `Sender::stop`, and what was accepted before it |

A message is a name with a priority, a congestion control, the express flag and
the number of batches it fills; a batch is a record of what the properties tell
apart. `FrameMax` stands for the batch size. The age of a batch, every timeout
and every outcome of a write are nondeterministic.

Actions follow the control flow of the code:

- `PipelineTxIn::push` → `Send` (fast path), `SetCongested` (after a failure);
  `StageIn::push` → `Lock`, `LockTimeout`, `Unlock`, `LateNotify`;
  `StageInPrio::push` → `AcquireBooked`, `AcquireFresh`, `AcquireNone`,
  `WaitRefilled`, `WaitFails` for `batch_or_return!`, `WriteAppend` and
  `WriteFull` for step 1, `WriteFrame` for step 2, `WriteFragment` for step 3,
  `KeepOrCommit` for `return_notify!`, `MovedNotify` for the notification of
  `move_batch!`. `Cancel` is the caller that drops the future at a suspension
  point.
- `pull` → `PullCheck`, `PullSome`, `PullBooked`, `SetBackoff`, `PullNone`,
  `Yield`, `SetFlush`, `TryFlush`, `ResetBackoff`, `Unpark`; `try_pull` →
  `TryPullCheck`, `TryPullSome`, `TryPullNone`; `StageOut::refill` → `Refill`
  and `FireRefill`; `drain` → `DrainLock`, `DrainFlush`, `DrainPull`,
  `DrainUnlock`.
- `write_task` → `KeepAlive`, `KeepAliveWritten`, `SeeToken`, `Write`,
  `WriteFails`, `RefillHand`, `RefillDone`, `DrainWrite`, `DrainWriteFails`,
  `DrainDone`; its end, which drops `PipelineTxOut`, is `Close` and `CloseLane`.
- `Sender::stop` → `StopDisable`, `StopLock`, `StopFlush`, `StopCancel`;
  `SenderTask::stop` → `TaskStop`.

`Env` names the things that the surroundings may do in an instance: cancel a
send, stop, let the keep-alive period elapse, break the link, stall it.

### `RingBuffer`, `LaneQueues`

`slots`, `idxR` and `idxW` are the shared array and words; `localW`, `cachedR` of a
writer handle and `localR`, `cachedW` of a reader handle are its own word and its
copy of the other side's. `kind` selects one of the three rings of the
program: `mpsc` (a writer per lane under the lock of its lane, which books; one
reader), `spmc` (one writer, a reader per lane) and `spsc`. A handle that shares its
word replaces the bits of its lane (`update::m`), another stores the word
(`update::s`); both are `UpdateW` and `UpdateR`. `push` and `book` are `StartWrite`,
`RefuseBooked`, `Refresh` (the look at the other index), `Put` or `PutBooked`, and
`PublishW`; `WriterPeek` is `Modify` and `Commit`. `pull`, `pull_priority` and
`peek_mut` are `StartRead`, `Reload`, `Take` or `PeekMut`, `PublishR`. `DropRing`
is `Drop for RingBuffer`. Of the words of a handle only its own lanes are kept.
`Modulus` is 256 in the code; capacities there are powers of two, here
divisors of the modulus.

### `RxPipeline`

| variables | code |
|---|---|
| `todo`, `cur`, `nextsn`, `fragid` | the link: messages to come, the one being sent in fragments, the sender's numbers |
| `tpc`, `hand`, `late` | `read_task` inside `PipelineRxIn::push`, its batch, its timer has fired |
| `dbuf` | `DefragBuffer` |
| `ring`, `congested`, `canRecv`, `canSend` | the rings, the bits of `Status`, the events |
| `rpc`, `mode`, `rlane`, `plane` | `recv` or `try_recv` inside `try_pull`, the lane a scan has reached, the lane that was peeked |
| `got`, `sawClosed` | what was returned |
| `arrived`, `expired`, `overtaken` | history: complete at the reader task; given up when its time was over; removed by a pull meant for another batch |

- `read_task` → `ReadFrame`, `ReadFragment` (with `Start`, `Accepts`, `Extended` for
  `DefragBuffer`), `ReadEnds`; `PipelineRxIn::push` → `Push`, `Notify`, `Full`,
  `Waited`, `TimerFires`; its drop → `CloseTask`.
- `recv` and `try_recv` → `StartRecv`, `RecvWaited`, `RecvEnds`; `try_pull` →
  `ScanEmpty`, `ScanHead` (`peek_mut`), `PullEmpty`, `PullHead` (`pull`, which scans
  again), `Pulled`.
- `Receiver::stop` → `StopReceiver`; `ReceiverTask::stop` → `StopTask`.

The link (`Begin`, `Lose`) sends the messages of a lane in order. A fragment may fail
to arrive: the sender discards it when its message has failed. How many
fragments may be put together, `FragMax`, stands for `max_frag_size`. Sequence numbers and
fragment ids are natural numbers here and wrap in `Wire`.

### `Bytes`, `Codec`, `Wire`

`Bytes` holds operators, one per method, on sequences of chunks; a reader is a record
with a cursor, and every operation returns the reader as it leaves it, also when it
fails. A loop of the code is `Loop`, a function of the number of its turns, of which as many
are taken as there are chunks (or bytes of an integer), and a turn leaves alone what is finished. `Codec` writes and reads variable-length integers, headers and payloads as
sequences of pieces, each written whole or not at all, which is how a write that does
not fit leaves a part behind. `Wire` has one action per step of
`StageInPrio::push` (`Append1`, `WriteFrame`, `WriteFirst`, `WriteNext`), of the
reader task (`Receive`), of `try_pull` (`Pull`) and of the application's reader
(`ReadOn`). `EncodingFailed` leaves the batch as the code does. The numbers are scaled: a byte of a
variable-length integer holds `Group` values and its mark, the integer has at most `VleMax`
bytes, the modulus of sequence numbers is `2 * Half`, lengths end at `LenMax`.
Payload bytes are larger than any header byte and different from each other.

Accesses are sequentially consistent in all modules. The events rely on the
fences inside `event_listener`. A slot of a ring is written before the release of the
index that gives it away and read after its acquire, so that the order of the
model is the one the code enforces; where it reads an index relaxed, the model's
old copies stand for what may be seen. A word shared by several
handles is only updated by atomic read-modify-write operations.

## What the runs check

Messages are numbered and their attributes are tuples, defined in the `MC` modules.

| run | instance | states | shows |
|---|---|---|---|
| `event` | 3 notifying threads | 0.6 k | no wakeup is lost; `Event` implements `Signal`, with liveness |
| `lane` | `MCTx`: 2 senders, 1 lane, 1 buffer; block, drop and a message of 2 fragments; keep-alive, cancel, failing writes | 640 k | buffers, refills, failed sends, gapless numbers, fragments |
| `stop` | `MCTx`: 2 senders, 2 lanes; frame and fragments; `Sender::stop` | 290 k | sends return, the stop ends, what was accepted before it is written |
| `linkdown` | `MCTx`: 2 senders, 1 lane; a best-effort message in fragments, a frame, an express message; failing writes, both stops | 4.6 M | nothing lost or written twice, wire in order, buffers not recycled twice |
| `progress` | `MCTx`: 2 senders, 1 lane, keep-alive | 32 k | accepted reliable messages are written |
| `ring` | `MCRing`: 2 lanes of 2 slots, modulus 4, each kind of ring | 1.8 M | slots exclusive, indices in step, `RingBuffer` implements `LaneQueues` |
| `rx` | `MCRx`: 2 lanes of 1 batch; 2 frames, messages of 4 (too many), 2 and 3 fragments; lost fragments, both stops, cancelled `recv` | 346 k | whole messages, order, both wakeups, every wait ends, arrived messages are received |
| `wire` | `MCWire`: 4 batch sizes, numbers modulo 8, messages of 0 to 11 bytes in up to 3 chunks | 0.2 M | what is sent is what is read, in bytes |
| `idle`, `hangs`, `lostbatch`, `closedrecv` | small instances | | [violations](#where-code-and-documentation-disagree) |

The bounds are chosen for the interesting cases. One buffer per lane makes every
second batch a wait, puts a sender between its own booked batch and the writer
task, and fills every ring; more buffers only remove conflicts. `FrameMax = 2`
lets a third message overflow a frame. `CoalesceMax = 2` allows one
`try_pull`, hence a partial failure inside a coalesced write and a second lane
served from the first one's loop. Two senders give the lock, the event and the
token of a lane a competitor, and are interchangeable (symmetry is used in runs
of safety properties only). Two fragments make a first and a last one; the
`more` kind does not differ from `last` for any property of the sending side.
`AllocMax`, where the allocation counter saturates, is one above the capacity: nothing
depends on how far above.

In `ring`, indices wrap after two rounds of the slots: the wrap, full and empty
meet in every combination. The ring does not look at its elements, so that one marked
element among equal ones (the constraint `OneMarked`) shows loss, repetition and
disorder. Two lanes make a scan, a second handle of a shared word, and a copy of it in which
one lane is new and another old.

In `rx`, lane 2 has a message of four fragments where three may be put together,
followed by one that fits: the refused one's last fragment and the next one's
first follow each other. One batch per lane makes the reader task wait for space;
two lanes let a batch arrive in a lane that a scan has passed. In `wire`, batch size 4
is too small for the head of a fragment, 7 leaves room for a byte of data or so, 8 and
10 take a message or several; sequence numbers start at 0 and just before the wrap; a length has one byte or
two; a message has one chunk, a written and an appended one, three,
or more bytes than may be put together.

Deadlock is not checked because every one of these systems rests when its messages are
sent or its handles dropped; the liveness properties say that it does not rest too early.

Properties of `TxProperties`, with the mistake each must notice:

| property | says | mistake |
|---|---|---|
| `TypeOK` | types, `nref` within the hand | position in the hand not reset |
| `BufferConservation` | buffers of a lane in exactly one place, never more than allocated, hence no ring overflows | buffer not pushed back |
| `WaiterLeavesNoBatch` | a waiting sender holds its lane and left no booked batch | own batch not looked at first |
| `RefillNotMissed` | waiting, event unset: no buffer, or the event is about to fire | event does not fire |
| `FailedNotDelivered` | a failed or cancelled send never reaches the wire as a whole, so it may be repeated | one batch too many asked for |
| `WireGapless`, `WireInSequence` | sequence numbers per lane and congestion control: no gap, growing | number advanced twice, or not committed; failed batches kept for the drain |
| `FragmentsTogether` | fragments consecutive in their lane and in order | lane unlocked between them |
| `AcceptedNotLost` | every piece of an accepted message is queued or written, once | congestion discards reliable batches |
| `StopLosesNothing` | accepted before a stop: on the wire when the task ends | first lane not flushed |
| `BlockDelivered` | accepted reliable messages are written or the task ends | a batch that stopped growing is left alone |
| `SendReturns`, `StopTerminates` | no send and no stop waits for ever | the wait for a buffer has no timer |

Properties of the other modules:

| property | says | mistake |
|---|---|---|
| `NoLostWakeup`, `ImplementsSignal` | a waiter does not sleep on a set flag; events are signals | no second check after registering; the check does not take the token |
| `SlotsAreExclusive` | a writer about to store finds its slot free, a reader about to take finds it full | every reader stores the whole word |
| `IndicesInStep` | indices, words and copies follow each other within the capacity | full computed without wrapping |
| `ImplementsQueues` | each operation is one of a bounded queue; the rest is destroyed once | the destructor stops at the wrap |
| `WholeMessages` | what is returned is one message, whole, in its lane | `sync` without `clear` |
| `InLaneOrder` | order of sending within a lane, nothing twice | position in a batch not kept |
| `ReliableKept` | arrived reliable messages are returned or waiting, with three named exceptions | congestion drops any batch |
| `ArrivalNotMissed`, `BlockReceived` | `recv` does not wait for what is there; what arrived is received | the receiver is not notified |
| `SpaceNotMissed` | the reader task does not wait for space that is there | the space is not announced |
| `PushReturns`, `StopEnds` | the reader task gives a batch up in time; a stop ends it | the timer starts anew; reads do not see the token |
| `DeliveredAsSent` | content and order, byte for byte; after a failed push losses only | position kept as the start of the batch |
| `BatchFits` | a batch is as long as announced and at most `batch_size`; fragments carry data | room computed for a frame's header |
| `EverythingDecodes` | a batch is refused only after a push failed, a push fails only where a head does not fit | no rewind |
| `DecodersAgree` | three ways to decode a payload agree in bytes and cursor | the cursor moves before the view is known to exist |
| `InSequence` | numbers go up by one and are later, across the wrap | number of a frame not taken |
| `ReadsFlat` | a reader of chunks implements a reader of flat bytes | offset taken within the chunk |
| `SendEnds` | the loop of fragments ends | each fragment begins with the message |

`ReliableKept` and `BlockReceived` except what `expired` and `overtaken` name: the first is
the documented timeout of a push, the second the disagreement shown by `lostbatch`.
`SpaceNotMissed` holds only while nothing was overtaken, because a pull that
takes another lane's batch announces the space to the lane it has peeked; the
reader task then waits until its time is over, which `PushReturns` covers.

`Lossless` is the condition under which a best-effort message must arrive: no
send failed in a way that lets the writer task discard batches.

Fairness. A send that has begun is polled and its timers expire
(`SenderFairness`); no caller has to send, to repeat or to cancel. The writer
task is polled, its keep-alive timer fires, and its token is noticed: strong
fairness for `SeeToken`, because the token is looked at at each suspension point
of a pull, and a pull goes in and out of these. A write ends or its timeout ends
it; the write of a keep-alive has no timeout, so that its end is assumed only
where the link does not stall. `KeepAliveIsSlow` says that the keep-alive timer does not for
ever interrupt a pull that is backing off: the period is three seconds, a
back-off ends after a few yields to the scheduler. Without it, a pull could be
restarted with fresh locals for ever just before it flushes. Locks are granted
by the fairness of the step that takes them; with finitely many messages no
stronger assumption is needed.

In `RxPipeline` the reader task is polled (`Push`, `Notify`, `Full`, `Waited`), its timer
fires and its token is noticed in a read; the link owes nothing and no application
has to receive. `BlockReceived` alone assumes one that does (`Receiving`), in
the property, so that `PushReturns` and `StopEnds` hold without. In `Wire` a push
that has its buffer goes on, batches that have arrived are read, and the application
pulls; the enabling conditions are spelled out in `Fairness`. The liveness of an event is in
`Event`. A ring promises nothing about time.

## What is proved

The theorems hold for every value of the constants that satisfies the
assumption named in the module: at least one lane and one buffer, attributes of the
right types (`TxAssumption`, `RxAssumption`), senders distinct from the names of the
other lock holders, a modulus that is a multiple of the capacity and at least twice
it (`RingAssumption`), an even modulus of sequence numbers (`SeqNumAssumption`), a byte of an integer that
holds at least two values and its mark (`CodecAssumption`), any plans, settings and batch sizes up to
`LenMax` (`WireAssumption`). `EventProofs` needs none.

- `EventProofs`. `NoWakeupIsLost`: `[]NoLostWakeup`. The inductive invariant
  adds what the two checks establish: a listener exists from `Listen` on, and
  while the flag is set somebody who set it is still to notify. `EventRefinesSignal`
  proves the safety part of the refinement, each action against its abstract
  one; liveness is checked by TLC.
- `TxProofs`. `TypesAreKept` and `NoWaitForOneself`. `TypeOK` alone is not
  inductive: writing into `Head(booked[p])` is typed only if there is a booked
  batch. The strengthening is `LockInv`: a sender between acquiring and unlocking
  holds its lane, a writing one has a booked batch there, a waiting one has
  none, the writer task and a stop hold the lanes they have locked so far. Its
  proof separates what an actor does (`OnlyOwn`: it moves booked batches only in
  lanes that are its own or free) from why the others do not notice
  (`OthersKeep`).
  `NoRefillIsMissed` is inductive with `LockInv`, because only
  the holder of a lane takes its buffers and its token. `BuffersAreConserved`
  needs, besides types and locks, that a batch carries the priority of its lane
  (`PrioInv`), by which `refill` finds the way back. Its proof classifies the
  actions by how a buffer changes place (`Booked`, `Filled`, `Flushed`, `Taken`,
  `GivenBack`, `LetGo`) and counts once per class.

  `WrittenInSequence`: `[]WireInSequence`. The fragments and messages of a lane
  stand in one line: the wire, the batches the writer task holds, those in the
  ring, the booked one. `LineInv` says that the numbers along the whole line are
  successive up to the lane's counter, which is what a message being
  copied continues from. Every action either moves a batch along the line, which leaves
  the line as it is, or adds at its end, which only the holder of the lane does.
- `TxMessageProofs`. Five invariants of `TxProperties` about messages, along the same line.
  `MsgInv` ties what a sender still has to write to what it has put on the
  line; `Sound` says which messages may be incomplete there (one being sent, or one
  that failed); `OpenInv` that nothing follows the fragments of a message that is being
  sent, and `TogetherInv` that they are adjacent. From these follow
  `FragmentsInOrder`: `[]FragmentsTogether`, and `FailedSendsIncomplete`:
  `[]FailedNotDelivered`. `CountInv` says that every piece of a message that `push`
  accepted is on the line once, hence `AcceptedMessagesKept`: `[]AcceptedNotLost`; with `GapInv`
  (a gap on the wire is behind a write that failed), `WrittenWithoutGap`:
  `[]WireGapless`; with `DrainInv` (what a stop has drained holds nothing more),
  `StopDeliversAccepted`: `[]StopLosesNothing`.

- `RingProofs`. `RingTypes`, and `IndicesFollow`: going round the circle from a
  writer's copy of `idxR`, one meets `idxR`, the reader's own index, its copy of
  `idxW`, `idxW` and the writer's own index in this order, all within the capacity
  (`Follow`). This is what makes an old copy safe: it errs on the side of full, or of
  empty. Every access moves one of the six up to its neighbour, or the last one by one
  when the copy says that there is room; the arithmetic of the circle is
  proved once (`FollowSteps`). `WriterInv` and `ReaderInv` carry a decision from the access
  where it was taken to the one that relies on it.
  `SlotsExclusive`: the slots that hold something are exactly those of
  the indices from the reader's own to the writer's own, and one more when
  an element is booked (`LaneSlots`). With `Follow` there are at most as many as slots, so
  that two of them are never in one slot; this needs that the modulus is a multiple of the
  capacity, without which slots would repeat at the wrap.
  `RingImplementsQueues`: `Spec => ImplementsQueues`. A lane's queue is what its slots
  hold from `idxR` to `idxW`; its first element is in the reader's hand between the access
  that moves it out and the one that publishes the index. `ViewInv` says that an
  atomic word is one behind its own side's index exactly in that gap, which with
  `Follow` makes the queue well defined (`QueueRoom`, `QueueCells`). Each operation is then one
  step of the abstract queue, taken at one of its accesses: a push at its store, a booking at
  its `fetch_or`, a commit at its exchange, a pull at its update, a refusal or a miss where the
  copy of the other side's index is refreshed; every other access is a stutter (`Keep`).
- `RxProofs`. `RxTypes`, with `Shape`: the task holds a batch exactly in the states of
  its push. `ArrivalsAnnounced`: a scan has passed only lanes that are empty or
  about which the receiver has been, or is about to be, told (`ScanInv`). `SpaceAnnounced`:
  the task that has found its lane full finds it full, or finds its event set or about to
  be. The step that could break it is a pull of another lane's batch; `FreshInv` shows
  that such a batch has not been read from, so that the pull is recorded in `overtaken`.
  `ReturnedWhole`: `[]WholeMessages`. The buffer that has the id of
  the message being sent either holds exactly its first pieces, and then the expected
  number minus their count is the link's number minus the count of those sent, or it has
  missed one and expects a number that is past (`DefragInv`). A fragment accepted by
  its number and id is therefore the next one, and a last one completes the message.
  `HoldInv` carries this through the batch, the ring and the returned messages.
  `ReturnedInOrder`: `[]InLaneOrder`. The messages of a lane stand in one line: those
  returned, those left to read in the ring and in the task's batch, those still on the
  link, of which the one being put together is first. Each part ascends and lies
  below the next (`OrderInv`), and a step changes the line in one of five ways
  (`LineMoves`): it leaves it alone, adds at its end, gives one up, moves one to
  the returned, or removes what was read. `ReliableMessagesKept`: `[]ReliableKept`. A
  lane is all reliable or all best-effort (`KindInv`), the batch that `recv` has peeked and is about
  to remove holds nothing reliable that is unread (`PulledInv`, which needs the lane's
  `overtaken` to be exactly what `rx.rs:199` removes by mistake), and what was sent reliable is
  in the line (`KeptInv`).
- `CodecProofs`. The order of sequence numbers for any even modulus: `AheadIsLater`
  and `NextIsLater` across the wrap; `OrderIsOneWay` shows that comparison is antisymmetric
  except for two numbers exactly half the range apart, each of which is
  "greater" than the other (`seq_num.rs:86`). The pipelines never compare such numbers.

  Then the operators of `Bytes` and `Codec`, for any chunks and any cursor. The content is
  characterised by where each chunk lies in it (`FlattenIs`, `ChunkPlace`), a cursor by its
  offset (`OffsetIn`). A loop is proved by induction on its turns: `Gone` says how
  many of the bytes asked for are left and where the cursor is, a turn keeps it (`GoneTurn`)
  and goes one chunk further or is the last, so that after as many turns as there are chunks the
  loop has ended (`GoneEnds`). The result for each operation is one of three
  answers: it `Gets` the next bytes, it `Wastes` all there are, or it `Refuses` and stays.
  `Advances` shows that only `backtrack` leaves a cursor at the end of a chunk (`Firm`),
  `FirmUnique` that elsewhere offset and cursor determine each other.

  Last, the inversion of the codec. The digits of an integer are read back one by one
  (`IntegersReadBack`): after as many turns as bytes of continuation the decoder has the sum of the
  digits so far, and the last byte ends it. `IntegersReadAcross` says the same where the bytes lie
  across chunks, as the length of a message does that arrived in fragments. `HeadersReadBack` puts the parts of a header
  behind each other: whatever `HeaderPieces` writes at the cursor, in one chunk, `ReadHeader`
  gives back, and it stops where the payload begins. It asks for `SnsFit`: a sequence number
  has a representation (28 bits in at most nine bytes).
- `WireProofs`. `WireTypes`: `[]TypeOK`. The inductive invariant is `Typed`: besides types it says
  that every reader in the state, the one of the push under way, the one a batch in
  the ring would be resumed with, the application's, has its cursor within its chunks,
  that the first two are `Firm`, and that no `Bytes` has an empty chunk.
  `ImplementsFlatReader`: `Spec => ReadsFlat`. Every operation of the application's reader is
  the step of `FlatReader` with the same answer: the data are the bytes at the offset (`FlatGets`),
  a failed exact read has consumed the rest (`FlatWastes`), and the refusal of a `u8` or a
  `siphon` at a cursor that `backtrack` left at the end of a chunk is the one that
  `FlatReader` permits by `back`. `PayloadsDecodeAlike`: `[]DecodersAgree`. A view of one chunk,
  views of several and a copy take the same bytes and leave a `Firm` cursor at the same offset
  (`GivesSame`); that equality of `Bytes` does not see the cuts is `EqualIs`.

  `WhatIsWrittenDecodes`: `[]EverythingDecodes`, `ArrivesInSequence`: `InSequence`, and
  `BatchesFit`: `[]BatchFits`. They follow from one invariant, `Flow`: what is on the wire is a
  list of batches that the sender can have written (`Sendable`: a header and what stands behind
  it, not longer than `batchSize`, and data in all fragments but the first), and the batches
  of a congestion control in this list, followed by the frame that is being filled, have
  consecutive numbers from the last one received up to the last one taken from the pool
  (`Carries`, `Counted`). A push that is in the middle of its fragments has nothing booked, the next
  number and something left to send. `Justified`: a push fails only where a batch is shorter
  than the longest head. Assumed are `SnsFit`; for the order of consecutive numbers `Half > 1`;
  for `BatchesFit`, `Ample`: lengths have 16 bits and a batch has room for the longest head, which is
  19 bytes in the code, where the default is 65535. Without `Ample` the room of a fragment wraps
  (`FragmentRoom`), and `wire` with batch sizes of 4 shows pushes that fail.
- `DeliveryProofs`. `ArrivesAsSent`: `[]DeliveredAsSent`, the round trip of a message from `send`
  to `recv`. The invariant beside `Flow` is `Told`. A *mark* is the state in which the receiver
  will be after some batches: its defragmentation buffers and how many messages have
  arrived. `Brings` says to which mark a batch takes the receiver from the mark before it, `Leads`
  chains this over the wire. The ring holds the messages from the last one
  returned up to the mark at which the receiver is (`Waits`, `Behind`); the wire leads from there
  to a mark at which the booked frame holds exactly the messages that are still missing (`Owes`)
  and the buffer of the receiver exactly the part of its payload that the push under way has sent
  (`UnderWay`, `Reached`); and `Tells` says which bytes are which messages. All of it is about the
  one list `Deliverable`. A step of the sender adds to the end of the chain (`AppendSends`,
  `FrameSends`, `FirstSends`, `NextSends`), so that it needs to know only the last mark; a
  step of the receiver takes the first batch and goes to the next mark (`ReceiveBehind`), or a
  message from the ring (`PullBehind`). When nothing is under way all the marks are one.

  An oversize message makes this hard. The receiver refuses one of its fragments, keeps the buffer
  and its number, and refuses the others because their numbers are later; `Reached` counts how far
  they are ahead. Were there as many further fragments as there are sequence numbers, one
  would be accepted again. `Numbered` excludes this: a message that `max_frag_size` refuses takes
  fewer fragments than 2^28, which with batches of 65535 bytes is 17 terabytes. The other
  assumptions are `SnsFit`, `Ample` as for `BatchesFit`, and `LengthsFit`, that the length of a message has a
  representation; in the code every `usize` has one in nine bytes. All four hold of the plans and
  scale of `wire` with batches of 8 and 10 bytes. Those of 4 and 7 are too
  short for `Ample`; where a push has failed in one, `DeliveredAsSent` says only that what
  arrives is in order and unaltered, and this is model-checked.

Only model-checked, on the instances above: everything about liveness, with the
liveness part of `ImplementsSignal`, because fairness and ENABLED are outside what the
prover can do; and `DeliveredAsSent` and `BatchFits` with batches that are too short for `Ample`.

## Where code and documentation disagree

Each of these is a run that expects a violation.

| run | documentation | code |
|---|---|---|
| `idle` | `src/lib.rs:278`: batches that stop growing are flushed, so that no idle batch waits | `tx.rs:529`: a sender that sees BACKOFF stays silent even if the writer task resets it and parks; the batch waits for the next send or the keep-alive timer, which bounds the delay at three seconds |
| `hangs` | `sender.rs:372`: the write timeout prevents hanging | `sender.rs:652`: the keep-alive is written without it |
| `lostbatch` | `congestion_control.rs:24`: reliable messages are never dropped due to congestion | `rx.rs:199`: an exhausted batch is peeked in one scan and removed in another; a batch of a higher priority that arrives in between is removed unread |
| `closedrecv` | `rx.rs:125`: no receive succeeds after `Closed` | `rx.rs:155`: the end of the reader task overwrites a notification; `recv` reports `Closed` with messages in the ring, which later calls return |

Others are visible in the models or the code and have no run of their own:

- `tx.rs:578`: the congested bit is set after the lock was given back and stays if
  nothing is left to pull; only a pull clears it, so that best-effort sends are
  dropped until a reliable message passes (`sender.rs:189`: congested means out of buffers).
- `tx.rs:529`: while BACKOFF is left set by a writer task that has ended, sends
  succeed, since nobody is notified (`tx.rs:180`: once closed, all sends fail).
- `tx.rs:644`: the block passed to `then_some` is evaluated eagerly, so that each
  failed attempt allocates a buffer, counts it and throws it away; `allocated`
  passes the capacity, against `tx.rs:609` ("up to capacity"). The model keeps
  this (`CountAllocation`), and `BufferConservation` shows that it is harmless.
- `tx.rs:306`: a Block message does return `Dropped` when the writer task ends
  while it waits for a buffer, against `tx.rs:148`.
- `tx.rs:571`: `push` never reads DISABLED, so that a clone of the sender goes on
  sending after a stop, against `sender.rs:283` ("rejecting new messages").
- `sender.rs:694`: after a write that failed or timed out part-way, `drain`
  writes the remaining batches behind one that may be cut off.
- `sender.rs:223`: `Sender::is_closed` always answers false.
- `tx.rs:427`: a failed encoding leaves what it wrote in the booked batch. `DeliveredAsSent`
  shows that messages are lost by this and none is altered.
- `tx.rs:461`: where the header of a further fragment fits with no room left, the
  loop sends fragments without data for ever; batch sizes for which this happens are
  kept out of `wire`.
- `rx.rs:439`: "errors clear the buffer" is true of a fragment in the middle only; a
  refused last one leaves it to the `clear` of the next first one.
- `rx.rs:464`: `max_frag_size` counts the length that precedes the message too.
- `common.rs:222`: an element that is booked and not committed when the ring is destroyed
  is not visited, against "every initialized element".
- `bytes.rs`, `chunk.rs`: an empty `Chunk` at the very end of the input is refused where an
  empty `Bytes` or `Vec` is read (`DecodersAgree` excepts it).
- `qos.rs`: the comment puts the flags at bits 3 and 4; with `Priority::BITS` = 2 they
  are bits 2 and 3. The QoS byte of a frame is that of its first message: the express
  flag of a message appended to it is not transmitted.
- `priority.rs`: the assertions of `_CHECK` do not hold of the constants, and are never evaluated.

## What is not modelled

- Time: deadlines, the progress interval and the age of a batch are "may expire
  now". Which of two bounds a timeout came from (`tx.rs:301`) is not told apart.
  `AtomicDuration` (`src/sync/time.rs`) is one word, loaded and stored whole.
- Weak memory beyond what is said above.
- `Boomerang` and `OnDrop`, which give a buffer back when its last reference goes: they rest on
  the reference counts of the language. A buffer given back is not written while a chunk shows it.
- Codecs of strings and arrays, which no message uses; conversions, formatting and iterators
  of the buffers; defaults and names in `src/protocol/core/`.
- Builders, setters and statistics: they only choose values that are left open.
- Benchmarks, examples and the integration test: they use the library.
