# A TLA+ model of posix-bsp-perf

posix-bsp-perf is a collection of C++ libraries for boards with cameras and
accelerators (Jetson and Rockchip), with samples and an application, the data
recorder, built on them. These modules model the logic that is its own: event
loops, timers, thread pool, TCP and UDP; the shared-memory IPC; the recorder
from the camera to the screen and to the file; the codecs, containers, the
inference and the graphics library as their clients drive them. What vendors'
libraries and the kernel do is external and is modelled as the outcomes that
the code has to be ready for.

## The system

| part | source | state | operations | modules |
|---|---|---|---|---|
| thread pool | `bsp_sockets/impl/ThreadPool.cpp`, `ThreadQueue.hpp` | a queue, mutex and eventfd per worker; a round-robin index | `runTask`, `sendMsg`, `recvMsg`, `onMsgComing` | `Handoff`, `ThreadQueue` |
| timers | `TimerQueue.cpp` | a heap, a map from id to position, a timerfd | `addTimer`, `delTimer`, `getFiredTimerEvents` | `Timers`, `TimerQueue` |
| event loops | `EventLoopEpoll.cpp`, `EventLoopPoll.cpp`, `EventLoopLibevent.cpp` | map from descriptor to callbacks, what the kernel or library watches, pending tasks | `processEvents`, `addIoEvent`, `delIoEvent`, `addTask`, `runTask` | `LoopCore`, `EpollLoop`, `PollLoop`, `LibeventLoop`, `EventLoops` |
| TCP server | `TcpServer.cpp` | connection count, pool of connection objects, reserve descriptor | `startLoop`, `stop`, `doAccept`, the life of a connection | `TcpServer` |
| TCP connection | `TcpConnection.cpp`, `IOBuffer.cpp` | descriptor, input and output queues | `activate`, `handleRead`, `handleWrite`, `sendData`, `cleanConnection` | `TcpConnection`, `Transports` |
| TCP client | `TcpClient.cpp` | descriptor, connected flag, output queue | connecting, reconnecting, reading, writing | `TcpClient` |
| UDP | `UdpServer.cpp`, `UdpClient.cpp` | a socket, two buffers, the latest sender | start, stop, `handleRead`, `sendData` | `MsgHead`, `Udp`, `Transports` |
| shared-memory port | `midware/zeromq_ipc` | a ring of slots, PUB/SUB and REQ/REP sockets | `getFreeSlotIndex`, `publishData`, `receiveMsg`, `receiveSharedMemData`, `waitSync`, `replySync` | `ShmRing`, `ShmPort` |
| camera | `data_recorder/sensor_clients/camera` | a pool of buffers, a packet queue, a frame queue, three threads | receive, decode, publish, stop | `CameraPipeline` |
| object detector | `data_recorder/obj_detector` | a free list, a bounded queue, two threads | receive, detect, publish | `ObjDetector`, `Viewer` |
| user interface | `data_recorder/ui` | a buffer per source, Qt's queue, the grid of widgets, the recorder | consume, show, switch the source, record | `Gui`, `Viewer`, `Recording` |
| decoders | `bsp_codec/video/nvVideoDec.cpp`, `rkmppDec.cpp` | packet queue, threads, device buffers | `setup`, `decode`, `tearDown` | `Decoder`, `NvDecoder`, `RkDecoder`, `Decoders` |
| encoders | `nvVideoEnc.cpp`, `rkmppEnc.cpp` | buffer pool, device planes | `setup`, `getInputBuffer`, `encode`, `tearDown` | `EncoderCore`, `NvEncoder`, `RkEncoder`, `Recording` |
| containers | `bsp_container` | context, streams, header, counts | open, add, read, write, end, close | `Muxer`, `Remux`, `Recording` |
| inference | `bsp_dnn` | engine, plugin, tensors, boxes | `loadModel`, `pushInputData`, `runObjDetect`, `popOutputData` | `DnnEngine`, `Detections`, `DnnObjDetector` |
| 2D graphics | `bsp_g2d` | the map of buffers on Jetson | `createBuffer`, `releaseBuffer`, `syncBuffer`, `imageResize`, `imageCvtColor` | `Graphics2D` |
| detection samples | `samples/bsp/video_objDetect`, `dnn_objDetect` | frame queue, flag, two conversion buffers, three threads | init, process, release, callback, inference thread | `VideoDetect` |

How they interact. The acceptor's thread runs `doAccept` in the server's loop
and hands each connection to a worker through that worker's `ThreadQueue`: a
message is pushed and an eventfd written. The worker's own event loop takes the
whole queue and activates the connections, which register with the same loop and
from then on are called back by it. Timers belong to a loop; a client lives on
one and reconnects with a timer of it. In the recorder every camera has a
receiving, a decoding and a publishing thread; frames leave it through the slots
of a shared-memory ring and are announced over ZeroMQ; the object detector, in a
process of its own, copies them out, detects, and publishes through a ring of
its own; the interface, a third process, has one consumer thread per source and
gets to the GUI thread through Qt's queue. A recording is an encoder and a muxer
that the interface drives; a decoder calls back from its own thread (Jetson) or
from within `decode()` (Rockchip).

Hard to test, and what the properties are for: the order of queue and eventfd; a
batch of events that is out of date when its later events are dispatched;
descriptors that are used again while somebody still holds the number; a heap
that is changed in the middle; running out of descriptors; TCP cutting messages,
UDP losing them; a ring whose writer does not wait; queues that drop their
oldest entry between threads; planes of device buffers across end of stream,
change of resolution and tear down; a notification that comes between a look and
a sleep; one failing call in a chain of buffers that are used again.
`PROJECT.json` lists each hazard at its line with its properties.

## The modules

### Sockets

`Handoff` (abstract) and `ThreadQueue`. Handoff is a FIFO channel per worker that
is closed at most once. ThreadQueue has one step per access to shared state:
`SendPush` and `SendWrite` are the two halves of `sendMsg`, `RecvRead` and
`RecvSwap` those of `recvMsg`, each between taking and releasing `m_mutex`.
`HandleMsg` is one turn of `onMsgComing`'s loop, `RunTask` one of `runTask`'s.
The refinement maps the channel to the worker's batch followed by its queue.

`Timers` (abstract) and `TimerQueue`. Timers is a set of pending timers.
TimerQueue is the code: `heapAdd`, `heapDel`, `heapPop` and `heapHold` on a
sequence with the map of positions, as operators on a record `tq`, and actions
for what the loop does with it: `Poll` puts the timerfd in the batch, other
callbacks add and delete timers, the timer callback pops what it takes to be due
and `CallBack` calls the callbacks of its copy. The loops over the heap are folds.
All three event loops pass their timer calls on to it; the round is that of epoll.

`LoopCore` is what the three loops share (the map, the pending tasks, the user's
code), `EpollLoop`, `PollLoop` and `LibeventLoop` are the loops, and
`EventLoops` is the one `IEventLoop::create` made, by `backend`, together with
its users. While a callback or task runs it may register, unregister, close and
reopen descriptors and add tasks. `PollLoop`'s array is the kernel's view and
the batch in one, so a deletion shifts what is walked through.

`TcpServer`. One action per stretch of code between two accesses to what threads
share. `files` is the descriptor table; the lowest free number is given out.
`cleanConnection` is four steps, because the acceptor and other threads can come
between them. Two history variables say when something went wrong that the code
does not notice: `lost` (the reserve descriptor was not opened again) and
`reused` (a descriptor was activated before `m_connection_fd` was set to -1).
`MCConfigs` has the servers of the run: with a pool of threads, and with
`thread_num = 0`, also with too few descriptors.

`TcpConnection`. One object over successive connections, on one loop. The
client's stream is counted in words of four bytes, the network cuts it anywhere,
one read is one buffer. `Udp` is the server and the clients with the exchange of
the samples, over a bag of datagrams; what was read stays in `m_rbuf` under the
next datagram, as in the code. `MsgHead` is the head both transports read, and
`Transports` is a server on either of them.

`TcpClient`. The object and its registrations are one record, because one
callback runs through several functions. Its timers are those of `TimerQueue`,
instantiated with the client's delay.

### Data recorder

`ShmRing` is one port: a copy into a slot and a copy out of it are two steps
each, because publisher and subscriber share no lock. `ShmPort` has the two ways
it is used, the recorder's (nobody waits) and the sample's handshake, whose
socket is bound and closed for each request and may take one with it.

`CameraPipeline` is `CameraClient` with `VideoDecHelper`: `runLoop`,
`decoderLoop`, the decoder's callback and `consumerLoop`, with the growth of the
buffers, both bounded queues and the order of the destructors (`owner`).
`Released(b)` are the orders in which `std::sort` may leave the pool, which says
nothing about buffers of one size.

`ObjDetector` is `runLoop` and `inferenceLoop` over a free list and a bounded
queue. `Gui` is the interface: a consumer thread per source, Qt's queue, the
controller, and the grid of widgets with the place of every source that
`setupVideoGrid` gives it from the configuration. `Viewer` composes the two:
what the detector publishes is what its source in the interface consumes.

`Recording` composes both encoders with `Muxer` under the recorder, the encoding
sample, and `Remux`, the samples that take a container apart and put one
together: what the first two have written goes through the others. `NvEncoder`
and `RkEncoder` extend `EncoderCore`, which has the call, the frames and the
packets; a frame has the number of the call that brought it. A setup of
`nvVideoEnc` may fail at any step (`up`, `slots`: how far it got, and how many
buffers of the capture plane the device has), and a call that fails between taking
a buffer of the device and giving it back loses it; `lapses` counts both. A
context of MPP that was never made is called all the same (`CallCrashes`).

### Codecs, inference, graphics

`Decoder` (abstract) is what a client of `IDecoder`, or with packets for frames
of `IEncoder`, may rely on: outputs in the order of their inputs, each once.
`NvDecoder` has the client, the decoder thread, the capture thread and the V4L2
device; `RkDecoder` the calls into MPP; `Decoders` is the one of the platform.

`Graphics2D` and `DnnEngine` are the calls as the outcomes they may have, on
either platform: what the destination shows afterwards, what the map of buffers
or the engine still holds. `Detections` are the pure functions of the plugins:
candidates of a grid, their boxes in the picture, and their suppression, written
as the loops of the code and checked against a definition without an order.
`DnnObjDetector` is the detector over an engine and a plugin; `VideoDetect` its
two clients. Of the encoder `VideoDetect` has how its setup ended, which nobody
looks at, and how far nvenc's output plane is filled: that decides whether the
inference thread comes back from `encode`, with a frame or with the end of stream
(`MayWait`, `EosWaits`), or waits there (`inf.pc = "waiting"`).

A module whose name ends in `Proofs` has the proofs about the modules it extends,
one whose name begins with `MC` the values a run gives its constants, where they
are not at the end of the module itself.

### Left out everywhere

Logging, addresses, parsing of options, pixel values, signals. `EINTR` is
retried by the code at once and does not show.

## The runs

| run | bounds | shows |
|---|---|---|
| `thread_queue` | 2 workers, 3 connections, 1 task, 1 poster | no lost wakeup; FIFO handoff, safety and liveness |
| `timer_queue` | 6 timers (renewed ones not counted), delays 1 and 2, period 2, clock to 3 | the heap implements a set of timers; what breaks its order; early firing; timers fire |
| `tcp_client` | 3 sockets, 3 messages, queue of 2, clock to 3 | order kept across reconnections, output written, reconnection on a used loop |
| `tcp_server` | 2 threads, 2 clients; 1 thread, 3 clients, one more than the pool has objects for; own loop, 3 clients that send, or 4 with 3 descriptors | descriptors, registrations and count agree; only a full server refuses; what clients close is released |
| `transports` | TCP: 2 clients, 2 messages each, 3 replies, queue of 2. UDP: 2 clients, a stranger, 4 datagrams, 1 fault | framing, no cross-talk, order of replies; whole messages, an undisturbed client is answered |
| `event_loops` | 3 loops, 2 descriptors, each opened twice, 2 tasks, 2 calls per callback | map and kernel agree, tasks in order, when an event goes astray |
| `shm_port` | 2 slots, 2 subscribers, 4 frames, 2 messages on the way | a reader gets its frame unless lapped; the handshake copies the file |
| `camera` | 3 messages of 5 kinds, queues of 2 and 1 | one owner per buffer; the newest packet is decoded |
| `decoders` | 4 packets, 2 buffers each way, 1 fault, 1 change of resolution | order, no loss, `decode` and tear down return |
| `recording` | 2 device buffers, 5 calls, 2 recordings, 2 formats, 5 containers | buffers come back, files can be played, packets in order, `encode` returns |
| `video_detect` | 3 frames, queue of 1, planes of 1 and 2 buffers, 1 fault, 4 scenes, 5 clients with a plugin | frames with their boxes, suppression, the stop drains and returns, nothing is kept |
| `viewer` | 3 layouts, 3 frames, queue of 2, 1 switch, 1 fault | one owner per frame, what a widget shows, the newest frame is detected |

Why the bounds are enough. Two workers and three connections make the round
robin wrap and each worker receive while another sends. Five timers are not
enough for a deletion to bring a rear entry under a later parent (the two have
to be in different subtrees); six are. Two sockets after the first let a
registration or a message of one reach the next, and the third shows that this
does not only happen to be right once. One server loop with three descriptors,
the reserve and room for two, is the smallest in which the limit, EMFILE and
EAGAIN after EMFILE all occur; two threads are what the race for a descriptor
needs. Two messages per client give every way to cut a message and to join two.
A UDP exchange of four datagrams has a question, its answer, the next question
and somebody else in between. Two descriptors in a batch of two are what a stale
event needs; a vector that grows from 1 to 2 is what `runTask`'s iterator needs.
Four frames go twice round two slots, so a reader can be lapped and can be told
of the same slot again. Three packets overrun a queue of two; of the messages
that do not fit the first buffer one is too large in its first part alone. Four packets
fill both planes of a decoder with two buffers and leave one to go through a
requeued one. Five calls over two recordings reach the second fill of an
encoder's plane after the first recording has ended with frames in the device, and
two buffers are lost one by one. A plane of one buffer is
filled by three frames even when one is dropped, one of two may be left unfilled at
the end of stream; a fault is enough to leave the plane of one without a buffer.
Three frames over a queue of one let the callback, the queue and the inference thread each hold
one when the flag is cleared. The scenes have a chain in which a suppressed box
would suppress the next, a tie, two classes at one place, and more boxes than
are reported. The layouts have cameras side by side, a source without a place,
a camera and a detector in one widget, and a configured grid. Every bound is a
constant of its module whose comment says "bound"; the sizes of queues and pools
are constants with the names the code has for them.

`CHECK_DEADLOCK FALSE` is set everywhere: the environment may stop sending,
bounds run out, and the process may end.

Symmetry is used for the descriptors of a loop, in a run without liveness.

### Fairness

Threads are scheduled by the kernel, so a step that stays possible is taken:
weak fairness of the steps of senders, workers, loops, callbacks and devices. A
mutex may be taken again and again by others: taking it is strongly fair
(`SendPush`, `RecvRead`). The server's read callbacks are strongly fair because
`doAccept`, on the same thread, disables them for a while; epoll reports a
descriptor that stays readable. Time passes. Nobody has to send, connect, close
or stop, with one exception: a client's `OutputIsWritten` says "once the peer stops
sending", because EPOLLIN is served before EPOLLOUT (`EventLoopEpoll.cpp:67-72`).
In the client the peer keeps reading and connects get resolved; no property
assumes that a connect succeeds. A device encodes and decodes what it is given;
a frame need not come, a call need not fail, and where a call may fail for ever
(a message that cannot be unpacked) no fairness is asked of it. `Transports` and
`EventLoops` have none and need none.

### What the properties say

ThreadQueue: `NoLostWakeup` (a queue with a message has a readable eventfd
whenever its mutex is free), `ImplementsHandoff`, `ImplementsLiveHandoff`.

TimerQueue: `DisorderOnlyByRisingRear` (the only step that breaks the heap's
order is `heapDel` with a rear entry that should have risen);
`EarlyOnlyAfterEmptying` (a timer fires before its time only if another callback
of the same batch had emptied the queue); `PendingTimersFire`; `ImplementsTimers`.

TcpClient: `SentInOrder`, `OutputIsWritten`, `ReconnectsOnUsedLoop`.

TcpServer: `Accounted`, `RefusedOnlyWhenFull`, `ClosedIsReleased`; the first until
something went wrong that the code does not notice (`lost`, `reused`).

Transports: `FramedWhenFed` (as long as each read gives exactly one message),
`NoCrossTalk`, `MessagesWhole`, `ExchangeGoesOn`.

EventLoops: `MapIsKernelSet`, `TasksInOrder`, `MisdirectedOnlyWhenStale` (an
event that finds no entry, no callback or another file than it is about is one
whose descriptor another callback changed in the same round).

ShmPort: `ReadsItsFrameUnlessLapped`, `CopiesTheFile` (unless the first message
was sent before the subscription had arrived, or a request was lost).

CameraPipeline: `BufferOwnedOnce` (also: what is published is in the sensor's
order, none twice), `NewestIsDecoded`. Viewer: `FramesOwnedOnce`,
`NewestIsDetected`, `ShownAsAnnounced`.

Decoders: `ImplementsDecoder`, `NothingLost`, `DecodeReturns` (Rockchip),
`CloseReturns` (a stream that was ended and whose packets are all out of
`m_packet_queue`, without a failing call or a change of resolution).

Recording: `ImplementsCodec` (both encoders refine `Decoder`),
`LeaksOnlyOnFailure`, `FilesPlayable`, `EncodeReturns`. The last holds while fewer
calls than a plane has buffers have failed on one since setup, buffers that setup
has not queued included; beyond that nvenc asks for a buffer for ever. It leaves out
nvenc's call for the end of stream, and a call that ends the program has ended.

VideoDetect: `EncodedAsShown`, `DetectionsSuppressed`, `StopDrains`,
`NothingKept`, and `JoinReturns`: if the main thread stays in `join` and the program
does not crash, either the wake-up was missed, or the inference thread waits in
nvenc, with the end of stream for a plane its frames have not filled or with a frame
for a buffer that will not come. A plane of ten buffers and a video of fewer frames
is such a case, without any fault. The join of the decoder's callback thread, in
`tearDown`, is not covered.

Each property has a mutant: a definition marked "Mutant" that changes one
operation the way a mistake would, under which the run fails.

## Where the code does something else than it says

Each is visible in a model; the properties of the passing runs say what holds in
spite of it.

Sockets:

* `TcpClient.cpp:62`, "reconnection after 2s". The first timer of a loop is not
  armed: `m_pioneer` starts at 0 and not at the sentinel, and `addTimer` rearms
  only for an earlier time. A client alone on its loop does not reconnect.
* `TcpServer.cpp:221`, the assertion on the size of the pool. `m_conns_size` is
  the next free descriptor plus `max_connections` at construction; each thread
  then opens three descriptors. With the sample's `thread_num = 10` and
  `max_connections = 1024` the last 30 connections fail it (or, without
  assertions, index past the vector).
* `TcpServer.cpp:216`, the refusal. A connection cleaned while its descriptor is
  given out again (`TcpConnection.cpp:209`) is cleaned twice; the count becomes
  negative and, as a `size_t`, larger than any maximum.
* `TcpServer.cpp:190`: after EMFILE the kernel refuses before it looks for a
  connection, so `doAccept` may close the reserve and then find EAGAIN, and
  `m_reservfd` names a number that the next connection gets.
* `EventLoopPoll.cpp:156` appends to an array of 1024 descriptors
  (`IEventLoop.hpp:43`) without a look at how many there are.
* `EventLoopEpoll.cpp:64`, the assertion on an event's entry: a callback may have
  deleted it earlier in the batch. `IEventLoop.hpp:24`: a task that adds a task
  invalidates `runTask`'s iterator (`EventLoopEpoll.cpp:220`).
* A half package is never completed; a full send buffer closes the server's
  connection while a client waits; `TcpClient::handleRead` reads a head from a
  buffer that may be shorter; `TcpClient::stop` leaves the client "connected".
* UDP: the client hands its buffer on to its end, not the datagram's
  (`UdpClient.cpp:130`); the server replies to the latest sender (157);
  `m_wbuf` grows with each send; a `stop` inside `onConnect` is undone by
  `startLoop`.

Codecs and containers:

* `nvVideoEnc.cpp:278`: the call for the end of the stream waits for a fill that
  only its own caller could complete. `VideoDetectApp` makes it (662): with fewer
  frames than the ten buffers of the plane its main thread joins for ever.
* `nvVideoEnc.cpp:182-204`: a setup that fails here leaves `m_encoder` set and the
  output plane streaming; neither `Recorder` nor `VideoDetectApp` (273) looks at the
  result. Encode then fills the plane and waits for ever (330). The size of a frame,
  set at 211, is 0 on a first setup: the recorder's conversion fails with every
  frame, `VideoDetectApp` copies into a buffer of no size (627).
* `nvVideoEnc.cpp:302`, 389 and 450: a `qBuffer` that fails loses the device a
  buffer, as do 633, 638 and 652 of `nvVideoDec.cpp`, where nobody looks.
* `rkmppEnc.cpp:448`: after a setup that failed before there was a context, its
  functions are called through a null pointer. `rkmppDec.cpp:142`: a put that fails
  for another reason than a full input goes round for as long as it fails.
* `nvVideoDec.cpp:636`: a pause of the client
  requeues an empty buffer, which is the end of the stream to the device.
* `rkmppEnc`: a second setup leaks context, buffers and configuration of the
  first; the check before the copy (490) leaves out the length it is about to
  copy; its input buffer has one byte per pixel for RGB, of which `EncodeApp`
  copies three. `EncodeApp.hpp:107` writes the header only if
  `getEncoderHeader` returned 0: rkmpp returns the length, nvenc an empty header.
* Containers: `DemuxApp`'s writers refuse packets of streams other than 0, so
  only the first stream is copied, and it too only when its packet is the first of
  any video: `DemuxApp.hpp:106` counts the frames of all streams together, so one
  file alone gets a header; the parameters `MuxApp` copies byte by byte
  (`FFmpegStreamReader.cpp:49`) share the extradata, which are freed twice; a
  trailer is written without a header when there was no packet.

Data recorder and IPC:

* `zmqPublisher.cpp:45`: a request that reaches a socket of `waitSync` as it is
  closed is lost and not sent again; publisher and subscriber wait for each other.
* `zmqSubscriber.cpp:45`: at a part that does not fit, `receiveDataMore` leaves those
  behind it, and the next call takes them for a message.

Detection:

* `VideoDetectApp.hpp:159`: the flag is cleared without the mutex, so that
  `notify_all` can come between the inference thread's look and its sleep, and
  the main thread then waits for ever.
* `VideoDetectApp.hpp:314`: the decoder's callback waits for room in the queue,
  whatever the flag says. When the inference thread has left, nobody makes room, and
  `tearDown` (212) waits for the callback.
* `VideoDecHelper.cpp:56`: the loop never ends, and the destructor (207) waits
  for it.
* `NvVicGraphics2D.cpp:283`: a buffer that could not be filled stays in the map;
  resize and conversion of `IGraphics2D` copy the result back only through the
  `...ToHost` forms.
* `YoloPostProcess.cpp:82` sorts with `>=`, which is not a strict weak order;
  boxes of letterboxed pictures may leave the image; `getOutputQuantParams`
  (`VideoDetectApp.hpp:349`) appends to the same vectors for every frame.
* `tensorrt.cpp:163`: a model that cannot be parsed leaks builder, network and
  parser; `rknn` gives outputs again that a failed get has released;
  `dnnObjDetector.cpp:60` closes the plugin's library once more than it opened it.

User interface: a disabled camera still has its thread and is shown, as is every
source without a place of its own, in the first widget; a widget does not notice
a change of format that leaves the size (`FrameWidget.cpp:21`).

## What is proved

By TLAPS, for every value of the constants.

`ThreadQueueProofs`, for 1 to 30 workers and any sets of posters, connections and
tasks. The assumption is `PoolAssumption`, whose range is what `ThreadPool`'s
constructor accepts and which otherwise says that threads have different names.

* `Invariance`: `IInv` is an invariant. It is `TypeOK`, `NoLostWakeup` and
  `BatchEmptyOutsideDrain` (a worker that is not in `onMsgComing` has an empty
  batch). `TypeOK` is inductive alone. `NoLostWakeup` needs to know that the queue
  a receiver puts back with `swap` is empty: that is the third conjunct. When a
  receiver has read the eventfd and not yet swapped the queue, the property is
  saved by the mutex, which it holds.
* `TypeCorrect`, `NoWakeupIsLost`: consequences.
* `HandoffImplemented`: every step of ThreadQueue is a step of Handoff or leaves
  the channel as it is. `SendPush` is a send; `HandleMsg` takes the head;
  `RecvSwap` moves the queue into the empty batch, which does not change their
  concatenation; `EndDrain` with a live server has nothing left.

`ShmPortProofs`, for any number of slots, subscribers, frames and messages on the
way. The assumptions are `RingAssumption` and `PortAssumption`: there is at least
one slot, and the client is a subscriber.

* `RingCorrect`: the inductive invariant of the ring. `ReadsItsFrameUnlessLapped`
  alone is not inductive. `Good(m)` says of every message on the way or taken that
  its slot was last given to its frame, or to one at least `Slots` later, and that
  both halves of the slot hold the frame until it is overwritten; the rest says
  the same of what the publisher has copied in and a subscriber has copied out.
* `PortUsesRing`: both programs take only steps of the ring.
* `PortReadsItsFrames`: from these, the property of the run `shm_port`.

`TransportsProofs`, for any clients, messages, datagrams and limits. The assumptions
are `ConnectionAssumption`, which says only what kinds of values the constants are,
and `UdpAssumption`: a datagram is larger than a head and smaller than `m_rbuf`, and
server, clients and stranger are different sockets.

* `ConnectionsKeptApart`: `NoCrossTalk`. It is not inductive: that a new
  connection finds empty queues was decided when the old one was cleaned. The
  invariant adds that an object without a connection is empty, unless the user
  sent over it, which has thrown (`Blank`); that the descriptor of an object with
  one is the present socket's (`Served`); and it numbers the replies one by one
  across what is written and what is queued (`Ordered`), where the property puts
  the two sequences together. `Apart` is stated for any object, socket and writes,
  because the user's `sendData` comes in the middle of most steps:
  `SendKeepsApart` is the lemma that each of them cites.
* `DatagramsWhole`: `MessagesWhole`. The invariant says of every word of every
  `m_rbuf` that the datagram it is of was sent to that socket and is long enough
  to reach there (`Written`). From this `FormatIs`: a datagram that is shorter
  than the length field, whose length is read from an earlier one's head, never
  passes the test of the format, which is what the property rests on.
* `ExchangesGoOn`: `ExchangeGoesOn`. The invariant adds that nobody but the
  stranger sends what does not have its format (`Honest`), and that an undisturbed
  client that has not started has nothing under way and one that runs has one
  datagram, between it and the server (`Alone`); `OneTaken` and `OneSends` are its
  two halves of a turn. That the datagram is one of its own exchange is needed for
  `Dispatch`: the answer goes to where it came from, not to whom it belongs to.
  A send that fails disturbs the sender's exchange as well as the receiver's.

`EventLoopsProofs`, for any descriptors and any calls of the users in any of the
three loops.

* `MapsAgree`: `MapIsKernelSet`. The invariant says of every entry that its mask is
  one the kernel knows and that each event has its callback; the loops differ in
  what a change may leave behind. For epoll the descriptors of a batch are
  different ones. For poll, whose array is both the registration and the batch,
  the entries stay those of different descriptors when one is erased in a walk.
  For libevent it says which events the map has lost the pointer to.
* `TasksOrdered`: `TasksInOrder`. What ran and what is left behind the iterator is
  numbered without a gap (`Ordered`).
* `OnlyWhenStale`: `MisdirectedOnlyWhenStale`. An event that goes astray is about a
  descriptor that a callback of the round touched, or poll's entry is new in the
  round or its round was interrupted, or libevent's event was one the map had lost.
  Besides the above it needs that an event of the batch is one its descriptor was
  registered for, as long as nobody has changed it.

`TcpServerProofs`, for any servers in `Configs`: threads, limits, descriptors and
clients.

* `ConnectionsAccounted`: `Accounted`, until `lost` or `reused`. Alone it is not
  inductive. `Sound` says where every connection is: each loop has its registered,
  queued and handled ones apart (`LoopRight`), the loops have theirs apart
  (`Apart`), together they have the open ones (`Covered`); the object of a
  connection in use points back at it (`Pointed`), which `cleanConnection` reads;
  the object a loop is about to reset is nobody's (`Forgets`); `m_reservfd` is no
  connection whenever it is closed (`Reserved`). The count is then a cardinality,
  which each accept and each close changes by one.
* `RefusedWhenFull`: a server without a pool refuses only when `max_connections`
  are open. A pool cleans connections beside `doAccept`, and there it is false.

`TcpClientProofs`, for any limit of the queue, room in the socket, delay and clock.

* `WrittenInOrder`: `SentInOrder`. A callback runs through several functions of the
  client, all of which may come to `sendData` by way of the user's callbacks, so
  there is a lemma for each function: whatever was written before, it keeps what is
  queued in step with what was accepted. Only `handleWrite` takes from the queue.

`VideoProofs`, for any number of packets, frames, buffers, rounds, failing calls and
changes of resolution, on both platforms and with every plugin.

* `DecodersImplement`: every step of the decoders is one of `Decoder` or leaves what
  was given and shown as it is. The invariant is a chain (`Chain`): the numbers in
  each of the three places a packet goes through rise, and are higher than those of
  the next place, the last above what the callback got. Empty buffers and info
  changes stand anywhere between them; failing calls leave gaps.
* `PacketsKept`: `NothingLost`. It is said without picking packets out of a queue: by
  the numbers a queue holds and their order. Beside the chain it needs that the
  numbers shown and on their way are all from 1 to the last one given, until a call
  fails (`Complete`); that what is shown rises, which is the promise of `Decoder`; and
  that the capture thread has no frame before it is started (`StartInv`).
* `NoFrameLost`: `StopDrains`. A frame that was queued is in one of three places
  (`Drained`): handled, in the queue, or with the inference thread. The thread
  leaves its loop only when the queue is empty and the flag is cleared, and the
  flag is cleared when only frames already queued are to be waited for.
* `PicturesAreTheirs`: `EncodedAsShown`. The order is that of the three places
  (`InTurn`). Whose boxes are drawn needs `Stage`: as far as `detect()` has come, its
  tensor, the engine's output or the boxes belong to the frame that was pushed,
  unless a call failed in it or in the loading of the model (`Clean`); for the
  latter, an engine that was loaded without a failing call knows all its tensors
  (`Whole`). The plugins' postprocessing enters only by whose boxes it returns.
* `SurfacesFreed`: `NothingKept`. The lemmas go through every way out of a
  conversion (`ResizeOutcome`, `CvtOutcome`): a failing one leaves at most as many
  surfaces as calls failed in it, and none in use. What a successful `loadModel`
  leaves in the engine is what its destructor frees (`LoadIs`, `FreeIs`).

`RecorderProofs`, for any queues, pools, sources, widgets and messages of the sensor,
and any containers.

* `OwnedAndInOrder`: `BufferOwnedOnce`. Its two halves depend on each other: packets
  that wait are in order only as long as nobody receives into their buffers. The
  invariant says of each place on the way what it is later than: the frames than
  what is published, what has yet to come out of the decoder than those, the
  waiting packets than what `decode()` was given, the packet received last than
  those, and the message on the wire than everything.
* `DetectorOwns`: `FramesOwnedOnce`. Beside the places being apart, and sequences
  without repetition, it needs that each limit holds because the queue is made
  shorter before another frame is looked for, and that a new frame exists when the
  free list has none: the frames in use are fewer than those there are.
* `WidgetsShowTheirs`: `ShownAsAnnounced`. A buffer is never behind the signal that
  points to it, signals of a source are shown in the order they were sent in, and the
  format a widget has is that of one of the sources that share it.
* `EncodersImplement`: `ImplementsCodec`. A call may return the packet of an earlier
  one, or none, so the call that returns says little about the packet. The invariant
  is a line of three queues, what has been returned, the packets the encoder has and
  the frames in its device, each older than the next; and all are older than a call
  that still has its frame to give. A return takes the head of the second queue to
  the end of the first, which is the step of `Decoder`; a setup or a reset empties
  the last two.
* `BuffersPaid`: `LeaksOnlyOnFailure`. It needs that a buffer that is in use either
  belongs to a frame on its way to the device or is paid for by a failed call, fewer
  being lost than calls have failed.
* `FilesCanBePlayed`: `FilesPlayable`, for any containers and whichever writes fail.
  What a tool made of its input is said without recursion: the packet at place `i` of
  the input is in the file at the place that counts the packets of stream 0 up to `i`.
  The invariant says the same of the part that has been read so far, and which
  stream's file has the header: that of the first video packet read, none as long as
  there is none. For a file still written it needs `FileFormed`: while a file is open
  `m_header_written` says whether it has its header, and the count of frames is the
  number of its packets; where none is open the flag is down, or the next file would
  go without a header.

The inductive invariants are also checked by TLC, on the bounds of the runs, before
they are proved; there they hold as well.

Only model-checked: liveness, since this prover has no support for ENABLED and
so none for fairness; what the heap's loops, the folds over boxes, `nms`,
`SelectSeq` and the sum of the messages' sizes compute for every input, which needs
induction over data (therefore `TimerQueue`'s properties, `DetectionsSuppressed` and
`FramedWhenFed`, whose `Start` adds up the messages before one).

## What is not modelled, and why

* Calls of `TcpConnection::sendData`, `addTask`, `addIoEvent` or timers from
  threads other than the loop's: these structures have no locks and the samples
  do not do it. Shutdown of the thread pool: its threads are detached and never
  end. A server that is destroyed between `expired()` and `lock()`.
* Surround view (`features/svs`): warping, blending and the arithmetic of
  cameras, sequential functions of pixels; there is a sequence of stages but
  no state that two of them share.
* EGL and image views: rendering on vendor libraries, and the layout of images.
* RTP headers, argument parsing, logging, tracing, the base classes of the
  samples, the rig's JSON and the vehicle: sequential, and no property of the
  modelled parts depends on them. What `CameraClient` does with an RTP payload is
  in `CameraPipeline`.
* Of modelled parts: `imageCopy`, `imageDrawRectangle` and the mapping calls of
  `IGraphics2D`, and the VIC plugin on BGR images, which nothing calls; images
  and models that cannot be read at the start, where the samples end; Qt's
  painting; the arithmetic of rate control and of the networks.
* Third-party code, the test cases of packages and scripts.

## What would come next

1. `TcpServer` composed with `ThreadQueue` by refinement of its queues.
2. `CameraPipeline` and `Viewer` over `ShmPort` in place of ports that lose
   nothing.
