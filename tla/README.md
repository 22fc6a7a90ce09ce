# olivaw-lidar: a verification development

TLA+ models of the `olivaw-lidar` crate (a Rust driver for RPLIDAR devices),
the TLC configurations that check them, and theorems proved with TLAPS. Paths
are relative to the crate's repository, checked out as `src/`; so
`src/src/device.rs` is the crate's `src/device.rs`.

## The system

The driver is a stack of three layers. The **transport** moves bytes with a
timeout per call: a serial port, a recording or a test's queue. The **protocol**
layer is pure: it frames requests and parses descriptors, payloads and scan
nodes. The **device** layer (`Lidar`, `Scans`) drives the request/response
protocol and turns the endless measurement stream into rotations. The
**examples** are its clients. There are no threads; what is concurrent is
everything on the other side of the port: a device that answers late, streams by
itself and reboots, an operating system that buffers, interrupts and schedules,
a clock, and a process that can die at any moment.

| Component | State | Operations | Interacts with |
|---|---|---|---|
| `device.rs` next_node, `Scans` | window, discard count, rotation being assembled, `primed`, `started`, `done` | `scans`, `next` | calls `read_exact` of a transport, `parse_scan_node` |
| `device.rs` requests | none between calls, but what is left in the input buffer | `open`, `info`, `health`, `stop`, `reset`, `set_motor_pwm`, `start_scan` | writes, sleeps, flushes and reads in a fixed order |
| `transport/serial.rs` | the port, `current_timeout` (a cache of the port's own) | `read_exact`, `read`, `write_all`, `discard_input` | port, clock, signals |
| `transport/replay.rs`, `mock.rs` | a buffer and a position in it; for the mock also captured writes and a flush counter | the same, and `queue_input` | none |
| port detection (`serial.rs`) | none | `auto_detect_port` | enumerated ports |
| `protocol/*.rs` | none | `encode`, `parse_descriptor`, `expect`, `parse_*` | called by the device layer |
| `types.rs` | a finished `Scan` | `angular_coverage`, Cartesian views | the caller |
| `examples/*.rs` | what has been captured, a deadline | `main`; in `record` also `capture_single`, `capture_scan`, `write_fixture` | the device layer; `record` the transport itself |

### What is hard here, and what makes each part correct

- **Framing without framing bytes** (`device.rs:304-333`). A node is recognised
  by its redundant bits only. Correct: the reader never slides past a
  window that is a node, gives up exactly when no node is in reach of the
  budget, and, where payloads do not imitate nodes, recovers every node a fault
  did not destroy.
- **Assembly** (`device.rs:353-396`). Correct: a scan is exactly the nodes
  between two start flags; nothing is carried across an error or a new
  iterator; once over, the iterator stays over.
- **Deadlines** (`serial.rs:83-123`). One deadline over many port reads, with
  signals, partial data and a cached port timeout. Correct: no timeout early,
  none late by more than the clamp, no read lasts for ever.
- **Answers that come late** (`device.rs:133-299`). Nothing ties an answer to
  its request. Correct: no answer is pieced together from others; after a
  recovery a request gets its own answer; `start_scan` cleans up after failures.
- **Packed fields** (`protocol/*.rs`, `types.rs:106-116`). Lengths, modes,
  angles and flags share bytes; angles wrap. Correct: the device reads a request
  as it was meant, decoding loses nothing, each request accepts one descriptor
  only, the coverage of a turn is the angle it spans.
- **Crashes and reboots** (`device.rs:99-108, 183-187`). Correct: `open` takes a
  streaming device back to a usable state when the settle time suffices; a
  program that ends well leaves the device idle for the next one.
- **Buffers that end** (`replay.rs`, `mock.rs`, and the operating system's). A
  position in the middle, a tail too short, a full input buffer. Correct: bytes
  come once and in order, or are knowingly given up, and a lost byte is never
  mistaken for an answer after a recovery.
- **What a recording is worth** (`record.rs:67-183`). `record` bypasses `Lidar`
  and repeats its protocol by hand. Correct: the fixture it writes is what the
  device sent in answer to this request, and the capture loop always ends.
- **The order of enumeration** (`serial.rs:151-212`). Correct: the choice of a
  port depends on the kinds of ports, and on their order only among equals.

`PROJECT.json` lists these hazards line by line with the properties that cover
each.

## The modules

| Module | Models | Role |
|---|---|---|
| `ScanNode` | `protocol/scan_node.rs`: the frame checks; windows of a stream | shared definitions |
| `Rotations` | what `Lidar::scans` promises | abstract specification |
| `ScanStream` | `next_node` and `Scans::next`, with `read_exact` of the three transports | core |
| `FaultyLink` | `ScanStream` behind a line that inserts and overwrites bytes | composition |
| `Transport` | what the trait promises of `read_exact` and `read` | abstract specification |
| `SerialTransport` | the read loops, `set_timeout` and its cache, `discard_input` | component |
| `BufferTransport` | `ReplayTransport` and `MockTransport`, every operation | component |
| `Device` | what is behind the port: a slow device, the line, the input buffer | environment |
| `Session` | the request/response operations on a `Device` | component |
| `Examples` | the four example programs, as clients of `Session` | composition |
| `Detect` | `auto_detect_port` | pure functions |
| `Codec` | `encode`, `parse_descriptor`, `expect`, `parse_device_info`, `parse_health`, `parse_scan_node`, `angular_coverage`; with `Detect` | pure functions |
| `MC*` | constants for TLC | instances |
| `ScanStreamProofs`, `FaultyLinkProofs`, `SerialTransportProofs`, `BufferTransportProofs`, `CodecProofs`, `ExamplesProofs` | theorems about the module of that name | proofs |
| `SessionProofs`, `SessionLineProofs` | theorems about `Session`: after a recovery, and on any line | proofs |

### ScanStream

A step is one `read_exact` and everything up to the next one, because nothing
can happen to the program's state in between. `pc` says which of the two
`read_exact` calls of `next_node` is waiting: `"node"` is line 306, `"resync"`
line 320, `"idle"` means no call of `next()` runs. `buf`, `discarded`,
`current`, `primed`, `started` and `done` are the variables of the code.
`seen` and `waited` are history.

- `Decode` with `CloseRotation`, `OpenRotation`, `ExtendRotation`,
  `DropPartial`: a valid window, and the branches of lines 380-394.
- `SlideWindow`, `Desync`: the two error arms of lines 315-330.
- `FailRead`: a failing read in either place, and the arms of lines 363-378.
  Serial reads fail at any moment and may have used up some bytes; a recording
  fails at its end and drops its tail; the mock fails without consuming.
- `next`, `nextDone`, `scans`: calls, the fused iterator, a new iterator.

A point keeps the offset its node was read from in place of its measurements;
that is all the properties have to tell apart. Nodes have `SCAN_NODE_LEN`
bytes, 5 in the code and at least 2 in the model: only the first two are looked
at.

### Rotations

The same promise without a window, a loop or a partial rotation: `Take` takes
the first node within reach, and returns a scan when it ends one; `GiveUp` needs
a whole reach without a node; `Fail` may lose bytes but no complete node;
`over` lasts until `Restart`. `ScanStream` implements it with
`at <- Base` (the offset where the current search began), `over <- done` and
`calling <- pc # "idle"`; sliding the window is a stuttering step.

### FaultyLink

The line carries whole nodes, nodes with an overwritten byte, and stray bytes.
`sent` maps the offset of each undamaged node to the rotation of the device it
belongs to, which the reader cannot know. The integration tests try one stray
run and one damaged byte at one position; here every position of up to two
faults is tried, and the claim is proved for every line on which nothing but a
node looks like a node (`NoLookalikes`).

### SerialTransport and Transport

`pc` is `"check"` at the top of the loop and `"wait"` inside `port.read`.
`left` is the deadline minus now. The port's true timeout (`port_timeout`) is
kept apart from the cache (`current_timeout`), so that a cache that lies can be
told. The clock ticks while the port waits and, at most `MaxLag` times in a
call, while the process is not scheduled. `port.read` may return fewer bytes
than asked for, an interruption, nothing, or an error at any moment.
`Transport` is the trait's contract; the bytes a running call has collected are
not yet taken in its view.

### BufferTransport

A byte is its position in the buffer, so that one delivered twice, skipped or
out of order can be told. The two differ where the code does: a `read_exact`
that finds too little drops the tail of a recording and reports its end
(`ReplayShort`), but leaves a mock's bytes where they are and times out
(`MockShort`); `discard_input` does nothing to a recording and empties a mock;
`write_all` is ignored by the one and captured by the other. Both implement
`Transport`, whose `taken` is the position of a recording, since its dropped
tail is used up, and the bytes handed out of a mock, whose flush is not a read.

### Device

The environment of `Session` and `Examples`. Bytes are grouped into parts of
messages so that a message can be read, flushed or lost in halves. A part
carries the number of the call it answers, which the code cannot see and the
properties can. The device takes requests when it likes, ignores or answers
queries while scanning, streams, hears nothing while it boots, reboots with a
banner, and a reboot cuts what it was sending. Parts arrive in an input buffer
of `InputSize`; a full one loses what arrives, and with the port closed anything
may be lost. Two things are assumed: an open port loses nothing else and
corrupts nothing (what that would do is `FaultyLink`'s question), and no bytes
but a descriptor's parse as one. `torn` and `spilled` remember that a message
was cut, ever and since the last call began.

### Session

Each operation is a sequence of steps (`info`, `health`, `stop`, `reset`,
`set_motor_pwm`, `start_scan`, as in the source), and `Run` does the first one:
`request`, `sleep`, `discard_input`, `read_descriptor`, `read_payload`, or
`ReadFails`. Every step can fail as the transport can: a failed write may have
been sent, a failed read may have used up bytes. `Crash` stops the process
anywhere. `sleep` ends whether or not the settle time was enough; `settled`
remembers which. `next_node` is one step that uses up some input, since
`ScanStream` models it in detail. The history variables `quiet`, `clean` and
`fresh` state what a property may presume: nothing was on its way when the call
began; nothing has failed or scanned since a recovery that waited long enough.

### Examples

`main` of each program is a script of operations (`InfoMain`, `BasicScanMain`,
`RerunVizMain`, `RecordMain`); `Continue` begins the next when the last one
succeeded, `Exit` is the end or a `?`, `Kill` the end at any other moment. The
operations of `record` are programs of `Session`'s steps and of its own:
`capture` (one `read_exact` of descriptor and payload, then the sanity check),
`Read` and `StreamEnds` (the capture loop), `FlushAnyway` (the flush whose
result is ignored), `Unusable` and `write_fixture`. `Tick` passes `--seconds`.
A loop over `scans()` reads what it likes and may end in any way `ScanStream`
allows. Processes run one after another on one device, so that each meets what
the last one left.

### Detect

A port's name is its directory prefix and the rest, the only things the code
looks at; `prefer_callout_device` rewrites the prefix. `Look` is one round of
the loop, `auto_detect_port` the fold, `Preferred` the documented order, stated
without one.

### Codec

Bytes are numbers below 256 and the functions are arithmetic on them. Shifts and
masks become `\div` and `%`, XOR is taken bit by bit. The other side of the line
is external and written as its inverse: `Understood` (how a device reads a
frame), `DescriptorOf`, `NodeOf` and the payloads of an identity and of a health
answer (the bytes it sends). The serial number is printed as a sequence of
hexadecimal digits. `expect` stands for `parse_descriptor(..)?.expect(..)`, true
where both succeed. Angles are in 1/64
degree; the sums of `angular_coverage` are exact in `f32` for a rotation of
them. A behaviour is one value crossing the line, so that a run is an exhaustive
test over the constants.

## The runs

| Run | Expected | Question |
|---|---|---|
| `scan_stream` | pass | does the reader do what it should on every small stream? |
| `startup_budget` | violation | is the first node's budget a budget for the first node? |
| `live_end` | violation | can the iterator end on live hardware? |
| `faulty_link` | pass | do faults cost only themselves when nothing imitates a node? |
| `deceived` | violation | and when something does? |
| `serial_transport` | pass | are deadlines kept and does every read return? |
| `buffers` | pass | do a recording and a test's queue hand out every byte once and in order? |
| `examples` | pass | are recordings authentic, is the device left idle, do `info` and `record` end? |
| `session` | pass | are answers whole and own, does `start_scan` recover by itself? |
| `stale_answer` | violation | does a protocol error mean a malformed response? |
| `codec` | pass | do requests, answers, nodes, coverage and the choice of a port mean what they should? |
| `coverage` | violation | does `angular_coverage` stay in its range? |

What the passing runs check:

- `NoNodeSkipped`, `NodesFirstFit`: the window is the last bytes consumed, and
  the nodes decoded are all and only the first-fit ones, no further apart than
  the budget allows.
- `RotationsAssembled`, `ImplementsRotations`: a scan is exactly the nodes from
  one start flag to the next; errors and the end are final.
- `EveryCallReturns`: each call of `next()` comes back on a finite stream.
- `BlockingBound`: a search for one node waits at most one budget per read it
  may do.
- `OnlyGenuineNodes`, `FaultsCostOnlyThemselvesUnlessDeceived`: the two
  sentences of `documentation/02-architecture.md:152-155`, with the condition
  they need.
- `RotationsKeptApart`: lost bytes, errors and new iterators never make a scan
  of two rotations; only the destruction of the later one's start node can.
- `NeverEarly`, `NotLate`, `ImplementsTrait`, `EveryReadReturns`: deadlines, the
  trait's promise and termination under signals and trickling data.
- `DeliveredInOrder`, `ImplementsTrait` (of the buffers): no byte twice, none
  out of order, none skipped but by a mock's flush or at a recording's reported
  end.
- `NoMixedAnswer`: an `Ok` of `info` or `health` is one whole answer of its
  kind, unless a reboot or a full buffer has cut a message short and no recovery
  followed.
- `OwnAnswer`: after `open`, `stop` or `reset` waited long enough and until
  something fails or scans, a query gets the answer to itself.
- `ScanFromQuiet`: `start_scan` on a quiet line never reports a protocol error,
  even after failed queries, and if it succeeds the stream is whole nodes from
  the first on, unless the buffer overflowed meanwhile.
- `FixturesAuthentic`: a capture that begins on a quiet line stores the whole
  answer to its own request, and a scan capture the stream from its descriptor
  on without a gap unless the buffer overflowed; after a handshake that waited
  long enough this holds for every fixture of the run; "OK" means enough nodes.
- `LeftIdle`: an example that ends well, and a recording that is partial or
  unusable, leaves the device idle, or the request that makes it so on its way.
- `InfoAndRecordEnd`: both end even if the device never answers or streams.
- `RequestsUnderstood`: a device reads each request as the command it was made
  from, the duty clamped; a bit flipped after the opcode of a duty is noticed.
- `OneDescriptorPerRequest`: each request accepts its own descriptor and none
  other.
- `PayloadsDecoded`: identity and health arrive field by field as sent, and a
  health answer with an undefined status is refused.
- `NodesLossless`: decoding a node loses nothing but the redundant bits.
- `CoverageOfATurn`: over one turn the sum of steps is the angle between the
  first and the last point.
- `PreferredPort`: of any three ports the first of the best kind is chosen, by
  its call-out name.

What the violations show is in `PROJECT.json` under `findings`, with the line of
the documentation each contradicts: the startup budget is spent per read; a
zero-byte read ends the iterator cleanly; a payload byte that imitates a node
makes one fault cost several nodes; a late answer makes the next query report a
protocol error; angles beyond a turn, which a node can carry, make the coverage
negative.

### Bounds, and why they are enough

- `scan_stream`: nodes of 3 bytes (two checked, one free), a budget of 2
  discards, streams of up to 4 pieces out of a start node, a node whose payload
  imitates a node, and stray bytes. Budget and streams are such that each of
  giving up, recovering at the last allowed byte, closing a rotation after a
  resynchronization and failing with a half-read node occurs. Startup budget 2,
  response budget 1: they differ and reads can take no, some or all of them.
- `faulty_link`: up to 5 chunks with up to 2 faults among them, a budget of 4.
- `serial_transport`: budgets 0, 1 and 3 with a clamp of 2, so that a read
  expires at once, is clamped, or is not; buffers of 1 and 2 bytes; 3 bytes ever
  arrive; one tick of lag; the initial timeout differs from all of them.
- `buffers`: recordings and queues of up to 5 bytes and reads of up to 3, so
  that a read finds enough, too little, or nothing, before and after a flush and
  a refill; 2 writes and 2 flushes.
- `session`: 3 calls, which is what a failed query, a recovery and a query take;
  a descriptor of 1 part, a payload of 1 (health) or 2 (info), nodes of 2; an
  input buffer of 3 parts with up to 5 in flight before the device streams
  another node, so that it overflows, in the middle of a message too. After the
  last call the system stops, so deadlock is not checked.
- `stale_answer`: queries only, with descriptors of 2 parts, so that one can be
  used up by halves.
- `examples`: 6 calls are one process of any program, or several when the
  earlier ones are short or end early; descriptors of 2 parts, nodes of 2, one
  node asked for, a buffer of 3 with 4 in flight. Deadlock is not checked there
  for the same reason.
- `codec`: duties, bytes and angles at and around the edges of their fields;
  descriptors right, wrong and off by a bit in each byte; rotations of up to 5
  angles around north, the opposite side and the last angle of a turn;
  identities and health answers with bytes at the edges; lists of up to 3 ports
  of every class, with and without the rewriting of names. `coverage` adds an
  angle of 500 degrees. A behaviour ends after one value, so deadlock is not
  checked.

The theorems below hold without these bounds.

### Fairness

- `ScanStream`: weak fairness of a running call. Every read has a deadline or
  does not wait; the caller need not call again.
- `SerialTransport`: weak fairness of the loop and of a port read whose timeout
  has run down; strong fairness of the clock, which interruptions that keep
  resetting the wait do not stop.
- `Examples`: weak fairness of the running program, whose reads have deadlines
  and so succeed or fail, and of the clock. The device owes nothing: it may never
  answer, and never hear.
- `Session` and `BufferTransport` state none; their properties are safety.

Liveness holds for finite streams. A device that streams nodes without ever
setting the start flag keeps one call of `next()` busy for ever and its buffer
growing; the code has no limit against that, and no property claims one.

### Mutants

Each property of a passing run has a mutant: a definition of the model changed
the way a bug in the code would change it (the discard budget one too large or
not counted, the window shifted one byte short, a rotation not taken out of
`current`, an iterator that is not fused, a cache updated before the port is
asked, the flush before the wait, a descriptor's type not checked, a recording
consumed by a flush, a capture that is not flushed or not stopped, ...). The
mutants stand next to the definition they mutate, marked as such. No
specification uses them.

## What is proved

**ScanStreamProofs**, for every node length of at least 2, every discard budget,
every set of byte streams and every pair of timeouts: `TypeCorrect`,
`ResyncSkipsNoNode`, `FirstFit`, `ScansAreRotations`, `BoundedBlocking` and
`Refinement`. None of the properties is inductive alone. That the nodes seen are
the first-fit ones needs to know that the window equals the bytes just consumed
and that every offset passed was no node; that a scan is right needs `current`
to be a suffix of `seen`; and the time bound needs the time already spent to be
bounded by the reads already done. `IInv` joins them with the types and
`Bookkeeping`: how many reads have been paid for, that no window is kept outside
resynchronization. The step case has one lemma per group of actions. The
refinement uses the same invariant: a decoding step is a `Take`, `Desync` a
`GiveUp`, a failed read a `Fail` that skips no node because at most `Need - 1`
bytes were lost after the window.

**FaultyLinkProofs**, for every set of lines: `GenuineNodes`, `FaultCost` and
`MergedOnlyByDamage`, from the invariant of the reader and the assumption
`LinksAssumption` (the line carries bytes, intact nodes do not overlap, rotations
come in order and a start node is the first of its rotation). First fit plus
"nodes are where nodes were sent" gives equality of the two sets of offsets; and
an intact start node in a scan could only be its first point.

**SerialTransportProofs**, for every set of budgets, buffer size and lag:
`SerialTypes`, `NoEarlyTimeout`, `BoundedOvershoot`, `SerialIsTransport`. The
invariant adds that the cache equals the port's timeout and that the port's
remaining wait lies between the time left and the time left plus the clamp.

**BufferTransportProofs**, for buffers and reads of any length: `BufferTypes`,
`BuffersDeliverInOrder` and `BuffersAreTransports`. The order of delivery is
inductive once the types are known; the refinement needs both.

**CodecProofs**, where TLC sees the edges only:

- `NodesDecoded`, `DescriptorsTold` and `AnswersDecoded`, for all bytes, by the
  arithmetic of fields that do not overlap.
- `RequestsArrive`, for each command and every 16-bit duty. XOR is the byte
  whose bits are the sums of the operands' bits; that there is exactly one, that
  it is its own inverse and that flipping one bit of one byte changes the
  checksum follow from the binary digits of a byte.
- `TurnsMeasured` and `CoverageBounded`, for rotations of any length: the steps
  up to the n-th point add up to its angle minus the first one's, a turn more
  once north has been passed. `CoverageBounded` has no run of its own: it is
  the documented range under the condition that every angle is below a turn,
  which the run `coverage` shows to be needed.
- `BestPortChosen`, for any number of ports of any names: after each round of
  the loop what is held is the best of the ports looked at, the first of its
  class. `PortsAssumption` says that a listed port has a name and a USB identity
  made of numbers.

`xor_checksum`, the sum of steps and the loop over the ports are folds. The
induction theorems of the library take an operator, which the provers cannot
instantiate; here the same induction is over a set of numbers (`Least` and
`Induction`, from the well-foundedness of `<`), and `FoldExists` and
`FoldedWithin` say once what a fold comes to.

**SessionProofs**, for every length of each message, every buffer with room for
one answer, any number of calls, any subset of the operations and every motor
duty: `SessionTypes` and `RecoveredAnswers`. That a fresh query gets its own
answer is far from inductive: it depends on what is on the line. `IInv` says it
at each point of a program. `Underway`: what is left of a running operation is a
tail of its program. `Settled` and `Undisturbed`: a sleep that was long enough
leaves nothing on its way and only the flush to do, so that a clean line carries
motor commands at most; and at each point of a query begun on a clean line it is
still calm (`Calm`), or carries the request and nothing else that is answered,
or what is in the buffer and on the wire is exactly what is left of the answer
(`Asked`, `Answered`).

**SessionLineProofs**: `WholeAnswers`, that is `NoMixedAnswer` for all queries
and not the fresh ones only. Here anything may be on the line, so the invariant
`Unbroken` speaks of its shape: until a message is cut, every part ahead of the
reader is followed by the rest of what it was sent with, a descriptor's parts by
the payload too, even when a failed read has used up the beginning; so a query
that has read a descriptor of its kind has that answer's payload first on the
line. And `ScanRecovers`: `ScanUnderway` and `Starting` follow a `start_scan` that
began on a quiet line through its program: the line is calm, or its request is on
its way behind motor commands, or the scan's descriptor is first in the buffer
with whole nodes behind it. Its own flush is all it needs.

**ExamplesProofs**, for every subset of the four programs, every number of nodes
asked for and every length of a message and of the buffer that fits an answer.
Four invariants, each the base of the next:

- `Shape` (`ExamplesShape`, `ProcessesTyped`): the types; what is left of an
  operation is a tail of its program (`InProgram`) and what is left of a process
  a tail of its script (`InScript`); the capture loop holds less than its target
  and one buffer. A point is then known by the number of steps left
  (`HandshakeProgram`, `CaptureProgram`, `RecordingProgram`), and an operation by
  what came before it in the script (`InOrder`).
- `Judged`: only the last step of a recording gives a verdict, and "OK" counts
  the nodes.
- `Stopped` (`DeviceLeftIdle`): from the Stop of a handshake until a scan is
  asked for, and from the Stop of a recording on, the device is idle or a Stop
  is on its way with no scan behind it. That is kept by every request but
  `Scan`, by every step of the device, and by every failure; `LeftIdle` alone is
  not inductive, because the verdict comes steps after the Stop.
- `Authentic` (`ExamplesLine`, `RecordingsAuthentic`): for each capture that
  began on a quiet line, what is between host and device at each point of its
  program. `Capturing`: the query alone on its way, or exactly its answer in
  buffer and wire, or all of it read. `Recording`: the line calm, the scan asked
  for behind motor commands, or what was read, buffered and is on the wire
  together a descriptor and whole nodes, unless the buffer spilled.
  `Handshake` and `Kept` carry the quiet line from a handshake that waited long
  enough through all three captures, with the fixtures written so far.

Each theorem uses the named assumptions on the constants of its module and
nothing else. `motor_pwm` is any natural number, so both forms of `start_scan` are
covered.

Every safety property of a passing run is stated by a theorem. Only
model-checked are the liveness properties (`EveryCallReturns`,
`EveryReadReturns`, `InfoAndRecordEnd`): fairness is defined by ENABLED, which is
out of the prover's reach. The facts about finite lines in `LinksAssumption` are
evaluated by TLC on the instances.

## What is not modelled

- The division of a node's numbers by 64 and 4 into `f32`, which is exact.
- Cartesian conversions: floating-point trigonometry.
- `write_all` beyond "may fail, sent or not"; a partial write of a request is
  not told from a lost one.
- `model_name`, a table of one entry.
- Argument parsing, printing, drawing and file formats of the examples; a file
  is what was written to it.
- `Debug` and `Display` implementations, error wording.

## Observations

Met while modelling, and not contradicted by any line of the repository in a way
a run could show:

- The sanity check of `record` (`record.rs:80`) parses the captured descriptor but
  compares neither its type nor its length with the request, so a late answer to
  another request passes for this one. `FixturesAuthentic` therefore presumes a
  quiet line, as `open` leaves it.
- If the write of `Stop` at the end of a scan capture fails, `record` ends by `?`
  with the device streaming; `LeftIdle` speaks of the other ends.
- A damaged start node makes one scan of two rotations. That is what a lost flag
  must do; `RotationsKeptApart` says that nothing else does.

## Plan

Done, most important behaviour first: `ScanStream` with `Rotations`,
`FaultyLink`; `SerialTransport` and `BufferTransport` with `Transport`;
`Device`, `Session`, `Examples`; `Codec` and `Detect`; the proofs of every safety
property.

Next:

1. An abstract specification of a request (answered by its own answer or failed)
   that `Session` implements between a recovery and the next failure; the
   invariant of `SessionProofs` is what the refinement needs.
2. A composition of `Session` and `ScanStream` on one byte stream: from
   `start_scan` to the first scan and back through `stop`; and a recorded fixture
   replayed through `BufferTransport`.
