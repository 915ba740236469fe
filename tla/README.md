# Verification of sigma-driver

sigma-driver is a C++ library that controls a SIGMA fp camera over USB with PTP
(Picture Transfer Protocol) and SIGMA's vendor operations. This directory holds
TLA+ models of it, TLC configurations that check them on small instances,
and TLAPS proofs of their most important properties for every instance.

- [The system](#the-system)
- [What is hard about it](#what-is-hard-about-it)
- [Modules](#modules)
- [Runs](#runs)
- [Proofs](#proofs)
- [Disagreements found](#disagreements-found)
- [Not modelled](#not-modelled)

To check a model: `tlc -config UsbTransport.cfg MCUsbTransport`. To check the
proofs of a module: `tlapm UsbTransportProofs.tla`.

## The system

The library is a stack of four layers. An application holds a `USBTransport`
and a `SigmaCamera` built on it and calls both from one thread; nothing inside
the library locks anything except the logger.

| Component | State | Operations | Talks to |
|---|---|---|---|
| **`SigmaCamera`** (`sigma_ptp.cpp`): vendor operations | none of its own | `config_api`, `close_application`, `get_group`/`set_group`, focus group, `snap`, `wait_completion`, `get_cam_capt_status`, `clear_image_db_single`, `get_pict_file_info2`, `get_big_partial_pict_file`, `get_view_frame`, `get_object_vendor`, `get_latest_image` | calls `transact()` of its base class, decodes and encodes with the schema |
| **schema** (`schema.cpp`, `enum.h`, `utils.h`): objects and their bytes | the objects' optional members | `encode`, `decode` of five settings groups, focus group, capture status, snap command, picture info, partial file, view frame, API configuration | pure |
| **`CameraPTP`** (`ptp.cpp`): transactions | `next_tid_`, a reference to a transport | `open_session`, `close_session`, `transact` and some thirty operations made of it; `mesg`, `event`, `wait_object_added` | writes and reads the transport; the camera is the other process |
| **container framing** (`read_full_container_`) | local | joins bulk reads into one container | `read_some` |
| **`Transport`** (`transport.h`) | | the interface `write_exact`, `read_some`, `read_intr`, `open_*`, `close` | |
| **`USBTransport`** (`usb_transport.cpp`) | `dev_`, `ifnum_`, `ep_in_`, `ep_out_`, `ep_intr_` | finds the PTP interface, opens, claims, transfers, closes | libusb; other programs and the kernel compete for the interface |
| **`FakeTransport`** (`fake_transport.cpp`) | `rx`, `ev_`, `last_txn`, `writes` | byte queue for the tests; answers OK by itself when nothing is queued | tests |
| **log** (`log.cpp`) | level, sink, mutex | `log_*` | the application's sink, called with the mutex held |
| **apex** (`apex.cpp`) | tables | APEX code to and from shutter speed, aperture, ISO, compensation | pure |

A call runs from the application down to the transport and back; the camera
runs between any two calls of the transport. It answers commands in the order
in which they arrive and sends events when it likes: PTP events on the bulk
pipe, as `transact()` expects them, and on the interrupt pipe, where
`wait_object_added` looks for them.

What makes each component correct:

- *Transactions*: every caller gets the answer to its own command, whole and
  once, or an exception; every call ends.
- *Framing*: the byte pipe is a queue of containers.
- *USB*: what is claimed is what `close()` gives back; transfers use the
  claimed interface's own endpoints; a normal return means a claim.
- *Settings groups*: what is set arrives under its own name, nothing else
  changes, what is read is what the camera has.
- *Download*: the bytes are a picture's, in order, all of them if the call ends
  normally and the camera sent all it was asked for.
- *Capture*: a wait that reports completion reports the shot waited for, the
  picture saved is that shot's, and the camera's database is left as it was found.
- *Focus group and API configuration*: as for the settings groups, with offsets
  that may point anywhere.
- *Listing*: the handles returned are the camera's, and no count is among them.
- *Log*: one sink at a time, never one that was replaced; nobody is stuck.
- *Fake transport*: what a test sees is what it queued, or an OK to its own call.
- *apex*: a value that was read and is written back stays what it was.

## What is hard about it

- **Late answers.** Reads time out after 3 s and the call throws; the answer
  arrives later and is the first thing the next call reads. `transact()`
  compares no transaction id.
- **Stray events** before an answer, between data and response, or where
  `open_session` discards the next container unseen.
- **Partial failure**: a command written without its data phase; a USB device
  opened but not claimed; a part of a picture that comes short.
- **Boundaries**: containers whose length is a multiple of the packet or of the
  1 MiB buffer; picture sizes that are multiples of the chunk; unsigned counters.
- **Other actors**: other programs claim the interface, devices come and go,
  pictures are taken and deleted between the transactions of one download.
- **Three orders that must agree** in each settings group: that of the writes,
  that of the reads, and that of the bits of `FieldPresent`.
- **Stale state**: with image id 0 a wait asks for the newest entry of a database
  that the shot may not have reached yet; a refused shot is waited for all the same.
- **Guesses about the format of an answer**: count or first handle, offset or
  payload, in arithmetic that wraps at 32 bits.
- **Callbacks under a mutex**: a sink that logs or sets a sink stops the log.

`PROJECT.json` lists these hazards at their lines with the properties that
cover them, and says why where none does.

## Modules

### PtpTransaction, CallContract

`PtpTransaction` is `CameraPTP` with the camera on the other end of two FIFO
pipes of containers. `pc` is where the running call stands: `write_cmd`,
`write_data`, then `read` (first container of the answer), `read_resp` (the
response that must follow data) or `read_any` (`open_session` and
`close_session`, which discard a container). Each `write_exact` and each
`read_full_container_` is one action, with its errors and its timeout as
alternatives (`WriteError`, `ReadError`, `ReadTimeout`); `DropEvent` is the loop
that drops at most eight events, `Unexpected` what comes of a ninth. A container is
reduced to its type, its operation and its transaction id, an operation to the
shape of its transaction (data out, data in, neither, session). The camera
takes commands, waits for their data phase if they have one, gives a
transaction up when the next command arrives instead, may leave out the data
("some bodies skip DATA even when you expect it"), and may send events at any
time.

A read that fails has taken nothing, a whole container or a part of one, and the
part that is left stays in the pipe as `Remains`. `ReadRemains` is the read that
takes them for a header, of any type (`JunkTypes`) and any length: `need` is how
many containers that length reaches beyond the remains. `ReadOn` is the loop of
`read_full_container_` that goes on until it has so many bytes, and what it
swallows is lost, the caller's own answer among it; a read that runs dry on the way
throws by its timeout and leaves the pipe empty. The end of such a length may fall
inside a container again, and leaves remains of that one. `swallowed` and the
status `garbled`, of a result made of remains in whole or in part, are history: the
code tells neither from a good answer.

Abstracted: payloads, parameters and response codes, on which nothing in
`transact()` depends; packets (see `ContainerFraming`). Three assumptions come with
that. Only DATA is cut in two, since commands, events and responses fit one packet.
The camera marks the end of its transfers, so a whole read is a whole container;
`ContainerFraming` says what comes of one that does not. And remains do not imitate
the rest of a real answer: junk that is taken for a RESPONSE has no transaction id,
junk that is taken for DATA is nobody's.

`CallContract` is what an application may rely on, with no pipes and no camera:
calls are numbered, each ends once, answers are whole, none is handed out twice
or out of order. Its variable `trust` is `sync` while every caller gets its
own answer, `suspect` after a call that threw, and `lag` after the first answer
that went to the wrong caller: from then on nobody gets its own. Its variable `cut`
is whether the remains of an answer are around. Only a call that throws brings them
up, and while they are, an answer may be garbled, and a call that runs into
them (`RunIntoRemains`) may lose any answers and end the lag; nothing else ends it.
`PtpTransaction!ImplementsContract` is the refinement: `trust` is read off two history
variables, `cut` off the pipe and the running call (`RemainsAround`), `last` off a
third history variable, `calls` is `next_tid_ - 1`.

### ContainerFraming

`read_full_container_` over `USBTransport::read_some`. A byte is a pair of the
container and its position, so that a hole, a repetition or a mixture shows.
The camera cuts a container into packets, sends it as one transfer or its
header as a transfer of its own, and marks the end of a transfer whose last
packet is full with an empty packet, or does not. `Packet` moves one packet;
the transfer ends with a packet that is not full or with the buffer, and then
`First` or `More`, the two halves of the function, look at it. `ReadThrows` is
a timeout or an error at any point. After bytes were lost, the middle of a
container is taken for a header, whose length is then anything (`JunkLengths`);
less than a header counts as one header, which the code would return as a container
without payload. The module says when the queue of whole containers is what the pipe
really is: always, until a read is cut off inside a container or the camera leaves
an end unmarked. What the first of these does to the calls above is in
`PtpTransaction`, as remains.

### FakeTransport, MCTransports

`FakeTransport` is the other transport below the same reader, with
`read_full_container_` and the reads of `transact()` above it. `QueueRead` and
`Close` are the test's, `Begin` the writes of a call, and `ReadSome` is a read
with all that its caller makes of it up to the next read. A byte is again a pair
of container and position; the containers with number 0 are the OKs that the
fake makes up (`AutoOk`). A header that was not queued to its end, or that begins in
the middle of a container, reads as anything (`HeaderOf`, `JunkLengths`); DATA that
claims less than a header throws, as the vector of its payload cannot be made. The transaction id goes round at `TidMod`, because 0
is also the fake's mark for "no command yet".

`CameraPTP` reads through a reference to a `Transport` and is the same over
both. `MCTransports` therefore checks both in one instance: `transport` says
which of the two a behaviour has. The fake has sizes of its own there, the
constants `FakeHeaderLen` to `FakeMaxCalls`.

### UsbTransport

`open_first`, `open_vid_pid` and `close`, with each libusb call a step (`Find`,
`OpenHandle`, `Detach`, `Claim`) and the bus in between: devices are plugged
and unplugged, other programs claim and release interfaces, a kernel driver is
attached. `dev`, `ifnum` and `eps` are the object's members and are assigned
when the code assigns them, the interface and endpoints before it is known that
the device can be opened. `Fail` is `open_device_` throwing: `open_first` goes on
with the next device, `open_vid_pid` lets the exception pass. Descriptors are a
constant: for each device its alternate settings in order, with endpoints.

### GroupSettings, SettingsTables

The five `CamDataGroup` classes with `set_group` and `get_group`. Each group is
a table that gives each member its bit of `FieldPresent` (`Group1` to `Group5`),
with the places of members in the two items of several (`Offsets`), the bits whose
byte is dropped (`Reserved`), and two orders: `Ascending`, in which `encode()`
writes, and `ReadOrder`, in which `decode()` reads. These tables and the codings
of values are `SettingsTables`. A payload is kept as the set of its bytes with their
places, because only its place tells one member's byte from another's
(`Starts`, `Place`): `decode()`, a sequence of reads of a moving index, reads each
member where the items before it, in its own order, end. Signed bytes,
big-endian masks, the 4-bit fixed point of focal lengths and the six lens
corrections that share one bit are modelled by what they do. The camera
understands the same format: it applies what it is sent and answers with any
selection of its items. Members are renamed nowhere: the model's names are the
source's.

### PictureDownload

`get_object_vendor`, the loop that fetches a picture in parts, and
`get_latest_image`, which either waits for `ObjectAdded` on the interrupt pipe
(`WaitPoll`, one poll of `wait_object_added`) and calls `get_object`, or calls
`get_object_vendor`. Every transaction is a step; between two of them pictures
are taken and deleted and events arrive. The counters `start` and `left` are
words of `WordSize` values. The camera sends any number of bytes of the file, and
says of them what it likes in `AcquiredSize`, by which the counters move: less than
was asked for, or more, by up to `Excess` bytes. `excess` is the history of the
latter, after which `left` may have wrapped.

### CaptureWorkflow

`snap`, `get_cam_capt_status`, `wait_completion` and `clear_image_db_single`, in
the two programs that the repository has for them, `sigma_capture_example.cpp`
and `sigma_bulb_example.cpp`; `pc` is the transaction that the program comes to
next, and every transaction is a step. `wait_completion` is `Poll` (with
`PollCompleted`, `PollUnderWay` and `PollUnexpected`) and `WaitGivesUp`; it ends
with a completed status, with one unexpected status more than `ErrLimit`, or
when its polls are used up. The camera has a database of the shots it accepted:
a shot is entered some time after it was accepted, moves on from status to
status, and is cleared by its image id; ids go round at `IdCount`. `Throw` ends
a program at any transaction, which may have reached the camera; the next run
finds what was left. `troubled` remembers that a run threw, or gave up a shot
the camera had accepted: what holds until then is what the programs promise.

### FocusGroup

`CamDataGroupFocus` and `ApiConfig`: a header, entries of 12 bytes, and data that
entries with more than four bytes point to. `Encode`, `Decode` and
`DecodeConfig` are the library's, `CamBlob` and `CamApply` the camera's. Payloads
are bytes; of the header and the index only the size is kept, so a blob can be
cut anywhere (`Cut`). Sums of offset and length wrap at `WordSize`, as the
code's do, and `WordSize` is more than the size of any blob; what is read outside
of a blob is undefined and ends the behaviour. The loops over the entries of a
blob are written as what they leave behind: of the entries that are read and have
a member's tag, the last one counts (`Tagged`, `PayloadOfLast`). The camera
answers with any selection of its settings.

### Log

The level is one atomic variable, the sink another one behind `g_mu`. A line is
compared with the level twice (`Format`, `Emit`), then the mutex is taken and
the sink called (`CallSink`). The sink is the application's: it returns, throws,
logs a line of its own (`SinkLogs`, again with two comparisons), or replaces
itself (`SinkSets`). The mutex is not recursive: who waits for it while holding it
stays in `inner_lock`. In C++ that is undefined; what the library's mutex
does, and what the model therefore says, is that it waits. `log_set_sink` is
`BeginSetSink`, `LockSet`, `SetSink`.

### Apex, ApexTables

`ApexConverter`: `Encode` takes the nearest value of the table and `Decode` looks
for a code. Values are whole numbers of a small unit. The source subtracts
doubles; for the tables whose values are exact in binary the lower of two
equally near values wins, for the others either may. `ApexTables` holds the
seven tables as the source has them.

`MCEncodings` puts `FocusGroup`, `Apex` and `GroupSettings` side by side, as
`MCTransports` does with the transports: a behaviour (`coding`) is about blobs,
about a table or about a settings group, and the variables of the others stay as
they began. `EitherSpec` is the specification of blobs and tables, `GroupsSpec`
that of the settings groups, each checked by a run of its own. `FocusGroup` and
`GroupSettings` both have a property `GetReflectsCamera`; that of the groups is
called `GetReflectsSettings` in the instance.

### ObjectListing

`get_storage_ids` and both forms of `get_object_handles`. A payload is a
sequence of 32-bit words, and arithmetic on them wraps at `WordSize`. The camera
sends counted arrays, as PTP defines them, or bare lists, which the code also
reads; the code guesses from the words which it has. `GetStorages` and
`GetHandles` are the two transactions of `get_object_handles()`; between them
cards and objects come and go. The camera lists objects in any order. Object
formats and associations are not told apart, and payloads are whole numbers of
words.

The `MC` modules give constants their values for TLC; `CaptureWorkflow` is run as
it is.
Definitions commented *Variant* are deliberate mistakes: each property has one
that breaks it, which shows that the property depends on the code.

## Runs

| Run | Instance | What it shows |
|---|---|---|
| `ptp` | one operation of each of the five shapes; 3 calls; 2 events dropped before giving up (8 in the code); 3 containers in the pipe; remains taken for a header swallow up to 2 containers | `OnlyFaultsDesync`, `OneTransactionAtATime`: until a call throws or a session call takes an event for its answer, each caller gets its own answer and one transaction is in flight. `AnswerIsWhole`: even afterwards data and response are never mixed. `DesyncLastsUntilSwallowed`: once out of step, no caller gets its own answer, over timeouts and errors, until a read takes the remains of a container for a header and swallows what follows. `ImplementsContract`: refinement of `CallContract`. `CallTerminates`, whatever the camera does |
| `ptp_data_tid` | as `ptp` | a violation, see below |
| `transports` | USB: up to 3 containers of lengths 1, 2, 4, 5, 8 and 13 bytes in all, header 1, packets of 2, buffer of 4. Fake: 2 containers queued, of lengths 2, 4, 5 or the beginning of one, 3 calls, header 2, buffer 4, three transaction ids | `QueueOfContainers`; `NeverBackwards`: whatever is lost, no byte is delivered twice or out of order. `FakeAnswers`: a made-up OK goes to the call it answers, and a call sees one container of what was queued. `ShortHeaderCauses`, `CallsEnd`: what "short PTP header" can mean, and that calls end, on either transport |
| `groups` | all five groups; objects and answers with at most one item or lacking at most one; 2 calls | `SetDelivers`; `SetSparesOthers`: what the application left alone stays, but for members of an item that it set another of, which are turned off and nothing else; `GetReflectsSettings` (an answer that is too short throws, and every value has its C++ type), `EchoIsHarmless` |
| `encodings` | blobs: arrays of 0, 3, 4 and 5 positions, faces or none; objects and answers with at most one member or lacking at most one; the first answer cut at any byte, words of 256 values; 2 calls. Tables: all seven, all codes, the middle of every two neighbours, for exact tables the value past it, and a value above them all | `SetReaches`: what is set reaches the camera, positions too long for an entry excepted. `GetReflectsCamera`, `CutNeverMixes`: no answer gives a member another's bytes. `WildReadCause`: what makes `decode()` read behind an answer. `RoundTrip`, `Monotone`: exposure values and their codes |
| `usb` | a camera with two interfaces and two alternate settings, a card reader; 3 calls of `open_*` | `ClaimsAreRecorded`, `EndpointsOfClaimed`, `OpenIsClaimed`; `HandlesAccounted`: only refused claims leave handles behind |
| `download` | pictures of 5 and 2 bytes, chunks 0, 1, 2 and 8, words of 16 values, 2 bytes claimed in excess, 2 polls, 2 waiting events, 3 calls | `CountersAddUp`: the counters of the loop agree with each other, with the output and with the size, so neither wraps, until the camera claims more than it was asked for; then they agree modulo the word. `PrefixOfPicture`, `WholeUnlessShort`, `AnnouncedInOrder`, `CallTerminates` |
| `capture` | 3 runs of either program, 2 image ids, 3 polls (50 in the examples), 1 unexpected status (15 in the code) | `CompletionIsOwn`, `PictureIsOwn`, `DatabaseLeftClean`, up to the first run that throws or gives up its shot; `ClearsWhatItSaw`, whatever was left behind; `RunEnds`, whatever the camera does with the shot |
| `listing` | two cards, four objects in any order, words of 64 values, 2 calls | `ListIsExact`: with counted arrays a listing is exact, and a bare list is but for a first handle that passes for a count; `WildReadCause`: what makes the loop read past the payload |
| `listing_storage` | as `listing` | a violation, see below |
| `log` | 2 threads, sinks of all four kinds | `ReplacedIsQuiet`: no sink runs once it was replaced. `StuckForGood`: after a sink came back to the log, nobody logs again. `MutexComesBack`: else the mutex always comes free, also when a sink throws |

Why the bounds are enough. A desynchronisation needs one call to fail and one
to meet its left-over, and its consequences show at the third; the pipe holds
an answer with data and a left-over before or behind it, or stray events that
exceed the limit. Remains whose length reaches over two containers swallow a left-over
and the caller's own answer, which is what brings the client back into step, or one
of the two.
In `transports` the lengths stand in every relation to packet and buffer: below,
equal, a multiple, a multiple and one more; header and rest in two transfers add
the same relations for the rest; two containers can meet in one read and a
third shows what became of the pipe, for which 13 bytes leave room after the
longest. The fake's containers are below, at and above one read, two of them
queue up in every relation to it, and the third of three transaction ids is 0.
In `usb` three calls are one more than the devices, so a loop over both can
follow another. In `groups` and the blobs of `encodings` two items next to each other suffice to show an
exchange, and one set or missing among all shows a displaced byte; every item is
tried in both roles. In `encodings` a cut answer comes to the first call only, as
`decode()` starts from nothing each time. In `download` the
longer picture takes one part, three parts with a short last one, or five; the
shorter one ends exactly with a chunk; two bytes in excess are enough to pass over a
byte, and to make `left` wrap with either picture. Sizes and excess together stay
below the word, so `start` does not wrap there, as it would only for files near
4 GiB. In `capture` the second of two image ids is
followed by the first again; a run that leaves something behind, one that meets
it and a third that starts from what those two left are all there can be to
tell; three polls exceed the limit of unexpected statuses and are used up
without exceeding it. In `listing` one handle is small enough to pass for a
count and one large enough to wrap the size, and a second call meets what the
first left behind. In `log` a third thread could do nothing to the mutex that a
second cannot. The tables are not bounded but for the values asked for, and what is
nearest changes only in the middle between two values.

Deadlock checking is off where the application may simply stop calling.

### Fairness

- `PtpTransaction!FairSpec` and `PictureDownload!FairSpec`: the thread inside a
  call keeps running and each write and read returns. Bulk and interrupt
  transfers have timeouts (3000 ms by default, `transport.h`), and a read that
  nothing arrives for throws.
- `ContainerFraming!Fairness` says the same more finely: while there are packets
  they are transferred, and only a read without packets is sure to end by its
  timeout.
- `FakeTransport!Fairness`: the thread of the test runs; its reads never wait.
- `CaptureWorkflow!FairSpec`: a program that runs goes on to its next transaction;
  each returns by the above, which `ptp` checks.
- `Log!FairSpec`: every thread in a call runs, and a sink that returns or throws does
  so in the end. The mutex is not fair: a thread that waits is promised it only
  while nobody else has it, so no property says that a given thread gets it.

Nothing is assumed of the camera or of the bus, and no application has to call.

## Proofs

All theorems hold for every value of the constants that satisfies the named
assumption of the module (`PtpAssumption`, `FramingAssumption`,
`TransportsAssumption`, `UsbAssumption`, `DownloadAssumption`,
`CaptureAssumption`, `ListingAssumption`, `LogAssumption`, `FocusAssumption`,
`EncodingsAssumption`, `SettingsAssumption`), which TLC evaluates for its instance. Each follows the same argument: an
invariant that is inductive, one lemma per action, and the properties as
consequences.

- **`PtpTransactionProofs`**: `TypeCorrect`, `InSync` (`OnlyFaultsDesync`),
  `DesyncLasts` (`DesyncLastsUntilSwallowed`), `WholeAnswers`, `OneAtATime`, `Refinement`
  (`ImplementsContract`). None of these is inductive, since what a call gets
  depends on what is on its way. The invariant is about the containers in
  flight: answers come out in the order of their commands (`Ordered`); remains
  are in front of the pipe, and only after a throw (`RemainsFirst`); after a
  DATA container comes its own RESPONSE (`Joined`); a call that reads has its
  answer coming, unless it has swallowed it and nothing comes at all, and out of
  step an older one comes before it (`Owed`); until the
  first fault only the running call has anything in flight (`InStep`). Swallowing is
  the one step that may take a surplus answer without a caller, which is why the lag
  ends there and nowhere else. `MaxNeed` is any number in the proof, so the lengths
  that remains name are not bounded.
- **`TransportsProofs`**, over USB: `FramingTypeCorrect`, `InSendingOrder`
  (`NeverBackwards`), `PipeIsQueue` (`QueueOfContainers`),
  `ShortHeaderOfFullBuffer` (`ShortHeaderCause`), for any packet size, any buffer
  that is a multiple of it, and containers of any lengths. Neither property of
  what was returned is inductive: it depends on what is held and on the wire. A
  packet is a piece of one container, from one place in the stream of bytes to a
  later one, and the packets on the wire run from the reader's place to the
  camera's (`Runs`). `Ordered` says of every run that what was returned, what is
  held and what is on the wire follow each other in the order of sending, with
  holes where a read was cut off. `InQueue` says more while nothing was torn
  and every transfer was ended: what is held is the beginning of the first
  container not yet returned, and the wire goes on from there; or nothing is held and the next
  packet is the empty one behind a container that filled its buffer. The second
  case is the one that "short PTP header" comes of, and why the length of that
  container has to be a multiple of the buffer, with or without its header.
- **`TransportsProofs`**, over the fake and over both: `FakeTypeCorrect`,
  `OwnAnswers` (`OwnOk`), `WholeData` (`QueuedDataIsWhole`), `FirstOfTheQueue`
  (`OnlyTheFirst`), `UnansweredIsShort` (`UnansweredCause`), and from these and
  the ones above, for the instance that puts the two transports side by side,
  `AnswersOfTheFake` (`FakeAnswers`) and `ShortHeaders` (`ShortHeaderCauses`).
  A read of the fake begins and ends anywhere, so the invariant for data that
  was queued whole is about the bytes held and queued taken together: before
  byte *m* of a container stand its first *m* - 1, as far as the bytes go back,
  and behind it the rest that was queued (`Woven`), to the end of the last
  (`Clean`). A read moves the border between held and queued, or cuts the front
  off, and keeps both; an OK is added only behind a container's end. If data is
  handed out that follows a header, the header's place then shows whose it is
  (`InTheirPlaces`). `Few` is why a queue that fits in one read is gone with the
  first; `FakeTyped` has the id of the last command tied to the running call.
- **`UsbTransportProofs`**: `TypeCorrect`, `RecordedClaims`, `OwnEndpoints`,
  `UnclaimedThrew`, `OpensWithClaim`, `AccountedHandles` (`HandlesAccounted`). The
  first invariant adds that nothing is claimed while an `open_*` runs, because it
  closed the old handle first, and that from the lookup of a candidate on the
  members describe that candidate. The count of the handles (`Counted`) is that
  at most one is open that no refusal accounts for, the one on which a claim is
  being tried or succeeded; the first invariant is why these are never two.
- **`PictureDownloadProofs`**: `CountersAgree` (`CountersAddUp`),
  `OnePrefix`, `WholePicture`, `InOrder` (`AnnouncedInOrder`). The invariant of the
  loop relates its locals: `start` is the length of what was collected,
  `start + left` the size of the file, and a chunk of zero collects nothing; after a
  claim in excess only the sum is known, modulo the word.
  For the waits it is about the interrupt pipe (`InPipe`): the announcements in
  it, whatever stands between them, are the announced pictures not yet taken, in
  order, given by an increasing map from their numbers to their places (`Holds`).
- **`CaptureWorkflowProofs`**: `OwnCompletion` (`CompletionIsOwn`), `OwnPicture`,
  `CleanDatabase` (`DatabaseLeftClean`), and `OnlySeenCleared`
  (`ClearsWhatItSaw`: troubled or not, a run clears only what it waited for, and
  after a completion nothing that still moves). That a completion is the run's own
  does not follow from what the run asks for, but from the database that all runs
  before left empty. The invariant: shots are entered in the order of their
  numbers (`Numbered`), no two entries share an id (`UniqueIds`), what the last status
  said of a completed shot stays true (`StatusStands`, `TargetStands`), an
  untroubled run has at most one shot in the camera, its own (`OneShot`), and
  once its wait has returned it was told of that shot or there is none (`WaitTold`).
- **`ObjectListingProofs`**: `TypeCorrect`, `ExactListing` (`ListIsExact`),
  `WildReadByWrap` (`WildReadCause`). The lemmas are about the decoder: a counted
  array is always taken for one, because the size computed for it, wrapped or
  not, is no more than its bytes; and a word that
  passes for a count the payload has no room for is at least a quarter of the
  word range. The number of objects is bounded because handles are words and are
  listed once each.
- **`LogProofs`**: `TypeCorrect`, `MutualExclusion` (`OneSinkAtATime`),
  `CurrentSink` (`ReplacedIsQuiet`), `OnlyEnabled` (`EnabledWhenSeen`: a sink sees
  no line whose level was disabled throughout the call), `ReentryEndsTheLog`
  (`StuckForGood`). The type invariant has the heart of it: a thread is behind
  the mutex exactly if the mutex is its own. `HighIsHigh` carries what was compared.
- **`EncodingsProofs`**, of blobs: `SetReachesCamera` (`SetReaches`), `GetShowsCamera`
  (`GetReflectsCamera`), `CutAnswersNeverMix` (`CutNeverMixes`), `WildReadByWrap`
  (`WildReadCause`), `FocusTypeCorrect`, for words of any width above the size of a
  blob, any selection of members, any cut and any number of calls. The invariant
  says how long the bytes of the camera and of the application can get
  (`Camera`, `Application`), so that no size wraps in a blob that either of them
  makes; without it an object that was read and is written back could hold
  anything. The rest is about blobs. The data behind the index is
  a recursion over the items, of which the proof needs that later items only add to
  it (`DataGrows`), hence that an entry's offset leads to its own bytes (`LongIs`).
  Whatever a blob was cut to, an entry is not read or read whole, from inside the
  blob (`ReadIsWhole`); and as members have tags of their own and stand in a blob
  once (`Places`, `InOrder`), a member is what its one entry makes of it
  (`DecodeCut`, `ConfigCut`; `SetResult` for the other direction). For entries that
  point anywhere, `OddWildRead` shows that only a wrapped sum passes for an end
  inside the blob.
- **`EncodingsProofs`**, of tables: `Returns` (`RoundTrip`), `Ascends` (`Monotone`),
  `BulbIsTooShort`, `ApexTypeCorrect`, for any tables without repetitions: the
  converters are right because each code and each value occurs once, which the
  assumption states and TLC evaluates for the seven tables.
- **`EncodingsProofs`**, of settings groups: `SettingsArrive` (`SetDelivers`),
  `OthersAreSpared` (`SetSparesOthers`), `SettingsAreShown` (`GetReflectsSettings`),
  `EchoChangesNothing` (`EchoIsHarmless`), `SettingsTypeCorrect`, for any selection of
  members and items, any settings that a camera comes to have, and any number of
  calls; the run selects at most one, or all but one. The bytes of a payload are
  those of the items its mask announces, and an item starts behind all bytes of the
  items before it (`StartIs`); hence two items, and the members of one, have
  different places (`ItemsDiffer`, `PlacesDiffer`), so a place holds one byte only
  (`ByteFound`) and a member's value is what its bytes keep of it (`ValueFound`,
  `Kept`). `SameStart` compares the orders: those in which `decode()` reads groups 2
  and 5 exchange only reserved items, of one byte each, or items that the camera does
  not send, so that every member starts where it was written. The invariant adds to
  the types that after `get_group` the object shows the camera (`SettingsShown`),
  without which writing it back could write anything.
- `NothingIsMistaken` has the properties of all three codings for the two
  specifications that the runs check.

Four properties are proved that no run checks: `OpenWithoutClaimThrew`,
`OneSinkAtATime` and `EnabledWhenSeen`, because a stronger or a related property of
their run is broken by the same mistakes, and `BulbOnlyIfTooShort`, a bound on one
conversion.

What a function defined by recursion does for every argument is proved where it
can be put in terms of a least element (`Least`, `Greatest` in
`UsbTransportProofs`, `Least` in `EncodingsProofs`, from the library's `WFMin`); the
library's induction rules take an operator as parameter, which the provers do not
instantiate.

Only model-checked is liveness under fairness: `CallTerminates` of
`PtpTransaction` and of `PictureDownload`, `CallsEnd`, `RunEnds`,
`MutexComesBack`. Every safety property that a passing run checks is proved.

## Disagreements found

- **Data phase with parameters** (`ptp_data_tid`, `ptp.cpp:75`): `transact()`
  reads the transaction id through a pointer into the command vector after the
  parameters were appended to it. The vector reallocates, so the data container
  of `set_device_prop_value` and `clear_image_db_single` carries what the freed
  memory holds. `tests/integration/cam_tests.cpp:45` requires the "same
  transaction id" but tests only operations without parameters.
- **Count taken for a storage** (`listing_storage`, `ptp.cpp:174`):
  `get_storage_ids` takes the count of the array for the first id, and
  `get_object_handles()` asks for that storage. `ptp.cpp:201` says "Pick a real
  storage ID if available; fall back to 0 (all)."

Four more that no run reports, since each is one line of code or a table's entry:

- **Chunk size in place of a handle** (`sigma_ptp.cpp:290`): `get_latest_image` calls
  `get_object_vendor(128 * 1024)`, whose first parameter is the object handle;
  `examples/sigma_capture_example.cpp:81` gives that number as a chunk size.
  `PictureDownload` passes it as the code does (`LatestArg`).
- **Positions announced and not sent** (`schema.cpp:867`): `CamDataGroupFocus::encode`
  writes entry and offset of a `dmfPos` of more than four bytes and appends
  nothing at that offset, though `schema.h:303` describes the array and `decode()`
  (`schema.cpp:709`) reads one. `FocusGroup!SetReaches` says which positions arrive.
- **An aperture out of order** (`apex.cpp:190`): `{191, 57}` stands between `{99, 51}`
  and `{104, 64}` of a table whose codes otherwise ascend.
- **A queue of one container** (`fake_transport.cpp:47`): a read takes all that is
  queued, and the reader keeps one container of it, so a response queued behind
  its data is lost and the call is answered by an OK of the fake's own;
  `fake_transport.h:21` calls the queue "useful for future data-in tests".
  `FakeAnswers` states what a test does get.

Facts worth knowing that contradict no document: a transaction that was
thrown away once may leave every later caller with its predecessor's answer, over
any number of calls that time out or fail, until a failing read happens to tear a
container (`DesyncLastsUntilSwallowed`); `is_open()` is true after a refused claim,
though the call that opened has thrown (`OpenWithoutClaimThrew`); a sink that
logs, or that sets a sink, stops every thread that logs (`StuckForGood`); after one
run that threw or gave up, the next may report and save the earlier shot
(`CompletionIsOwn` holds only until then).

## Not modelled

- **The vendor enumerations and their `to_string`** (`enum.h`, and in
  `schema.cpp`): values and wording. Enumerators are bytes in the models.
- **`Transport`**: abstract functions; both implementations are modelled.
- **The live view frame**: `get_view_frame` is a transaction of `PtpTransaction`;
  its decoder cuts ten bytes off and keeps the rest.
- **Payload formats that the library only passes on**: device information, storage
  information, object information, property values.
- **Build and packaging files.**
- **libusb**: its transfers are steps that move a packet, time out or fail; its
  lists of devices, and their memory, are left out.
- **Autofocus before a shot**: the examples take shots without it.
