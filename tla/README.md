# Verification of the concurrent TCP file transfer program

This directory holds TLA+ specifications of the program in `src/`, the TLC
configurations that check them on small instances, and TLAPS proofs of theorems
about them for every instance. Paths below are relative to the repository
(`src/src/server.cpp` is its `src/server.cpp`).

    tlc -workers 2 -config MCServer_transfers.cfg MCServer    # one of the runs
    tlapm ServerProofs.tla                                    # one of the proof modules

The proof modules are `ServerProofs`, `TransferProofs`, `StoreProofs`, `ClientProofs`,
`AnyServerProofs`, `SystemProofs`, `StartupProofs` and `LegacyProofs`.

## 1. The system

### Components

**The server's event loop and connection state machine** (`server.cpp`: `main`,
`handle_client_event` and what it calls, `accept_connections`). One thread. Each
round of the loop closes and erases the clients idle for more than 60 s, builds a
`pollfd` array (the listener, then one entry per client), polls, handles each
client at the same index of both arrays, erases those that were closed, and
accepts until nobody waits.

- State: `clients` (a vector of `Client`: descriptor, one of seven states, request
  buffer, output buffer and offset, file buffer and offset, two file streams, two
  paths, two byte counts, time of last activity), `poll_fds`, `g_stop`,
  `g_upload_sequence`.
- Operations: accept, receive and judge a request, start a download or an upload,
  receive upload bytes, complete or abort an upload, flush control lines, send
  file data, close on hang-up, error or idleness, stop.
- Correct when: a peer sees a prefix of one complete reply; sockets, descriptors
  and the vector agree; poll results are never applied to another client; no
  temporary file outlives its client; every connection ends.

**Request parsing** (`parse_request`, `is_safe_filename`, `parse_uint64`). Pure.
Correct when each line gets the verdict of the code's order of tests, and no size
wraps in 64 bits.

**Upload storage** (the storage root, temporary names, rename, remove). State: the
directory and the bytes of the files it links; kept across restarts of the
process. Correct when a name only ever holds a whole version, replaced in one step
by a complete upload.

**TCP connections and peers** (the kernel; external). State: what has arrived, what
was sent, who has shut down or reset, the queue of the listener. The kernel cuts
and delays streams, takes part of a send, and fails calls.

**The command-line client** (`client.cpp`: `run_get`, `run_put`,
`BufferedSocketReader`, `send_all`). One process per transfer, all its socket calls
block, no timeout. State: where it is, the reader's buffer, the bytes still to copy, the
local directory with the destination and its `.part` file.

- Operations: connect, send the request, read a response line, copy exactly the
  announced bytes to `.part` and rename it, or send the file and read the confirmation; exit.
- Correct when: a destination appears only whole; no other local file is touched; a failed
  run leaves no `.part` that would refuse the next one; success is reported only for
  what the server confirmed; every run ends.

**Start-up of both programs** (`server.cpp`: the arguments, `create_listener`;
`client.cpp`: `parse_options`, `connect_to_server`). Each reads its arguments one by one, then
walks over the addresses `getaddrinfo` returned, with a socket it closes when a call on it fails.
State: the options read, the number being read, the address being tried, the open
sockets; and, shared by all processes of the host, who is bound to and listens on which
address. Correct when a command line is accepted exactly as the usage text says; no socket is
left open; the listener is non-blocking; a server gives up only when another's listener is in
its way; and a client reaches a server that is there.

**The legacy phases 1 to 4** (`legacy/`, built by no target). Blocking servers: phase 1
sends one file once, phase 2 serves one request after the other, phases 3 and 4 poll an array of
slots, where a served client is replaced by the last one. Correct when the slots hold the
open connections, files arrive whole, and nobody is forgotten.

**Tests and build files.** See section 8.

### Interactions

A client and the server exchange one request and its reply on one connection, byte
streams with no message boundaries. Connections share the storage root and the
descriptor numbers (a closed one is reused and is part of temporary names), and
nothing else; the loop serialises their handlers. Between any two calls of the
process peers act, a signal sets `g_stop`, time passes, or the process is killed.

### What is hard here

- A download reads the file a name linked when it began; uploads of the name
  complete meanwhile (`server.cpp:314`, `349`).
- Handlers close clients in the middle of a loop over two arrays paired by index
  (`server.cpp:703`).
- `recv` and `send` take any part of a line or a buffer; verdicts depend on what
  one `recv` returned (`server.cpp:397`, `440`).
- open, write, close, rename, read may fail after earlier steps succeeded.
- After a kill `g_upload_sequence` starts again and old temporary files are there.
- Descriptors run out, the client limit is reached, a signal arrives just before `poll`.
- The client's checks and their use are far apart: the destination is tested before a long
  download (`client.cpp:308`), the source is measured before it is read (`357`).
- The response line and data share the client's receive buffer (`client.cpp:239`).
- The client waits without a timeout (`client.cpp:223`), so that it ends is up to the server.
- A client with `--delay-ms` sleeps up to 60 s between chunks (`client.cpp:262`, `397`) while the
  server closes connections idle for more than 60 s (`server.cpp:673`).
- Servers start at the same moment, or while connections of an earlier one linger, and
  two can bind one address before either listens (`server.cpp:215`).
- The overflow test of `parse_uint64` comes before each digit (`server.cpp:120`).
- In the legacy loop a client moved into a slot inherits the poll result of the one that was
  served there, and a new slot's was never initialized (`SimpleFTPServerPhase4.cpp:125`, `62`).

`PROJECT.json` lists every hazard at its line, with the properties that cover it.

## 2. The modules

| module | models | code |
|---|---|---|
| `Wire` | tokens, replies, `ParseRequest`, `RequestIn` | `server.cpp:109-182`, `388-408` |
| `Storage` | directory and files | external, as `server.cpp` uses it |
| `Transport` | sockets and peers | external, as `server.cpp` uses it |
| `Server` | the process: its loop, its handlers, stop, kill, restart | `server.cpp:28-68`, `184-725` |
| `FileStore` | abstract: a store read and replaced atomically | what `docs/protocol.md` promises |
| `ServerProperties` | the properties, and the refinement mapping to `FileStore` | |
| `ServerInvariants` | assumptions on the constants, the inductive invariants of the server | |
| `ServerProofs`, `TransferProofs`, `StoreProofs` | theorems and proofs about the server: its data structures, its conversations and files, the refinement | |
| `Client` | a run of `tcp_file_client` per connection | `client.cpp:152-437` |
| `ClientProperties` | the properties of the client | |
| `ClientInvariants` | its inductive invariants; `Served`, the client against a server of which next to nothing is known | |
| `AnyServer` | a server that may do anything, for the client to be checked against | external |
| `System` | `Server` and `Client` over the same `Transport`, properties of both | both `main`s |
| `Pace` | `System` with sleeping clients and time that passes while both programs wait | `client.cpp:252-264`, `384-399`, `server.cpp:671-673` |
| `Decimal` | `parse_uint64` and the server's `parse_port`, digit by digit in a word of any width | `server.cpp:86-126`, `client.cpp:45-72` |
| `Startup` | both programs from `main` to the first use of the network, several processes at once | `server.cpp:184-249`, `612-660`, `client.cpp:64-186` |
| `Legacy` | the servers and clients of `legacy/` | `legacy/*.cpp` |
| `ClientProofs`, `AnyServerProofs`, `SystemProofs`, `StartupProofs`, `LegacyProofs` | theorems and proofs | |
| `MCServer` | constants of five runs | |
| `MCClient`, `MCSystem`, `MCPace`, `MCStartup`, `MCLegacy` | constants of the runs `client`, `system`, `pace`, `startup`, `legacy` | |
| `MCOverlap` | the run that shows a disagreement with the docs | |

`Server` extends `Storage` and `Transport`, which extend `Wire`; `Client` extends
`Transport`; `System` extends both, with their invariants, and `Pace` extends `System`. `Startup` extends `Decimal`;
`Legacy` stands alone.

### How state and actions correspond to the code

**Streams.** A token is a word of a control line, a newline, the head of a reply
line or a data byte. Data bytes carry their origin and position, so lost, doubled,
mixed or stale bytes are seen. Reply lines are two tokens, the smallest number
that a partial send can cut; kBufferSize, kMaxRequestLine and socket buffers
are counted in tokens.

**Client.** `client[c]` is the `Client` struct of connection `c`; `clients` is the
vector, holding connections. `pending_output` and `file_buffer` hold what the
code's buffers hold beyond their offsets. A stream is `None` or the file it has
open; a closed `Client` is `NewClient` (`fd = -1`). `idle` is `now - last_activity`
in ticks and saturates just above `IdleTimeout`.

**The loop.** `pc` is the place in `main`: `top` (test of `g_stop`), `poll`,
`dispatch` (the loop over clients at `index`), `write` and `hangup` (between the
three checks of `handle_client_event`), `accept`, `exit` (poll failed), `down`.

| action | code |
|---|---|
| `StartRound` | idle clients closed and erased, `pollfd` array built (670-687) |
| `PollReady`, `PollReturns` | poll reports, times out, is interrupted, fails (689-701) |
| `ReadEvent` | the POLLIN half: `handle_request_readable`, `handle_upload_readable` with `start_request`, `complete_upload`, `queue_error` (554-567) |
| `WriteEvent` | the POLLOUT half: `handle_writable` by state (569-572, 499-537) |
| `HangUp`, `ErrorEvent`, `NoEvent` | POLLHUP after the halves, POLLERR/POLLNVAL before them, no event |
| `EndRound` | closed clients erased, go to accept if the listener was ready (711-718) |
| `Accept`, `AcceptEnds` | one turn of the accept loop; its end (580-607) |
| `Signal`, `Shutdown`, `Kill`, `Restart` | `handle_stop_signal`, the end of `main`, the process killed, a new `main` on the same root |
| `Environment`, `Tick` | `Connect` and the peers' steps; time |

A handler runs up to its next system call boundary that matters: the read half,
the write half and the hang-up check are separate steps between which peers act,
because a handler's verdict depends on socket state at that moment. Within a half
there is one `recv` or one `send` that moves data; `queue_error`, removal of the
temporary file and `close_client` are parts of the step that calls them.

`Faults` names the calls that may fail at any time: the code's error branch is a
disjunct of the same action. `rename` onto a directory always fails; `stat` stands for the
`metadata_error` of `start_request`. A failing `remove` is the one that the code does not look at
(`server.cpp:254`, `client.cpp:336`): `Removed` then leaves some of the files, and `Abandon` the
`.part` file.

**Files.** `entry` maps names to files and `content` files to bytes; an open file
lives on when its link is replaced, as with POSIX unlink and rename. A name of a temporary file
is the pair of descriptor and sequence number that the code prints into it.

**What `poll` reports** is an assumption about the kernel: POLLIN when bytes or a
FIN wait, POLLOUT when the send buffer has room, POLLERR after a reset. Whether a
peer that shut down sending makes POLLHUP appear differs between systems, so it is
a constant, `HupOnShut`; `requests` runs with TRUE, the others with FALSE.

**The client.** Its calls block, so a run is in one of the stages `start`, `request`,
`response`, `copying`, `uploading`, `confirm`, `end`, each a loop or a wait of
`run_get` or `run_put`.

| action | code |
|---|---|
| `Open`, `CannotConnect` | `main` and `connect_to_server`, as a whole (152-186, 420-431) |
| `CannotRead` | the tests of the source before the request (351-367) |
| `Send`, `SentAll`, `SendToClosed` | `send_all`, of the request and of the file with the count check after it (188-203, 384-403) |
| `Recv`, `RecvEnds`, `LineTooLong` | `recv` in `read_line` and `copy_exactly`, its end, the limit of a line (211-249) |
| `StartDownload` | the response line of a GET judged, tests of the local paths, `.part` opened (296-331) |
| `Copy`, `FinishDownload` | a turn of `copy_exactly`; close and rename, or removal (252-264, 333-348) |
| `StartUpload`, `FinishUpload` | READY awaited; the confirmation judged (374-382, 405-416) |
| `KillClient`, `ResetAfterExit` | the process killed; the kernel's RST for bytes that no one receives |

`plan[c].line` carries the size `file_size` reported and `plan[c].payload` the bytes found
when the file was read. `--delay-ms` is a pause between steps, which interleaving
allows anyway; what it does to the idle timeout is the subject of `Pace`. After the server closed a socket with input unread, or is sent
more, the kernel may destroy what was on its way (`Broken`): the client may then see an end
before everything sent was received.

`Alone` is an assumption about the user: runs that download to one destination
follow each other. Two at the same time would share one `.part` file (the test at
`client.cpp:321` and the opening at 327 are two calls); neither code nor docs
promise anything then.

**The system.** `System` has the steps of `Server`, the client's steps in place of the
arbitrary peers of `Transport`, and nothing else. The client's steps on the sockets are
the peer steps of `Transport` itself, so they are a restriction of what the server was
checked against.

**Time.** In `Server` a tick may come at any point and ticks have no length, which is the
worst case for safety, and too weak to say that anything is done in time. `Pace` adds
length: `TimePasses` is a unit of time, taken only while both programs wait (`Standstill`: the server at
`poll` with nothing to report, every run asleep or `Blocked` in a send without room or a recv of what
has not been sent), so that units measure sleeping and idleness. `PacedStep` is a client step after which a run that has copied or
sent a chunk sleeps `Delay` units or one more (`sleep_for` sleeps at least as long as told).
`HeldUp` is the exception to all this: some program did not get the processor for longer
than the timeout, all connections are idle, and `timely` is FALSE from then on.

**Start-up.** `proc[p].place` is where a process is: `operation`, `arguments`, `number`
(the loop over digits), `resolve`, then for each address `socket`, `bind`, `listen`,
`nonblock`, `name`, or `connect`, and an end: `serving`, `connected`, `usage`, `refused`, `failed`. An
argument is a word (a flag, a value) with the digits of its text where they matter; the rest
of a text is one character that is no digit. The kernel's rules for one address are `Taken` and
`Listened`: with `SO_REUSEADDR` a bound address may be bound again until someone listens on it,
and lingering connections are no obstacle. Without it either is one (`Rivalled`), and a server
does not notice that `setsockopt` failed. An address stands for one family's address with
the port. A call fails because the rules say so, or for a reason of its own
(`struck`, at most `MaxFaults` times). Fields that the code has not (`exact`, `rivals`, `struck`,
`serving`) only record what the properties speak of.

| action | code |
|---|---|
| `Operation`, `Argument`, `ArgumentsEnd` | the loops over `argv` with their rejections (`server.cpp:618-642`, `client.cpp:90-150`) |
| `Number` | a turn of `parse_port` or `parse_uint64`, and the range tests behind it |
| `Resolve` | storage directory and `getaddrinfo`; each failure ends the process |
| `Socket`, `Bind`, `Listen`, `SetNonblocking`, `Name` | `create_listener`, one call each |
| `Socket`, `Connect` | `connect_to_server` |
| `Exhausted` | no address is left |
| `Stop`, `Expire` | a server has ended, its connections linger, or no longer |

**Legacy.** `tester` is the array without its first element; the `revents` of its slots
start with any value, as the array is never initialized. `place` is where the one thread is: `poll`,
`slots` (the loop over `i`), `sending`, `receiving`, `ended`; a transfer blocks there until it
is done. What the poll loop reads from an uninitialized `filereader` (when its client closed
without a request) is any request, or words that end the process. A file that cannot be opened
gives a size of -1 and an allocation that throws: the process ends. Slots are used again for as
many connections as come; one more than the array has slots at a time is stored behind it
(`Overflow`), and of the process after that (`undefined`) nothing is said. accept and open may fail
(`Faults`), and clients may be killed (`Mortal`), after which send or recv may fail: the process
then ends, or closes the connection and goes on with what it has. A blocking
`recv` after a stale `revents` holds up the loop until the moved client sends: `Request`
waits for `Ready`.

**Mistakes.** A definition marked "Mistake:" is a faulty variant of
the definition after it (the temporary file is not removed, a short send is sent
again, the rename is forgotten, ...). No specification uses one. Substituted for the
right definition, it makes the property named for it in `PROJECT.json`
("mutants") fail: each property is shown to notice a plausible slip in the code.

## 3. Properties

State invariants (`ServerProperties`):

- `StoredFilesComplete`: a remote name holds its first bytes or all the bytes one
  upload of it announced, whatever was aborted, reset, killed or restarted.
- `UploadsApart`: an upload in progress writes a file no one else writes, linked by
  its own temporary path, holding exactly the bytes received so far.
- `TemporaryFilesOwned`: while the process lives, each temporary file belongs to a
  live client.
- `RepliesWellFormed`: what was sent and is queued for a peer is a prefix of one
  complete reply; a download is one version with that version's size.
- `ConnectionsAccounted`, `PollAligned`: sockets, descriptors, the vector and
  `poll_fds` agree, also in the middle of a round.
- `IInv`, `TInv`: the inductive invariants, section 6. They are checked as invariants of
  runs, and contain `TypeOK` and `StoredFilesComplete`.

Action properties:

- `StoredBytesFrozen`: no step changes bytes a remote name links or a download reads.
- `NamesReplacedByUploads`: a name never disappears, and is linked anew only by the
  step that queues OK for a complete upload of it.
- `AcknowledgedIsStored`: when OK is queued the name holds the announced bytes.
- `OrphansOnlyByKill`: unless a remove fails, only a kill leaves a temporary file without an
  owner, and those of earlier kills only become fewer.
- `CompleteReplyBeforeClose`: within a round the server closes a connection whose
  peer is still there only after the whole reply.

Refinement: `ImplementsFileStore`. `FileStore` has no process, sockets or temporary files. A GET
reads one value in one step, a PUT replaces the value in the step that promises OK,
and what is said on the wire is a prefix of what was promised. The mapping takes
the store from the links of the remote names, and the promise from what was sent,
what the buffers hold and what remains of the open file. A download whose file can no longer be
read ends early (`CutShort`), with a prefix of what was promised. Since the file is opened once
and never written again, a download that goes on for many rounds is an atomic read
at its start.

Liveness (`FairSpec`): `ConnectionsEnd`, `QueuedAnswered`, `StopEnds`.

The client against any server (`ClientProperties`):

- `DownloadsWhole`: a destination appears in one step, with exactly the bytes
  announced and sent, and only then does the run report success.
- `PartsRemoved`: a run that fails while copying leaves no `.part` unless the remove fails; a
  killed one may, and then every retry is refused until it is removed by hand.
- `UploadsConfirmed`: data follows READY only (`docs/protocol.md:26`), and success needs as many bytes as
  announced and a confirmation of as many.
- `LocalFilesKept`: no local file but the run's own temporary one is changed or removed.
- `ClientTypeOK`: types; no more is copied than announced.
- `RunsInv`: the inductive invariant of the runs, section 6.

Both together (`System`):

- `UploadsStored`: after a PUT reported success its name holds its bytes, or those of
  another PUT of that name, never again what it held before.
- `DownloadsAreVersions`: a successful GET has one whole version.
- `SentIsDownloaded`: a GET does not fail when the server has sent it the whole file: closing
  right after the last byte cuts nothing off. It relates what the server leaves unread to
  what the client sends: one request line and nothing behind it.

With time (`Pace`):

- `RunsEnd`: every run that has connected ends, although it waits without a timeout.
- `PacedUploadsSucceed`: while no program is held up, an upload whose client sleeps between
  chunks for less than the timeout is never cut off: each chunk received starts the timeout
  again, and the client's sleep after its last chunk does not lose the confirmation. Proved for every
  delay and timeout (`UploadsArePaced`, section 6). TLC finds the limit: with `Delay = IdleTimeout` it fails. `--delay-ms 60000` is that limit
  (`kIdleTimeout` is 60 s and is compared with `>`), so the largest delay the client accepts may be cut off,
  since a sleep lasts a little longer than it is told to.

  The same is not claimed of downloads. The server's activity is then a send, and how much a client
  must read before `poll` reports POLLOUT again is the kernel's choice.

Start-up (`Decimal`, `Startup`):

- `NumbersExact`: a text is accepted exactly when it is digits whose value is within the bound, and
  the value never wraps.
- `LinesUnderstood`: the processes that go on to the network are exactly those whose command
  line is right, stated on the whole line (flags in any order, which may be repeated,
  which are needed), and the port they use is the one the last `--port` gives.
- `SocketsAccounted`: no failed address leaves a socket open; a server that announces itself has one
  socket, bound, listening, non-blocking.
- `RefusedByListeners`: a server that gives up without a failing call met another's listener
  on every address (or has a socket for which `setsockopt` failed, and met another's there). Two servers that bind one address before either listens do not both give up.
- `ServersReached`: a client that gives up without a failing call has no server that was serving
  all the while.

Legacy:

- `SlotsHoldConnections`: the slots in use hold the open connections, each once, as long as the
  process runs and the array has not overflowed.
- `TransfersWhole`: a client that is still there when its connection is closed after a download has
  the whole file, in phase 1 the one of the command line. When the server goes on after an upload, the
  file holds all that its client sent, but for exactly what one `recv` took together with the request
  (there is no separator, and it is dropped: the property shows that nothing else is). Of a killed
  client that is a part of its file, which the server cannot tell from a whole one.
- `ConnectionsServed`: every connection is closed in the end, or the process has ended or its array has
  overflowed, or, in phase 4 only, the connection asked for an operation there is none of, or for
  nothing before it was gone, and is forgotten.

## 4. The runs

| run | instance | shows |
|---|---|---|
| `transfers` | 2 connections, each GET or 2-byte PUT of one name that exists; peers read late, shut, reset; idle timeout | six invariants and `CompleteReplyBeforeClose` over all segmentations and partial sends |
| `requests` | a connection with 15 request lines, cut anywhere, data too long and too short, onto a directory and a symbolic link, a GET and a PUT of no bytes, POLLHUP on half-close, removes that fail; a second client and room for one | each verdict, zero-byte transfers both ways, bytes behind the line, refusal at `kMaxClients`; `IInv`, `TInv` and `CompleteReplyBeforeClose` |
| `mishaps` | a GET or 1-byte PUT and a 2-byte PUT, received byte by byte; every kind of call but remove may fail at any time, kill or stop anywhere, one restart on the same root | error paths lose nothing and leave nothing; the leftover temporary file, half full, is met and emptied; `IInv`, `TInv` and the refinement hold across failures and the crash |
| `race` | download, 1-byte upload, and a third that is either, of one name | `ImplementsFileStore`, `StoredBytesFrozen` and `AcknowledgedIsStored` under every interleaving of three handlers |
| `client` | 1 connection, GET or PUT whose file has, exceeds or lacks the announced size; a server that sends any part of 8 replies, right and wrong, and may close anywhere; an empty directory, one with the destination, one with a leftover `.part`; every local fault but a failing remove, and kills | all properties of `ClientProperties`, and `RunsInv` |
| `system` | 2 clients, a GET or 1-byte PUT and a 2-byte PUT of one name that exists, idle timeouts at any round, kills of both sides, a stop signal anywhere, one restart; a client's remove may fail | `UploadsStored`, `DownloadsAreVersions`, `SentIsDownloaded` |
| `pace` | a GET and a PUT in three chunks, sleeps of 1 or 2 units, timeout 2, the server killed anywhere, programs held up anywhere, fairness | `PacedUploadsSucceed`, `RunsEnd` |
| `startup` | 2 servers, each with some 560 command lines, and a client with some 1150, with texts of up to 4 digits around the limits of an 8-bit word; and all three over 2 addresses, one failing call, each server started twice | the five properties of `Startup` |
| `legacy` | phases 1 to 4, 2 slots and 3 clients, one of which may be killed, a 2-token file, a 2-token upload, a missing file, an unknown operation, no request; accept and open may fail; every content of the uninitialized `revents` | the three properties of `Legacy` |
| `live` | 2 connections, 1 descriptor, a signal anywhere, fairness | every connection ends, every waiting one is answered, the process stops when told |
| `overlap` | 2 uploads under distinct names, one being a temporary name | violated: section 5 |

### Bounds, and why they are enough

- *Connections* 2 or 3: handlers interact in pairs, through the root, the vector
  and descriptor numbers; the third gives one client on each side of a closed one.
- *Sizes* 0 to 3 tokens, `BufferSize` 1, 2 or 4, `SndBuf` 2 or 8, `RcvBuf` 3 to 8: a line and
  a file both fit a buffer, fit exactly, or need several sends or receives.
- *Cuts*: where a segment may end. `requests` allows every position. Elsewhere a PUT is
  4 tokens of line and at most 2 of data, and a segment may end at 4 (after the line) and at 5
  (in the middle of the data), so that uploads are interrupted half received; `transfers`
  has 5 alone, where a buffer ends at 4 anyway; `live`, `mishaps` and `system` a cut at 4 alone, and `mishaps`
  receives one token at a time; `pace` 4, 5 and 6, its three chunks.
  Lines are cut everywhere by `requests`.
- `MaxRequestLine` 4 words: one request of the run is longer. `MaxUploadBytes` 3:
  one declares 4.
- *Fds*: as many as connections, so any reuse can happen, or one, so that accept fails.
- `IdleTimeout` 0 ticks: one tick makes an idle client expire, any activity in between
  resets it; larger values only add stuttering ticks. Ticks are not tied to
  poll's one second timeout, so expiry may come at the top of any round.
- `MaxStarts` 2 in `mishaps` and `system`: bounds restarts; the second process finds what a killed
  first one left. Each connection carries one request, as in the code.
- `Events` bounds what the environment may do in a run, to keep each run to
  the question it asks; together the runs enable all of them.
- *The client's bounds*: `ClientBuffer` 3 in `client`, so that a recv ends within the line, at
  its end, or behind the first data byte; 4 in `system`. `MaxResponseLine` 2: one reply is longer. One
  connection is enough in `client`, where runs share nothing but the local directory and
  do not overlap on a destination; the proofs cover any number.
- *Pace*: `IdleTimeout` 2 and `Delay` 1 are the smallest that differ, with a sleep of
  `Delay + 1` just within the timeout; three chunks, because two sleeps together exceed it. The
  server is killed in `pace`, and told to stop or killed in `system`.
- *Startup*: `WordMax` 255 has the shape of the real word (its last digit is 5, and texts
  of 3 and 4 digits straddle it), `PortMax` 99 and `DelayMax` 60 lie below. Either one process reads any of
  the command lines and the others none, as reading has no interaction; or all go to the network.
- *Legacy*: 2 slots and 3 connections, so that one is moved over another, a third comes to a slot used
  before, or overflows the array; a `recv` of 2
  tokens takes the request with the first data; a send buffer of one.
- *Symmetry* over connections where all have the same plans and only safety is checked.

`CHECK_DEADLOCK FALSE` stands in `mishaps`, `live`, `system`, `pace` and `legacy`, where the
processes may end for good, in `client`, where the one run does, and in `startup`, where walks
end and starts are bounded. Elsewhere TLC also checks that the loop never gets stuck.

### Fairness

`FairSpec` is `Spec /\ WF_vars(Process) /\ WF_vars(Tick)`. The first says that the
operating system runs the process when it can run: it never blocks but in `poll`,
which has a timeout, and all sockets are non-blocking. The second says that the
clock advances (`steady_clock`, `server.cpp:671`). Nothing is assumed of the peers: they may
stop sending and reading at any point, and of a killed process only that
its clients end (`pace`).

`PaceSpec` has weak fairness of the server's process, of `PacedStep` of each run (its process is
scheduled and its blocking calls return when they can) and of `TimePasses`: the clock does not
stop, and time passes when both programs wait. Signals, kills and `HeldUp` are never forced.

`Legacy!Spec` has weak fairness of the server and of each client, which are plain
processes. A client that is killed ends at once, and a client that may be is not forced to be: its
fairness is met by any of its steps.

## 5. A finding

`is_safe_filename` accepts names of the form `.upload-7-1.part`, which the server
gives to temporary files. `README.md:110` advises distinct names for concurrent
writers; `MCOverlap` uploads two distinct names and ends with one upload's bytes
stored under the other's name, both answered OK. All other runs, and the
proofs, assume names and temporary names apart (`NamesApart`).

## 6. Proofs

The theorems hold for any sets of connections, names and descriptors, any buffer sizes and limits,
any plans of the peers, any set of faults and any number of restarts; a run of section 4 shows the
same property on a small instance. Nothing is taken on trust but the named assumptions on constants.

| theorem | module | states |
|---|---|---|
| `InvariantHolds` | `ServerProofs` | `Spec => []IInv` |
| `TypesHold`, `ConnectionsHold`, `PollStaysAligned` | `ServerProofs` | `Spec => []TypeOK`, `[]ConnectionsAccounted`, `[]PollAligned` |
| `StoredBytesStay` | `ServerProofs` | `Spec => StoredBytesFrozen` |
| `ConversationsHold` | `TransferProofs` | `Spec => []TInv` |
| `StoredFilesAreComplete` | `TransferProofs` | `Spec => []StoredFilesComplete` |
| `UploadsStayApart` | `TransferProofs` | `Spec => []UploadsApart` |
| `RepliesStayWellFormed` | `TransferProofs` | `Spec => []RepliesWellFormed` |
| `AcknowledgedStaysStored`, `NamesStay` | `TransferProofs` | `Spec => AcknowledgedIsStored`, `NamesReplacedByUploads` |
| `OrphansComeFromKills` | `StoreProofs` | `"remove" \notin Faults => (Spec => OrphansOnlyByKill)` |
| `TemporaryFilesStayOwned` | `StoreProofs` | `"kill" \notin Events /\ "remove" \notin Faults => (Spec => []TemporaryFilesOwned)` |
| `RepliesAreComplete` | `StoreProofs` | `"read" \notin Faults => (Spec => CompleteReplyBeforeClose)` |
| `ServerImplementsFileStore` | `StoreProofs` | `Spec => ImplementsFileStore` |
| `ClientInvHolds`, `LocalFilesStay` | `ClientProofs` | `ClientSpec => []ClientInv`, `LocalFilesKept` |
| `PartsGo` | `ClientProofs` | `"remove" \notin LocalFaults => (ClientSpec => PartsRemoved)` |
| `RunsHold`, `RunTypesHold` | `ClientProofs` | `Served => [](ClientInv /\ RunsInv)`, `[]ClientTypeOK` |
| `UploadsAreConfirmed`, `DownloadsAreWhole` | `ClientProofs` | `Served => []UploadsConfirmed`, `DownloadsWhole` |
| `AnyServerServes`, `RunsAgainstAnyServer` | `AnyServerProofs` | `ClientAlone => Served`, and so the three above of `ClientAlone` |
| `SystemImplementsServer`, `SystemImplementsClient`, `SystemImplementsServed` | `SystemProofs` | `SystemSpec => Spec`, `ClientSpec`, `Served` |
| `SystemKeeps`, `SystemKeepsRuns` | `SystemProofs` | what follows for the whole program |
| `DownloadsAreOfVersions` | `SystemProofs` | `SystemSpec => []DownloadsAreVersions` |
| `AcknowledgedUploadsLast` | `SystemProofs` | `Spec => AcknowledgedIsStored /\ StoredBytesFrozen /\ NamesReplacedByUploads /\ []AInv` |
| `ConfirmedUploadsStayStored` | `SystemProofs` | `SystemSpec => []UploadsStored` |
| `AnnouncedAfterRequest` | `SystemProofs` | `Spec => []LInv` |
| `WhatIsSentIsDownloaded` | `SystemProofs` | `LocalsFree => (SystemSpec => []SentIsDownloaded)` |
| `UploadsArePaced` | `SystemProofs` | `Delay < IdleTimeout /\ UploadsFit => (PaceSpec => []PacedUploadsSucceed)` |
| `StartupInvariant`, `NumbersAreExact`, `SocketsAreAccounted`, `RefusalsHaveListeners`, `ServersAreReached` | `StartupProofs` | `Spec => []IInv` of `Startup`, and its invariants |
| `LinesAreUnderstood` | `StartupProofs` | `Spec => []LinesUnderstood` of `Startup` |
| `SlotsStayRight`, `LegacyTransfersAreWhole` | `LegacyProofs` | `Spec => []SlotsHoldConnections`, `TransfersWhole` of `Legacy` |

### The server

Assumptions: `ServerConstants` (in `Server`: kinds of the constants), `Sizes`
(natural numbers), `Kinds` (a path of the root is a file, a directory or a symbolic link) and
`NamesApart` (remote names, temporary names, connections and `None` are told apart; the one that the
code does not enforce, section 5). TLC evaluates all of them in every `MCServer` run.

`IInv` is about the data structures. It is the conjunction of

- `TypeOK`;
- `Buffers`: counters of a stream do not overtake each other, and
  `transferred_bytes + Len(file_buffer) <= expected_bytes`. `TypeOK` alone is not
  inductive: a send adds to `transferred_bytes` what the file buffer held, and stays
  within the size only if the buffer's bytes were counted in advance;
- `Connections`: `ConnectionsAccounted` with what it rests on. A closed client keeps
  nothing (so closing twice is harmless), the vector holds only live clients
  outside a round, queued connections are not in it;
- `Round`: `PollAligned` with the domain of `poll_fds` and where `index` is. The
  entries not yet handled are right because a handler changes its own
  client only and nothing is erased before `EndRound`;
- `Ownership`: a link has a file of its own, an upload has the file of its temporary
  path, whose descriptor is the client's own, and no download reads a file that a temporary
  path links. Uploads are apart because descriptors are: a new upload that meets an
  existing temporary path with its own descriptor meets a leftover, never another live upload.

Each action of the server has a lemma that it preserves `IInv` (`ReadEventInv`, `WriteEventInv`,
`StartRoundInv`, ...), from lemmas about the parts its handler is made of:
`RequestHandled`, `UploadHandled`, `CompleteHandled`, `FlushHandled`, `RefilledWell`.
`StoredBytesStay` follows from `Ownership`: the two steps that write, opening with trunc
and writing received bytes, touch a file that is new or linked by a temporary path,
hence neither linked by a remote name nor read by a download.

`TInv` is about the data, and rests on `IInv`. Each open connection is in one of four
conversations, by the state of its client: `Requesting` (all that came of the line is in
`request_buffer`), `InUpload` (the output file holds exactly the bytes received behind
the line, and READY was said), `InDownload` (sent, queued and buffered are the header and
the beginning of one version, which the input file holds), `InReply` (a complete reply is on its way); a
closed one was sent a prefix of a reply. `StoredFilesComplete` is part of it: that a rename puts a
whole version in place is what `InUpload` says at `transferred_bytes = expected_bytes`, and
that a download is a version needs `StoredFilesComplete` when the file is opened. That the file still
holds that version when the last byte is read is `Ownership` again (`NextKeepsFrozen`). `Polled` says that
what poll reported is still true of the peer when the loop comes to it (a peer never takes
back a shutdown); it is what tells a close for a peer's fault from one too early.

`CompleteReplyBeforeClose` is proved where files can be read: a read that fails in the middle of
a download closes early, as it must. `TemporaryFilesOwned` is proved where the process is not
killed and no remove fails: either leaves a temporary file, and `OrphansOnlyByKill`, proved where no
remove fails, says that nothing else does. Without the hypotheses the properties are false. All else is
proved with failing removes (`RemovedSome` is what is left to know of one).

`ServerImplementsFileStore` maps the initial states (`InitImplements`) and every step (`StepImplements`). `SInv` adds
that nothing but an upload's file is ever under a temporary name. Handling a request is the abstract
`Get`, `Invite` or `Refuse` (`RequestServes`); receiving data is nothing, `Abort`, or, when the rename succeeds,
`Commit` (`UploadServes`); sending moves bytes from the promise to what is said
(`FlushServes`, `HeaderIsSaid`, `FileServes`), and a file that cannot be read ends the promise
(`CutShort`). The promise of a download is taken from the open file and not
from the name, so a rename by one connection leaves the promises of all others alone (`KeptPromise`, from `Ownership`).

`AInv` and `LInv` are two more inductive invariants that relate what was said to what was stored and
received: once OK is on its way for an upload, its name holds it or another whole upload of that
name; and a download is announced only after the whole request line was received.
`AcknowledgedUploadsLast` puts together what an OK is worth: it is queued in the step that links the
whole upload, the bytes under a name never change, the name goes over to another file only by another
whole upload, and `AInv` is what remains true of the name ever after.

### The client

`ClientSpec` lets everything that is not the client's own (sockets, streams, the server) change in
any way. Assumptions: `ClientConstants`, `Lines` (lengths of requests are numbers) and `PathsApart` (no run downloads to a path that is another's
temporary path). `ClientInv` says that of two runs with one destination one is
not running, and that while a run copies, the destination does not exist and its `.part`
does. It is needed because the test of the destination is long past when the rename happens: that
nobody else made the destination in between is what `ClientInv` carries from the one step to the other.
Every action is first shown to be one of six kinds (`StepKinds`: it begins, creates,
writes, removes, finishes, or leaves the files alone), and the rest argues about the kinds.

What a run makes of what it receives needs something of the server, and very little: it only adds to
what it has sent, and sends whole tokens (`ServerMoves`). `Served` is that specification. `RunsInv` says,
by stage, where every received token is: in the buffer, or already behind it in `.part`
(`Asking`, `Copying`, `Storing`), and of a finished run that the reply it received justifies its
status (`Confirmed`, `Fetched`). The unsigned `remaining` of `copy_exactly` never wraps, and `.part`
together with the buffer is what came behind the line, in order, at every cut of the stream.
`Served` is implemented both by the client against `AnyServer` (`AnyServerServes`) and
by the program (`SystemImplementsServed`), so all that is proved of it holds of both. The assumption `Tokens` of
`AnyServer` says of its scripts what `WellSent` says; a line with a size that is no number is one of
words of another kind.

### The program

`SystemImplementsServer` and `SystemImplementsClient` show that each client step is a step of
a peer of `Transport` or leaves the sockets alone; no invariant is needed. `SystemImplementsServed`
needs the server's: that it sends whole tokens follows from `TInv`.

- `DownloadsAreVersions`: `Fetched` says that the destination holds what was announced and sent,
  `TInv` that what was sent is the beginning of one version with that version's size.
- `UploadsStored`: a run reports success for a PUT after `OK` came (`Confirmed`), so the server has said it,
  and `AInv` keeps it true from then on, whatever other uploads, restarts and failures follow.
- `SentIsDownloaded`: `FailedInv` says why a GET failed: it was refused, or its connection was
  closed before the whole file was sent. When the server closes after the last byte the
  client has sent nothing that the server did not receive (`LInv`: the line was received, and
  nothing is behind it), so the kernel has no reason to reset and destroys nothing. The hypothesis
  `LocalsFree` leaves out what the property is not about: calls on local files that fail, and
  destinations that exist, whether at first or because two runs share one.

### Time

`UploadsArePaced` has two hypotheses. `Delay < IdleTimeout` is what the property is about: with equality TLC
finds it false. `UploadsFit` excludes what may rightly make an upload fail: calls
that fail, more connections than `MaxClients`, a request the server must refuse, a directory of the
name, a file of another size than announced, buffers of no size. Its part `CutsReach` is about the
model, where a segment ends at a position of `Cuts` (a real sender may end one anywhere): from
each position one of them is within `RcvBuf`. TLC evaluates both hypotheses on the constants
of the run (`DelayIsShort` in `MCPace`), and found `PacedInv` true in all of its states.

Until a program is held up, `Pace` takes steps of `System` (`TimelyStep`), so the invariants of
the server and of the runs hold; after that nothing is claimed. `PacedInv` adds, of each upload not yet
at its end, `Going`:

- `Attended`: the server has not failed it: it is in one of the four states of a PUT, and still
  expects what has not come or has something to send. This needs `RootInv`, that the name never
  becomes something a rename cannot replace;
- `InTime`: its connection has been idle for no longer than one sleep, `Delay + 1` units, and once the
  server has read all that was sent, `idle` and what is left of the sleep *together* are no more. The bound
  on `idle` alone is not inductive: a unit adds to it. The sum stays, because a unit also shortens the sleep;
- only a run that sends the file sleeps, and nothing it received is behind what the server has
  said; a closed connection was told READY and OK, and the server had received everything.

The server's steps: each moves an upload on, or leaves it (`ServerMovesOn`, from what each handler
makes of the bytes it has: `RequestGoesOn`, `UploadGoesOn`, `ReadyGoesOn`, `ReplyGoesOn`). The run's own: it
finds READY and OK where it looks for them, and no end of the connection before them (`AnswerIs`,
`ClosedIsComplete`, `OwnRunGoesOn`); the other runs are no obstacle (`OtherRunGoesOn`).
Time: at a `Standstill` such an upload sleeps, and the server has read all it sent
(`StandstillNaps`). For if it waited in a send, the server would have bytes to read or room for a segment
(`CanSend`); and if it waited in a recv, the server would have a line to send, and room for it. So a unit
never passes for an upload that does not sleep, and no sleep is long enough for `kIdleTimeout`.

### Start-up

Any word width, command lines, number of servers, clients and addresses, failing calls and restarts.
Assumptions: `WordConstant` and `StartupConstants` (kinds of the constants). The invariant says
of each process, by itself, what it holds at its place (one socket on the current candidate,
with `SO_REUSEADDR`, bound and listening as far as it has come), that the candidates behind it were
another's listener or `struck` is set, and that its number is read exactly so far. The one part that
relates processes: for each server that has been `serving` since a client's walk began,
the address it listens on is none of those the client has passed (`PassedBy`), for connecting
there would have succeeded. A step of one process leaves the others' part alone (`OneStep`), so each action
needs its own process only. `NoWrap` is the arithmetic: the test before a digit refuses exactly what does
not fit.

`LinesAreUnderstood` needs a second invariant, `ReadInv`, because `LinesUnderstood` speaks of the whole line and
the loop knows only what is behind `at`: `at` is always at the flag of a pair, the pairs before it are
right, and `given` has the last value of each flag among them (`ReadTo`); while a number is read,
`exact` is the meaning of the digits so far (`MeansSoFar`). At the end of the line, `ReadTo` of all its pairs is
`LineRight`, and a pair that is refused contradicts it (`EndOfLine`, `PairRefused`). Apart from the steps,
`GoodLineIs` shows that the reference definition, which counts by parity, `Cardinality` and `CHOOSE`, says
what `LineRight` says pair by pair. `ValueOf` is a recursive function: that it has a value
for every length (`ValueExists`), and that a prefix never means more than the whole
(`ValuesGrow`, so that a text refused in the middle is out of range as a whole), are shown by the least length for
which they would fail (`Least`, from the well-foundedness of `<`).

### The legacy programs

Any number of connections, also more than the array has slots, any clients killed, failing calls.
Assumptions: `LegacyConstants` (kinds of the constants) and `LegacyFiles` (sizes are numbers, files
are sequences). `SlotsInv` adds to `SlotsHoldConnections` what it rests on: `pointer` is at most
one behind the array, the queue holds each connection once and none that is in a slot, phase 1
accepts once. `TransferInv` says of the transfer under way what has been sent or
received so far (`SendingOK`; `ReceivingOK`, with `behind` for what the recv of the request took), and
that a connection not yet served has exchanged nothing (`Fresh`), which is what makes the client that
is moved into a slot with another's `revents` safe. It holds for every content of the
uninitialized `revents`.

### Only model-checked

- *Liveness*: `ConnectionsEnd`, `QueuedAnswered`, `StopEnds`, `RunsEnd`, `ConnectionsServed`.
  Fairness and `ENABLED` are beyond the prover. The reason why no upload waits for ever, that
  both programs never wait for each other, is safety, and proved for the uploads of `Pace` (`StandstillNaps`).
- The run that is violated.

## 7. Plan

Done: the server with its storage, its transport and the abstract store; the client; both
together, also against time; both start-ups; the legacy programs; all safety and action properties
of the passing runs as theorems, with the refinement.

Next:

- A bound on idleness for downloads with `--delay-ms`, once the room that makes the kernel
  report POLLOUT is part of `Transport`.
- The liveness properties, as soon as the prover has rules for fairness.

## 8. Not modelled

- *Splitting a request line into words, the alphabet of names, and the text of replies*:
  data. Words and numbers stand for them, -1 for a text that is no number; that digits are read
  exactly is the subject of `Decimal`.
- *Preparing the storage directory*: three calls in a row that succeed or fail; one step of `Startup`.
- *The legacy programs' own start-up, and their requests in pieces*: a request is one short send,
  and a loop that received half of one would parse it as it is.
- *A legacy server after its array has overflowed*: undefined behaviour; the model stops there.
- *The legacy programs' failing poll, and writes to their files that fail*: the code takes a failed
  poll for a report, with what is in `revents` already, and never looks at a failed write.
  Of phase 1's start-up only the missing file is there.
- *accept failing in phase 2*: the server goes round and accepts again, a stutter; if it fails for ever,
  nobody is served, and `ConnectionsServed` does not cover that.
- *Other programs that write to the client's local directory*: a file that one of them puts at the
  destination during a download is overwritten by the rename (`client.cpp:340`).
- *Two downloads to one destination at once* (`Alone`), and downloads with a delay (section 3).
- *Tests and build files*: no behaviour of the system.
- *The bytes already written when `close` of the stream fails*: the temporary file is
  removed, so they are never seen.
- *Blocking of file reads and writes*: they delay the loop and change nothing else.
- *EINTR*: the code repeats the call or comes back to it in the next round, so it is a stutter, but
  for `poll`, where it leads back to the test of `g_stop` (`PollReturns`).
