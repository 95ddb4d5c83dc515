# c_basics in TLA+

Models, checks and proofs for the C programs of this repository. The repository
is a collection of small Unix programs, one or two per file; most are a tour of
a system call. The ones with behaviour of their own are those in which several
actors meet: two chat servers and their clients, a forking file-transfer server,
threads that share a counter, processes that share a pipe, a FIFO, a queue, a
segment or a file, and programs at the mercy of signals, events and networks.
They are what these modules are about. The unit of
correctness is never one call but an interleaving of calls: a client that leaves
while the server is broadcasting, a descriptor number that is reused, a thread
that is preempted between a load and a store, a run that is killed and leaves an
object in the kernel.

Sources are named relative to the root of the repository.

## Contents

1. [Inventory](#inventory)
2. [Modules](#modules)
3. [How the models correspond to the code](#how-the-models-correspond-to-the-code)
4. [Runs, bounds and what they show](#runs-bounds-and-what-they-show)
5. [Fairness](#fairness)
6. [What is proved](#what-is-proved)
7. [Findings and other disagreements](#findings-and-other-disagreements)
8. [What is not modelled, and why](#what-is-not-modelled-and-why)
9. [Plan](#plan)
10. [Running the checks](#running-the-checks)

## Inventory

| Component | Files | State | Operations | Meets others through |
|---|---|---|---|---|
| Poll chat server | `TelnetServerPollingFileDescriptorsWithUnixStreamStreamSockets.c` | array of `pollfd`, `fd_count`, `fd_size`, two loop counters, one buffer | `poll`, `add_to_pfds`, `del_pfds`, broadcast loop | TCP connections of the clients |
| Select chat server | `UnixStreamTelnetServerWithSelect.c` | `master_set`, `select_set`, `fd_max`, loop counters, buffers | `select`, accept and notice, broadcast, farewell | TCP connections of the clients |
| Telnet client | `UnixTelnetClient.c` | a socket, a thread that reads it | connect, send a line, `thread_read` | the two servers |
| File transfer | `UnixFileTransferStreamServer.c`, `UnixFileTransferStreamClient.c` | listener, connection, one hard-coded path | accept, fork, wait; receive and write; read and send | TCP, `fork`/`wait`, the file |
| Thread creation and joining | `PosixThreads.c` | array of thread ids | create loop, join loop | repeated by the three below |
| Mutex example | `UnixMutex.c` | `mutex`, `counter` | lock, ten increments, unlock | shared memory |
| Semaphore example | `UnixSemaphores.c` | `semaphore`, `binary` | wait, shift up, check, sleep, shift down, post | shared memory |
| Spin lock example | `UnixSpinLocks.c` | `spinlock`, `cannot_go_over_2` | unlocked check, locked increment and decrement | shared memory |
| `sendAllOfMessage` | `UnixSocketSendAllBytes.c` | two counters, result of the last `send` | loop of `send` | a socket |
| Pipe example | `Pipes.c` | two ends in two processes | write, read byte by byte, close, wait | a pipe |
| Message queue example | `SystemVMessageQueues.c` | a queue named by a key | send in the child, receive and remove in the parent | a queue that outlives the processes |
| Shared memory example | `UnixSharedMemory.c` | a segment named by a key | attach, write, print, remove, detach | a segment that outlives the processes |
| Record locking example | `UnixRecordLocking.c` | a file and locks on a range of it | truncate, write, lock, fork, lock, unlock | a file that several runs use |
| FIFO example | `FIFO.c` | a named FIFO, two processes per run | create, fork, open, write, read | a FIFO that stays on disk |
| One-shot stream server and client | `UnixStreamSocketServer.c`, `UnixStreamSocketClient.c` | one connection, a child, a SIGCHLD handler | bind, accept, fork, greet, return; connect, receive once | TCP, `fork` |
| Datagram programs | `UnixDatagramSocketServer.c`, `...Client.c`, `...Broadcaster.c` | one buffer | send one datagram; receive and print one | UDP |
| Unix domain socket server | `UnixSocketsForIPC.c` | a socket file, one connection | bind, accept, close for ever | the file system |
| Alarm signals | `AlarmSignal.c` | a timer, a handler | alarm, sigaction, pause | SIGALRM |
| File event watching | `UnixFileEventWatching.c` | a buffer of events, a pointer into it, a message | read, walk | inotify |
| Forking and process groups | `Forking.c`, `ProcessGroups.c`, `BasicUnixSystemCalls.c` | two processes and their buffered output | fork, compare, print, wait, exit | parent ids, a shared output |
| Pure functions | `EndiannessConversion.c`, `Bitmasks.c`, `QuickAndDirtyPortableFloatingPoint.c`, `checksum` of `UnixRawNetworkLayerSocketServer.c`, parts of `MemoryResidence.c` and `MemoryManagement.c` | none | reverse, mask, pack, sum, lock, link | |
| Files, streams, memory, language, system information | see PROJECT.json | one process, straight-line | library calls | not modelled |

What makes each of the modelled components correct, and what is hard about it:

* **The chat servers.** Both are one thread around one loop. What is promised is
  in the poll server's header: "each message they send is broadcast to all other
  members in the chat currently". It is hard because the loop works on what
  `poll` or `select` said some time ago, while it closes, accepts and sends; because
  descriptor numbers and array slots are reused in the pass in which they were
  freed; because sends wait for slow readers; and because a connection can be
  reset at any moment. Correct means: the table of connections agrees with the
  kernel, no call waits for one client while others have something to say,
  everybody sees one conversation without gaps, echoes or inventions, and whoever
  writes or leaves is eventually dealt with.
* **File transfer.** All uploads go to one path, in processes of their own. The
  parent's `wait` is all that keeps them apart; it also makes everybody queue
  behind one client, through failures of `fork`, `fopen` and the client itself.
* **Threads.** `counter++` and `binary <<= 1` are a load and a store. What is
  hard is that the outcome depends on the schedule: the mutex must lose nothing,
  the semaphore of two lets two threads into an unsynchronised section, and the
  spin lock's variable is read outside the lock.
* **sendAllOfMessage.** Two counters and a returned result must tell the caller
  the truth after partial sends and errors.
* **Pipe.** The end of file comes only when nobody holds the write end, so an
  omitted `close` in the child would make both processes wait for ever; and the
  pipe may hold less than the message.
* **Message queue, shared memory, record locks.** The object belongs to the
  system. Two runs of the program meet in it, one removes it while the other uses
  it, a killed run leaves it behind.

* **FIFO, one-shot server, domain socket server.** Each is right when it runs
  alone, once, and nothing fails. Overlapping runs, a fork that fails, a file that
  outlives its server and clients that are still in the queue are what tests
  leave out.
* **Telnet client.** Two threads race for the end of the connection; what is
  written, lost or announced depends on which of them meets it.
* **Datagrams, events, alarms.** The kernel or the network decides when something
  arrives, how often, and how much of it at once.
* **Forking.** Who is parent is decided by a parent id that may change, and what is
  printed depends on who inherits a buffer and who flushes it.
* **Pure functions.** Boundaries: the carry of the carry, the last bit of a
  fraction, the integer part that does not fit.

The hazards, each with its line and the properties that cover it, are listed in
`PROJECT.json`.

## Modules

| Module | Models | Used by |
|---|---|---|
| `StreamSockets` | the kernel's TCP connections and descriptor table, and the telnet clients | `PollServer`, `SelectServer` |
| `ChatRoom` | the abstract specification: a room in which joining, saying and leaving are atomic | refined by both servers |
| `PollServer`, `MCPollServer` | the poll server, extending `StreamSockets` | |
| `SelectServer`, `MCSelectServer` | the select server, extending `StreamSockets` | |
| `RoomHistory` | the room with a memory of what had been said when each member came in | the room's and the two servers' proofs |
| `MCChatRoom` | four symmetric clients for `RoomHistory`, which say three things in all | |
| `MCServers` | either server, under one configuration | |
| `RelayBuffer` | the buffers of the select server, byte by byte | `MCConnections` |
| `FileTransfer` | server, its children and its clients, and what may fail on either side | `MCConnections` |
| `TelnetClient` | the client with both of its threads | `MCConnections` |
| `Greeting`, `LocalServer`, `Datagrams` | one server each, with its clients | `MCConnections` |
| `Computations` | the pure functions and their references | `MCConnections` |
| `MCConnections` | the seven of them under one configuration | |
| `ThreadConstants`, `PosixThreads` | parameters and `main` of the thread programs: create, join | the three below |
| `MutexThreads`, `SemaphoreThreads`, `SpinLockThreads` | the threads | `MCThreads` |
| `MCThreads` | the three programs in one specification | `MCPrograms` |
| `SendAll`, `MCSendAll` | `sendAllOfMessage` | `MCIpc` |
| `Pipes`, `Fifo`, `MessageQueues`, `SharedMemory`, `RecordLocks` | one program each | `MCIpc` |
| `EventWatching`, `AlarmSignal` | one program each | `MCIpc` |
| `Forking` | three functions that fork once | `MCIpc` |
| `MCIpc` | the nine of them in one specification | `MCPrograms` |
| `MCPrograms` | the programs of `MCIpc` and of `MCThreads` under one configuration | |
| `StreamSocketsProofs` | lemmas about the kernel's part | the two servers' proofs |
| `ChatRoomProofs` | order, completeness and framing of the room | the two servers' proofs |
| `PollServerProofs`, `SelectServerProofs` | invariants of the servers, and that they implement the room | |
| `ThreadsProofs` | the three programs with locks | |
| `IpcProofs` | the function, the pipe, the locks, the queue, the segment, the FIFO, the events, the alarm, the forks, and the types of all of them | |
| `FileTransferProofs` | uploads do not mix | |
| `ConnectionsProofs` | the small servers, the telnet client, the relayed texts, the ignored length of `MemoryResidence.c`, and the types of all of them | |

`MCThreads`, `MCIpc`, `MCPrograms`, `MCConnections` and `MCServers` do not compose programs that interact: the initial state
chooses one program and the others keep their initial values. They exist so that
one TLC run covers programs of one kind. Composition proper is
`PollServer`/`SelectServer` = server loop + `StreamSockets`, and each thread
program = `PosixThreads` + its routine.

A definition whose comment begins with "Mutant:" is not part of a model. It is a
variant of the definition that follows, with a plausible mistake in it; each
property is known to be violated when such a variant takes the definition's
place, which shows that the property depends on the code it is about.

## How the models correspond to the code

### Kernel and clients (`StreamSockets`)

`peer[c]` is what has become of the other end of client `c`'s connection: not
connected, connected, closed by a FIN, reset, or reset with the error already
reported. `sock` maps descriptor numbers to clients; `accept` takes the oldest
connection and the lowest free number, as POSIX promises. `sent[c]` and `read[c]`
count messages the client wrote and the server received; `stream[c]` is what the
server has sent to `c`, and `unread[c]` how much of it `c` has not yet taken out
of its buffer of `SockBuf` messages. `SysSend` is enabled only when there is
room, which is how a blocking `send` is modelled: the server's action waits.

A message is its author and its number. `recv` returns any positive number of
messages that have arrived (TCP keeps no boundaries); bytes within a message, and
a message cut in two by `recv`, are abstracted. The telnet client is the four
things a server can see of it: connect, send, take from the buffer, exit.

The listener's socket, `bind` and `listen` are in `Init`. The backlog is bounded
by `Backlog`.

### Poll server

One action per branch of the loop: `Poll` (line 200), `Skip`, `AcceptClient` with
`AddToPfds`, `AcceptFails`, `RecvData`, `RecvEnd` with `DelPfds`, and for the inner
loop `SkipDestination`, `Send`, `SigPipe` and `EndOfBroadcast`. Two details of the
code are in the state because the behaviour depends on them:

* `poll` is given `fd_size`, not `fd_count`, so slots past the end keep what was in
  them and are reported on. `pfds` therefore has all `fd_size` slots, and slots
  that were never written contain a member of `JunkSlots`, what `malloc` or
  `realloc` may hand over.
* `add_to_pfds` writes `fd` and `events` and leaves `revents`; `AddToPfds` keeps it.

A `recv` on a connection with nothing to read waits: `RecvBlocked` describes the
state, in which the server has no action until that client does something.

### Select server

The descriptor sets are sets, and a loop over `0..fd_max` that tests `FD_ISSET` is
a loop over the members of the set in ascending order. `from` is the descriptor
that the inner loop skips (`newFd` in one loop, `i` in the other two), `msg` the
text being sent. The farewell is sent before the descriptor is closed;
`EndOfBroadcast` closes it. `RecvError` is the branch that a failed `recv` takes:
`bytes_received` is a `size_t`, so that -1 is not `<= 0`.

### File transfer

`current` is the connection the parent has accepted, `child[c]` the process that
serves `c`, `file` the content of the hard-coded path. `if (fork < 0)` compares the
function, so `ForkFails` continues in the parent's branch. A block is what one
`fread` of the client returns. `size` is what `stat` told and `length` what the file
has now; `FileChanges` makes them differ.

The error paths are actions of their own. `GivesUp` is a client that is killed, or whose
`fopen`, `stat` or `fread` fails after `connect`; what its kernel sends is then the same
FIN as after a proper end. `WriteFails` is the short `fwrite` that is reported and passed
over: `torn` are the blocks of which the disk has only a part, which may be earlier
ones that `stdio` had held back (`Loses`). `RecvFails` is `recv() = -1`, which ends the
child with what it has, `RecvEnd` the end of the stream, and both may lose a tail in
`fclose`, which nobody looks at. `reported` says that the child has called `perror`.
`FopenFails` and `NoFileEnds` are the child that goes on without a file.

### Threads

`PosixThreads` has the two loops of `main` with `pthread_create` failing at any
point (`failed` ends the process with all threads). Every unsynchronised access
is a step of its own, loads and stores separately. `binary` and
`cannot_go_over_2` have the arithmetic of their types.

### The buffers of the select server (`RelayBuffer`)

A byte is a zero, part of a label, or the number of the text it comes from within
one pass. `Pass` is the `memset` before `select`; `Relay(n, zeroes)` is `recv` of n
bytes, of which those at the places `zeroes` are zero, then `strcpy`, the two `sprintf`
and the `send` to everybody, whose length is n plus `PrependSize`. `strcpy` and `sprintf`
take the buffer for a string, and stop at the first zero byte; `send` does not.
`lengths` and `nuls` remember what was received, for the properties. What is undefined
(a copy that leaves its array) sets `overrun`, and nothing is said of the process
afterwards. The server that does this in turn with everything else is `SelectServer`,
where a text is its author and number.

### Telnet client (`TelnetClient`)

`writer` and `reader` are the two threads. `reset` distinguishes an error nobody
has been told from one that has been consumed, since the next `send` then raises
SIGPIPE. `stdio` is the buffer of `stdout`, which `exit` writes and a signal loses;
`_exit` comes after an explicit `fflush`. `wild` is the terminator written behind
`read_buf`: nothing, another descriptor or a crash may be the outcome.

### The small servers

* `Greeting`: `server` and `helper` are parent and child, `Listeners` and `Holders` who has
  the listening socket and the connection open. The `return` inside the loop is
  `Return`. An address is its place in the list both sides get from `getaddrinfo`.
* `LocalServer`: `path` is the run that made the socket file. `Fails` is a `socket`, `bind`
  or `listen` that fails for the kernel's own reasons; after `bind` the file stays. There
  is no action for `unlink`: it comes after an endless loop.
* `Datagrams`: `flight` are datagrams on their way; `Arrive` delivers, loses or doubles
  one. `zeroAt` is where the `printf` that precedes the terminator stops.

### Kernel objects

* `SendAll`: each call is `send(socketFd, buffer, sizeof buffer, 0)`. `wire` holds the
  offsets in `buffer` of the bytes the kernel took. `numberSent` starts with an
  arbitrary value because the code does not initialise it.
* `Pipes`: `readers` and `writers` are the processes that hold each end; one `write`
  may be cut in pieces.
* `MessageQueues`: `current` is the queue the key names, `msg_id[r]` what `msgget`
  returned in run `r`; the two differ after somebody removed the queue. `Kill`
  ends both processes of a run and leaves the queue. When `ftok` fails its -1 is
  a key like any other, shared by all runs, so it needs no state of its own.
  The message is `sizeof message` long, eight bytes more than `mtext` has; what
  these bytes hold is not modelled.
* `SharedMemory`: `keyed` is the segment the key names, `removed` those `IPC_RMID` was
  called on, `attached` who has them mapped. Both processes remove the segment.
  The second call succeeds, because the caller is still attached and the memory
  therefore still there. `sprintf` is two steps, so that a reader could see part
  of the text. A run whose `shmat` or `fork` fails ends without `shmctl` and leaves its
  segment (`left`).
* `Fifo`: `reader` and `writer` are the processes of each run; `opening` is one that waits
  inside `open` and counts as holding its end. The kernel drops what is in the
  FIFO when the last end is closed. A message is the run that wrote it.
* `EventWatching`: sizes are in units of an event's header, a name is one unit.
  `message` is `notificationMessage`, which starts as `Unset` (wild) or as `Null` and is
  not reset, so that an event of none of the six kinds prints what the last one was.
* `AlarmSignal`: a signal that comes while its handler runs stays pending. `Tick` may
  pass any time, so the process may be slower than the timer.
* `Forking`: one module for three functions with one `fork` each; `demo` says which.
  `stdio` is what `printf` has not written yet, which `fork` copies. A process that
  does not exist yet is `off`.
* `RecordLocks`: locks belong to processes. `Unlock` changes nothing, because
  `fcntl(fd, F_UNLCK, ...)` is `F_SETFD`; `Exit` releases the lock.

### Pure functions (`Computations`)

Operators on numbers, each beside a reference definition (`BytesRight`, `FloatRight`,
`ChecksumRight`, `FamilyRight`). Words have few bits, so that all of them
can be tried; bytes have their eight.

## Runs, bounds and what they show

| Run | Distinct states | What it shows |
|---|---|---|
| `chat_room` | 146588 | The abstract room itself has the properties that make it worth implementing: one order for all (`TotalOrder`), messages between the notices (`Framed`); and nobody misses anything: with a memory of what had been said at each arrival, a member has heard of every other one all that was said since it came in, up to the last message, each once and in order, and nothing of itself (`NothingMissed`). |
| `poll_server` | 330854 | Array and kernel agree (`TableInv`), a stale POLLIN is met only in the last slot and on a fresh connection (`StaleOnlyAtTail`), and the loops implement the room. |
| `select_server` | 985142 | `master_set` and `fd_max` agree with the kernel, what `select` reported is still true when the scan gets there, and the loops, notices included, implement the room. |
| `servers_live` | 121026 | With two messages per client, which one `recv` may return together: the poll server implements the room again; everybody who writes is read, and the connection of everybody who leaves is closed, by the poll server (`Responsive`) unless it is stuck in the `recv` of finding 1 or dead of SIGPIPE, by the select server (`SelectResponsive`) without the first exception. That the select server implements the room with any number of messages is a theorem. |
| `programs` | 24662 | Nine programs of processes: honest counters; the pipe in order and complete; queue, segment, locks and FIFO under overlapping runs (`OneReader`: nothing the FIFO holds is ever dropped; `SegmentUsedWhole`: only a run whose `shmat` or `fork` failed leaves a segment); every event of a watched kind told once; an alarm always on its way while the program waits for one (`AlarmKept`); the output of two processes, each one's own lines included. Three programs of threads: no update of the mutex program lost, and the final count; the semaphore's units conserved, and with a semaphore of one the value restored; the spin lock's unlocked reads see 0 or 1. And the end of all of them, or of the alarm never (`ProgramsEnd`). |
| `connections` | 312242 | Uploads never mix in the file, and a part of one is there only for the named reasons; each small server answers the right client and no other (`RightAnswer`); the path of a running server stays its own; the telnet client's conversation; the bytes of a relayed text; the functions against their references; and an answer for everybody. |
| `poll_blocks`, `select_phantom`, `semaphore_race`, `send_all_bytes`, `event_repeat`, `loop_returns` | | Each finds the violation of one statement of the repository; see [Findings](#findings-and-other-disagreements). |

Numbers of states are up to symmetry where a run uses it.

Bounds, and why they are enough for what is asked:

* **Clients.** Two clients show a sender and a receiver, three add somebody who
  joins or leaves during the broadcast between the two, which is where tables,
  order and reuse can go wrong. Safety of the servers is run with three, liveness
  with two, the room with four that say up to two things each (`MaxMsgs`), so that one can
  come in between two messages of another, and three in all (`MaxTotal`). The clients
  are interchangeable and the safety runs use symmetry; the liveness run does not.
* **Descriptors.** As many numbers as clients and listener. A client connects
  once, so a number is reused by a later client. Numbers start at 3.
* **`InitSize = 2`** (and 1 in `servers_live`) instead of 5 makes `add_to_pfds` double
  the array within three clients (twice with 1); `poll_blocks` uses the 5 of the code and zeroed memory, so that
  its counterexample owes nothing to the bound. `JunkSlots` in `poll_server`
  includes entries whose `revents` is set.
* **`SockBuf = 1`** makes a send wait for a reader as soon as it can.
* **Threads.** Three threads, three increments. Losing an update takes two. The
  semaphore is run with 1 in `programs`, where the shifts must undo each other, and
  with the 2 of the code in `semaphore_race`.
* **`PointerSize = 3`, lengths 0 to 8**: shorter than, equal to and longer than
  multiples of a pointer.
* **Pipe**: a message of 14 bytes and a pipe of 6: the write is cut in three or
  more pieces. The code's 53 bytes fit into a real pipe at once.
* **Queue**: three runs and room for two messages, so that killed runs can fill it
  (the limit of the system is about fifteen messages of this size). Segment,
  FIFO and locked file: two runs, one to use and one to disturb.
* **Uploads**: two clients, files of up to two blocks that may become any other
  size, a window of one block. Every call of the inventory may fail once. The clients
  are alike, so that one of the two has the larger file.
* **Events**: three events, a queue of two, a buffer of three headers: merging,
  overflow and a queue read in two parts all happen.
* **Small servers**: three clients, three runs of the domain socket server with a
  queue of two, two addresses; two senders with datagrams shorter and longer than
  the buffer, one of them doubled.
* **Telnet client**: two lines, three bytes, a buffer of two, so that one `recv` can
  fill it and another follow.
* **Relayed texts**: four speakers whose descriptors have one, one, two and four
  digits, and buffers of 12 bytes with a label of five; prefixes pile up past the
  end within one pass. Each text may have a zero byte at its second place (`NulAt`),
  behind one of its own bytes and before others.
* **Words** of two to eight bits: sums of up to four words of two bits include
  every pattern of carries.

Deadlock is checked in every run except `chat_room`, in which everybody has left
at the end. In the others the legitimate ends (`Over`) are explicit: all clients
gone, or the server killed by SIGPIPE, or the program returned, or, in
`MessageQueues`, a queue full of messages of killed runs; or a program waits for
an event, a client or a partner that nobody has to send (`Over` and `Ended`).

## Fairness

* Servers: weak fairness of the server's thread (it is a loop that the kernel
  schedules) and of `thread_read` of each client, which takes what has arrived in
  a loop of its own. Clients are never obliged to write, to connect or to leave.
  A client that stops reading is outside this assumption; a server whose sends
  block would then stop.
* File transfer: weak fairness of the parent, of each child and of each upload;
  a client reads a local file, not a terminal. Nothing obliges a client to connect
  or to crash.
* Threads: weak fairness of `main` and of each thread. This suffices although
  locks are contended, because each thread takes its lock once, so that it can be
  overtaken only finitely often.
* `MCIpc`: weak fairness of the function, of each process of the pipe and fork
  programs, of the program that watches, of the clock and the process it
  interrupts, and of each run of the others (both processes of a run as one: a run
  takes finitely many steps, and each process that can go on still can after a
  step of the other). Nothing is killed, started or made to happen of necessity.
* `MCServers` and `MCPrograms` have the fairness of the specifications they choose from.
* `MCConnections`: weak fairness of each server process, of the second thread of the
  telnet client, and of each client with the child that serves it. A user need not
  type, a datagram need not arrive, nobody has to connect or to be killed.

## What is proved

The theorems hold for all values of the constants that satisfy the named
assumptions; TLAPS checks them to the last leaf. In particular they hold for any
number of clients, threads, runs and messages, and for the sizes the code has. The
assumptions are evaluated in every run.

| Theorem | States | Assumptions |
|---|---|---|
| `ChatRoomProofs!TypeCorrect`, `OneOrder`, `WithinNotices` | `[]TypeOK`, `[]TotalOrder`, `[]Framed` of the room | `RoomAssumption` |
| `ChatRoomProofs!NobodyMissesAnything` | `[]NothingMissed` of the room with its memory | `RoomAssumption` |
| `PollServerProofs!TypeCorrect`, `TableCorrect`, `StaleConfined` | `[]TypeOK`, `[]TableInv`, `[]StaleOnlyAtTail` of the poll server | those of `StreamSockets`, `PollAssumption` |
| `PollServerProofs!RoomImplemented` | the poll server implements the room: `ImplementsRoom` | the same |
| `PollServerProofs!NobodyMissesAMessage`, `SentInOrder` | what that means for its clients: `NothingMissed`, with the same memory kept beside the server, and `[]SameOrder` | the same |
| `SelectServerProofs!TypeCorrect`, `MasterCorrect`, `ScanNeverWaits` | `[]TypeOK`, `[]MasterInv`, `[]ScanInv` of the select server | those of `StreamSockets` |
| `SelectServerProofs!RoomImplemented` | the select server implements the room: `ImplementsRoom` | the same |
| `SelectServerProofs!ConversationCorrect` | what that means for its clients: order, `NothingMissed`, notices around | the same |
| `ThreadsProofs!UpdatesKept`, `FinalCountCorrect` | `[]NoLostUpdate`, `[]FinalCount` of the mutex program | `MutexAssumption`, `ThreadCountAssumption` |
| `ThreadsProofs!ThreadsTypeCorrect`, `LocksHoldCorrect` | `[]ThreadsTypeOK`, `[]LocksHold` of the three programs | these and `SemaphoreAssumption` |
| `IpcProofs!AccountingCorrect`, `ReportCorrect` | `[]Accounting`, `[]HonestReport` of `sendAllOfMessage` | `SendAllAssumption` |
| `IpcProofs!PipeCorrect` | `[]PipeDelivers` | `PipeAssumption` |
| `IpcProofs!LockRefused`, `SegmentCorrect`, `FifoCorrect` | `[]ChildRefused`, `[]SegmentUsedWhole`, `[]OneReader` | none |
| `IpcProofs!QueueCorrect` | `[]QueueUsedOnce` | `QueueAssumption` |
| `IpcProofs!EventsTold` | `[]EachEventTold` | `EventAssumption` |
| `IpcProofs!AlarmNeverLost` | `[]AlarmKept` | `AlarmAssumption` |
| `IpcProofs!TwoProcessesTold` | `[]TwoProcesses` of the three functions that fork | none |
| `IpcProofs!IpcTypesCorrect` | `[]IpcTypeOK` of the nine programs of `MCIpc` | those of `SendAll` and `MCIpc` |
| `FileTransferProofs!UploadsApart` | `[]OneUploadAtATime` | `TransferAssumption` |
| `ConnectionsProofs!PathCorrect` | `[]PathOwned` of the domain socket server | `LocalAssumption` |
| `ConnectionsProofs!AnswerCorrect` | `[]RightAnswer` of the one-shot and the datagram server | `DatagramAssumption` |
| `ConnectionsProofs!ConversationCorrect` | `[]Conversation` of the telnet client | `TelnetAssumption` |
| `ConnectionsProofs!RelayCorrect` | `[]RelayedText` of the select server's buffers | `RelayAssumption` |
| `ConnectionsProofs!ConnTypesCorrect` | `[]ConnTypeOK` of the programs of `MCConnections` | those of `FileTransfer` and `MCConnections` |
| `ConnectionsProofs!LengthIgnored` | one call of `mlock` covers all pages, so that `LockedAsAsked`, the usage line of `MemoryResidence.c`, is false whenever gaps are asked for | none |

The assumptions say that sizes and lengths are natural numbers (`MaxBytes`, the
size of a pointer, the delay of the alarm and the number of addresses positive), that the names for "nobody" name nobody, that the runs of `Pair` are
finitely many, that a buffer of events holds at least a header and a name, that the
room for a prefix is at least four bytes and a descriptor has at least one digit, and
what `StreamSockets` and `PollServer` say of descriptors and of the first size of the
array.

The arguments:

* **StreamSocketsProofs** has one lemma per operation of the kernel: what it does
  to the set of open descriptors, to readiness, and to who is a member. The proofs
  of both servers rest on them.
* **The room.** Every action is the utterance of some new messages of one client
  (`Utters`): a broadcast appends them to what each other member has heard. Order and
  framing follow from "what is heard has been uttered" (`HeardInv`) and from the
  messages being new; that needs that a client who is still out has said nothing.
* **The room, nothing missed.** A member that never heard an author would satisfy any
  statement about what it did hear, so `RoomHistory` adds a memory, `since`, of what
  everybody had said when a member came in; it follows the room and changes nothing
  in it. `NothingMissed` says that the numbers heard of another client are exactly those
  from `since` on, for a member up to the last one. It is inductive with the type of
  `since` (`MemoryInv`). The cases with work in them are `Join`, where the old messages of
  the others are in nobody's way, and `Say`, where the new numbers carry on where
  `said` was. `NothingMissedBeside` is the same for any specification that implements the
  room, with the memory kept beside it (`Remembers`).
* **Poll server, the table.** `IInv` is `TypeOK /\ TableInv`, which is inductive. The work is
  in `AddToPfds` (the new descriptor was free, hence in no slot; the doubled array has
  room for it) and in `DelPfds` (the last entry moves into the hole, and the
  descriptor that leaves the table is exactly the one that was closed).
* **Poll server, the room.** The refinement maps `accept` to `Join`, `recv` of data to
  `Say`, `recv` of nothing to `Leave`, and everything else to a stutter. What a client
  has heard is what it was sent and, while the inner loop has still to come to its
  slot, the message in the buffer (`Pending`). That `recv` changes this for all members
  but the author at once, and a `send` for nobody, needs that the table lists each open
  connection once (`TableInv`) and that no two descriptors share a connection
  (`OneToOne`). `NobodyMissesAMessage` and `SentInOrder` are then the room's theorems,
  instantiated with the mapping, the first with the memory beside the server.
* **Poll server, stale events.** `StaleOnlyAtTail` speaks of the scan between two
  broadcasts and is not inductive: a broadcast interrupts the scan, and the slot at
  `i` is then done with. `StaleInv` covers both (`Ahead`: the slots the scan still comes
  to), and adds that a stale slot is never reached in the first step of a pass.
  `UnreadInv` (nothing was read of somebody who was not accepted) makes
  the new connection one that was never read from.
* **Select server.** `ScanInv` is not inductive. That a reported descriptor stays
  ready needs that no other descriptor shares its connection (`OneToOne`), that
  closing one descriptor does not touch the members of `select_set` that are still
  to come, hence that `from` is the descriptor at `i` during a farewell
  (`FarewellInv`), and that `master_set` is what is open (`MasterInv`). `IInv` is the
  conjunction of the five.
* **Select server, the room.** The same mapping with three loops: the notice of a new
  client, its messages, and its farewell, with whose start it leaves the room. A
  phantom (`recv` failed, and the buffer is sent all the same) is no message of the room,
  so the mapping filters what was sent through `Spoken`, a recursive function over
  the prefixes of a sequence. What it computes of a concatenation is proved by
  well-founded induction (`SetInduction`, from `WFMin`): the library's induction
  theorems take an operator as a parameter, sets do not need one.
* **Mutex.** `NoLostUpdate` needs that at most the holder of the mutex is between
  load and store and that what it loaded is still the value (`HolderInv`);
  `FinalCount` needs in addition that what `main` has joined has exited (`MainInv`).
  The number of finished threads is a cardinality; the lemmas about it come from
  the library of finite sets.
* **Semaphore and spin lock.** Units are conserved because entering and leaving change
  the set of holders by one. That the shifts undo each other holds for a semaphore
  of one only (`Restored` says so), and rests on what `binary` is at each point of the
  one thread inside (`AloneInv`). `ValueInv` of the spin lock is inductive.
* **sendAllOfMessage.** The invariant adds what the loop knows of the last call (if it
  is -1 inside the loop, nothing was sent: it is the uninitialised value) and
  how the result at the return follows from it.
* **Pipe.** What was printed and what is in the pipe are the first bytes of the message
  (`PipeData`); the end of the file proves that the parent has written all of it, because
  the child has closed its own write end before it reads (`PipeEnds`).
* **Record locks.** A parent that goes on has the read lock from its `fcntl` to its end
  (the call that should unlock does not), so only the death of the parent lets the
  child have the write lock.
* **Message queue.** A message is in the queue of its sender's `msg_id` and was not
  received (`QueueInv`); removal empties the queue, so that a later queue with the same
  key never holds a message of the old one.
* **Shared memory.** Both processes of a run stay attached to their own removal and
  detach (`ShmAttached`), the parent prints after its child is done (`ShmRun`), and what
  was not removed has a run that will remove it, or one whose `shmat` or
  `fork` failed
  (`ShmOwners`). The latter leaves its segment for ever, with its key, and the next
  run finds it; that is the one exception `SegmentUsedWhole` makes.
* **FIFO.** `FifoMessages`: what is in the FIFO has a reader, `fifo # <<>> => Readers # {}`.
  The kernel drops what is in a FIFO when its last end closes; this conjunct, which
  is part of `OneReader`, says that it never has anything to drop. `FifoAlone` follows a
  single run.
* **File transfer.** That a connection is accepted once (`QueueInv`: the queue has no
  duplicates and nobody serves what is in it) and that a running child is the one
  the parent waits for (`ParentInv`) give that a child writes alone. `FileInv` then
  keeps the file equal to the blocks its child received, so a write at the child's
  own offset is a write at the end. `SentInv` says what a client that closed in good
  order has sent, and `FileInv` that a child which has printed no error has received
  all that was sent, so that what is missing is the work of a client that gave up, of a
  file that changed, of an error the server printed, or a tail that `fclose` lost
  (`TailLost`: what is torn reaches to the end of the file). The guard of `Wait` is what
  `ParentInv` rests on: a parent that did not wait would have two children at the path.
* **Domain socket server.** A run that has not bound yet is not at the path; everything
  else is `PathOwned` itself.
* **One-shot server.** `GreetServer` says how far parent and child are together:
  there is an accepted guest once `accept` has returned, and a child that is done has
  greeted it unless it was killed. An empty message then proves that there
  never was a child. A guest is reset only after both processes have closed the
  listening socket, and then nobody accepts any more (`GreetGuest`).
* **Datagram server.** Whatever is on its way or has arrived was sent by its sender; the
  zero byte at which `printf` stops is not before the bytes received.
* **Telnet client.** `Accounts`: what was printed, what is unread and what a reset has
  destroyed are together what the server has sent, and only a reset before the end
  of the connection destroys anything. `stdout` may write at any `printf` or later:
  the invariant is about `screen \o stdio`, which the choice does not change.
  `TelnetControl` follows the error of the connection from the thread that is told
  of it to the end of the process.
* **Relayed texts.** What is in the buffer at any place is a zero, a label, or a byte of
  somebody who has spoken in this pass, and nothing is behind all prefixes and the
  longest text of the pass (`RelayTraces`). The string `sprintf` copies ends at the
  first zero, of the text (`StrlenOf`) or of what the buffer held before
  (`RelayedString`), so its length follows from this bound, and so does the statement
  that no array is left as long as texts and prefixes fit. What is sent behind the
  string is the zero `sprintf` writes, and bytes that were in the buffer: of earlier
  texts of the pass, or of the text itself, if one of its own zero bytes has cut it.
* **File events.** `EachEventTold` is stated with filtered sequences. The proof works with
  a formula that says the same place by place: from the first event of a watched
  kind on, each is told as the last one of a watched kind (`Heard`), and
  `notificationMessage` is the kind the next one without a kind will be told as
  (`Said`). That the bytes behind `pointer` are the events the walk has not come to,
  header by header, is `Behind`: there is a function `at` from the number of an event
  to its place in the buffer. `EventQueue` says that what the kernel still holds comes
  next, without a gap, which is what a `read` that cuts the queue relies on.
* **Alarm.** A handler runs only inside `pause`, and from `sigaction` on the timer is set,
  or its signal is pending, or the handler has not called `alarm` yet. The last
  case is the one a signal that comes early and a slow process lead to.
* **Forks.** `ForksControl` is where parent and child of each function can be together;
  `ForksBefore` and `ForksLines` count each line in the output and in the two buffers:
  the line printed before `fork` is in the buffer of every process that has not
  ended, and reaches a file once per process that flushes. `ForksOwn` does the same for
  the line that each process of `fork_intro` and `processgroups` prints about itself: it is
  out or in one buffer, and only a process about to call `exit` holds one there, so that
  at the end it is out once. `ForksRoles` says of the
  saved parent id that it is `init`'s only if the parent is an orphan, and that nobody
  has compared with it before it was saved. The number of times a line occurs is a
  cardinality; what it is after `Append` and `\o` is proved from the library of finite
  sets (`TimesAppend`, `TimesConcat`).
* **Types.** `IpcTypesIInv` and `ConnTypesIInv` are the invariants above, conjoined with the
  bounds they did not need: the queue is within its room and the backlog within
  `QueueLen`, a run of `UnixSharedMemory.c` creates one segment at most
  (`ShmCounted`: no more segments than runs that are past their `shmget`), the address
  the one-shot server tries is in the list until it gives up.
* **Pages.** With a step longer than the length, the page behind the first piece was not
  asked for; the one call of `mlock` that is made covers it.

Only model-checked:

* Liveness (`Responsive`, `SelectResponsive`, `ProgramsEnd`, `ConnectionsEnd`), which is out of the
  prover's reach.
* `ComputationsRight`: bytes, words and the family of `MemoryManagement.c` are sums and
  folds over sequences, and packed floats are made of powers of two, of which the
  provers know nothing for an exponent that is not a number. The run tries all bytes,
  and all floats and sums of words of a few bits. Of `Bitmasks.c` it says what the
  program prints for its one byte, 32.

The proofs changed one definition of a model. The initial state of `Forking` had
a `CASE` in which two guards were true of the child of `processgroups`; TLA+ leaves
open which of the two is meant, TLC took the first, and the prover could not know.
The alternatives are now disjoint. `AlarmKept` became a property of the run because
the end of the alarm program can only be stated as liveness, and what is hard in
it is a safety property: that no alarm is lost between `sigaction`, `pause` and the
handler.

## Findings and other disagreements

Six runs refute a statement that the repository makes about its own program:

1. `poll_blocks`: the poll server can wait in `recv` for a client that has said
   nothing. A client leaves; `del_pfds` moves the last entry into the hole and leaves a
   copy of it behind `fd_count`. `poll` is given `fd_size` entries, so in a later pass it
   reports on the copy too, with POLLIN if the client it names has written. The listener
   is slot 0, so a client accepted in that pass is accepted first, and `add_to_pfds`
   (line 143) puts it into the slot of the copy without clearing `revents`; the loop
   then comes to it. The header says that polling is there to avoid just that (27-31).
2. `select_phantom`: a `recv` that fails is broadcast as a message (line 261,
   `size_t`), although the comment above the test describes it as the case of an
   error (260).
3. `semaphore_race`: the check that "will not be met" in `UnixSemaphores.c` (line 31)
   is met after a lost shift. The run uses four threads, the program fifteen.
4. `send_all_bytes`: the bytes on the wire are not the message
   (`UnixSocketSendAllBytes.c` line 35: `sizeof buffer`, no offset).
5. `event_repeat`: an event of none of the six kinds (`IN_Q_OVERFLOW`, `IN_IGNORED`) is not
   passed over, as `UnixFileEventWatching.c` says in 86-87: `notificationMessage` is neither
   initialised nor reset (28, 107), so it prints what the event before it was, or a wild
   pointer. `EachEventTold` is about the events of the six kinds, and holds.
6. `loop_returns`: "our main connection loop" that is to "fork a new process for each
   incoming connection" (`UnixStreamSocketServer.c` 143, 158) closes the listening socket
   and returns in its first round (173); who else is in the queue is reset.

Where the program does something other than a comment says, without a run of its own:
the models do what the code does, and no property claims what the comment does.

* "We can tell which is which by checking the parent process id" (`Forking.c` 39). Not
  if the shell ends in between: the parent's own parent id changes, and it takes itself
  for the child (42). `Roles` says when a process is taken for the other one.
* The child of `processgroups` prints its parent id as "that of the init process"
  (`ProcessGroups.c` 36; the header, 12: "it will be 1!"), and nothing makes it wait for
  the parent's end. `Roles` again.
* What the datagram server prints is not "the size of the message in bytes"
  (`UnixDatagramSocketServer.c` 115) but of the variable it is in (116).
* "This is a client with a message to send, so we will send it to all others" (select
  server 289). `strcpy` and `sprintf` (298, 301) stop at a zero byte, which telnet sends
  after a carriage return, and the length of the `send` does not, so what follows is
  replaced by what the buffer held before. `RelayedText` says what is sent.
* With the end of the stream "the file has been transferred successfully"
  (`UnixFileTransferStreamServer.c` 104-105). A client that stopped in the middle of its
  file ends the stream in the same way (138), and no length is sent.
  `OneUploadAtATime` names everything that leaves a part.
* "Wait until the child terminates, then unlock the section" (`UnixRecordLocking.c` 123).
  `F_UNLCK` as a command (128) is `F_SETFD`; "file unlocked" is printed and the lock is
  there until the end of the process.
* `MemoryResidence.c` is called with "num-pages lock-page-step lock-page-len" (74), and
  "locks specific pages in memory" (7). The length is converted from `argv[1]` (88), so
  that the last argument is not used and one call locks everything: `LengthIgnored` is a
  theorem, and no property of a run speaks of these pages.
* `binary &= (0 << 5)` clears the whole byte, where the comment speaks of "a 0 in that
  particular position" (`Bitmasks.c` 53, 56). The program's byte has no other bit set by
  then, so what it prints agrees with the comment.

Seen while modelling, in the models where they affect the state; what the repository
says to the contrary, if it does, is quoted with the entry.

* Both servers die of SIGPIPE when a client that was reset is sent to twice (poll
  server line 279; select server lines 246, 273, 306). `SigPipe` is an action, and
  the liveness properties except the state after it.
* The poll server polls stale slots; a closed descriptor among them makes every
  call return at once (line 200). `accept` that fails has the same effect (224).
* The select server does not reset its `timeval` (170, 195): once the time is
  used up, `select` no longer waits.
* `numberSent` is returned uninitialised for an empty message
  (`UnixSocketSendAllBytes.c` 29, 52).
* In the file server a `fork` that fails is taken for the parent
  (`UnixFileTransferStreamServer.c` 204), an `fopen` that fails is followed by `fwrite` to NULL
  (120), a short `fwrite` is reported and leaves a hole (127), a failed `recv` a part of the
  file (132), and the result of `fclose` is not looked at.
* The select server sends ten bytes more than it received, whatever the prefix is
  (306). It means "to zero both the buffer and the server message" (186) but does so
  once per `select`: a second text of the same pass is followed by bytes of the
  first, and the prefixes pile up. "If a message is longer than the buffer it will
  be truncated" (145) is true of `recv` only; the copies that follow overrun.
* A failed `connect` is followed by `break`, so that both clients go on with a closed
  descriptor, and the telnet client prints "Successfully connected"
  (`UnixTelnetClient.c` 117, 134; `UnixStreamSocketClient.c` 79).
* `unlink` can never be reached (`UnixSocketsForIPC.c` 88): after one run no other can
  bind.
* The datagram server prints the buffer before it terminates it
  (`UnixDatagramSocketServer.c`).
* A failed `fork` is taken for the parent (`FIFO.c` 61), which then waits for a writer
  for ever, unless another run comes along. A failed `shmat` or `fork` in
  `UnixSharedMemory.c` (59-62, 70-72) leaves the segment in the system.
* An alarm that comes before `sigaction` kills the process (`AlarmSignal.c` 46).
* The parent of `forkingandwaiting` ends with `_exit` and without `fflush`, so that in
  a file none of its own lines from after the `fork` appear
  (`BasicUnixSystemCalls.c` 87).
* With a `FAMILY_SIZE` below four nobody's `parent` is set before it is read
  (`MemoryManagement.c` 138).
* The file of `UnixRecordLocking.c` is created without a mode (29), so that the child's `open` may be refused.
* A queue filled by killed runs makes later children wait for ever in `msgsnd`
  (`SystemVMessageQueues.c` 72); `RunsEnd` states this exception.

## What is not modelled, and why

* **Bytes in the servers' loops.** In `PollServer` and `SelectServer` texts are authors
  and numbers, and `recv` does not cut them. `RelayBuffer` has the bytes, without the
  loop around them.
* **What follows undefined behaviour.** An overrun of an array or a wild pointer ends
  what a model says of that process, or may have any of the named outcomes.
* **The raw socket server.** The file does not compile (`handle_corruption` breaks off
  in line 254), `main` is not finished, and `calculate_checksum` reads pointers behind
  the one it is given; only `checksum` is a function one can state something about.
* **Time.** `select` may time out whenever nothing is ready.
* **Allocation failure, `poll` and `select` themselves failing.** The process ends.
* **Programs of one process without a choice**: files, streams, memory, language,
  system information. A model would repeat the sequence of calls.
* **What the kernel's pager decides**: the residence of pages, and `MemoryMapping.c`.
* **Single calls**: `Exec.c`, `ControllingTerminal.c`, `exitSysCall` and `pidAndKill`.
* **`DontRunThis.c`**, which forks without end on purpose.

`PROJECT.json` lists every source file under a component with its reason.

## Plan

Written so far, in this order: `StreamSockets`, `ChatRoom`, the two servers and
their refinement, the threads, `SendAll` and `Pipes`, `FileTransfer`, the kernel
objects and the proofs; then `Fifo`, `EventWatching`, `Forking`, `AlarmSignal`, the
small servers, `TelnetClient`, `RelayBuffer` and `Computations`. Every program of the
repository in which something can go wrong between two steps has its module.

The proofs followed the same order: invariants of the servers and of the mutex
program, the room, the refinement of the room by both servers and what follows for
their clients, then the programs of `MCThreads`, `MCIpc` and `MCConnections`.

Every invariant that a run checks is proved, except for what is named under "Only
model-checked" above. What could be added:

1. A theory of powers of two and of folds, proved by the induction over sets that
   `Spoken` uses, for the packed float, the checksum and the family.
2. A model of the select server in which the texts of one pass share the buffer of
   `RelayBuffer`, so that the bytes and the loops are one state machine.

## Running the checks

In this directory, `tlc -config <cfg> <module>` for each entry of `runs` in
`PROJECT.json`, and `tlapm <module>` for each module whose name ends in `Proofs`.
Each passing run takes from half a minute to two minutes with two workers.
