# Verification project for federated

TLA+ models of the C++ library and command-line tool of this repository, the TLC runs that
check them, and the theorems TLAPS proves about them. Paths below are those of the repository:
implementation files are under `src/`, headers under `include/federated/`.

    cd tla
    tlc -config UdpTransport.cfg UdpTransport     # one run; PROJECT.json lists them all
    tlapm OverlayProofs.tla                       # one module of proofs

Contents: [Inventory](#inventory) · [Plan](#plan) · [Modules](#modules) · [Runs](#runs-what-they-ask-and-show) ·
[Fairness](#fairness) · [Proofs](#proofs) · [Where code and documentation differ](#where-code-and-documentation-differ) ·
[What is not modelled](#what-is-not-modelled)

## Inventory

The library is single-threaded C++17: singletons with static state, called by one thread.
Concurrency enters in five ways only: the kernel moves bytes and connections while a call
blocks in `select` or `recvfrom`; signals interrupt the service process; two processes share
the file of the file transport; other processes change the files that the HTTP server reads;
and callers make legal calls in orders nobody wrote a test for. Nothing in the code is
persisted except that file, so there is no recovery to model.

| Component | State it keeps | Operations | Interacts with | What is hard | What makes it correct |
|---|---|---|---|---|---|
| Transport interface (`transport.h`) | - | open, close, send, recv | implemented by the transports | one contract, very different media | a session hands over what it accepted, at most once, nothing over a close |
| Loopback (`transport/loopback.cpp`) | open flag, queue | the four | caller | recv pops before it compares sizes; a second open clears | as above, in order |
| UDP (`transport/udp.cpp`) | socket, local port, peer address, queue | the four | kernel | messages reach the caller by two ways, the queue and the socket; a peer that outlives its session | as above but for the order, which is the network's; what arrived is fetched |
| TCP (`transport/tcp.cpp`) | listening, client and server sockets, queue | the four, `ensure_connection` | kernel | every socket step may fail; a backlog that outlives a failure; a byte stream cut into messages | an ordered channel of bytes, no leaked descriptor, every call returns |
| DNS tunnel (`transport/dns_tunnel.cpp`) | two copies of a configuration, the limiter's last query, a counter | configure, open, close, send, recv | kernel, wall clock | unsigned subtraction of wall-clock times; configuration read from two copies | queries keep their distance; one configuration per query |
| File transport (`transport/file.cpp`) | open flag, the file | the four | another process, stdio | send truncates while the other reads; a failed `fclose` is ignored | with a framer, no cut or mixed message is accepted |
| Framers (`framer/*.cpp`) | none | encode, decode | file transport, callers | boundaries: empty, one byte short, a cut at a chunk | decode undoes encode; damage is noticed |
| Onion router (`onion/onion.cpp`) | a table of circuit pointers, a count, an id counter, the heap | create, send, destroy, bridge flag, destructor | ChaCha20 | table, count and heap must agree; the allocator reuses addresses | no double free, no lost circuit, unique ids, layers come off in hop order |
| Federation (`federation/federation.cpp`) | peer array and count, id counter, local node | initialize, add, remove, clear, get, discover, register, broadcast | callers' ids | counted and chosen ids share one space; repeated initialize runs past the array | a bounded directory by id, in order of arrival, but for what `initialize` does to a list that is not empty |
| Mail store (`service/mail.cpp`) | message array, static id counter | init, cleanup, append, list, fetch, remove | SMTP, IMAP | names cut on one path only; places never reused | generated ids never return, stored mail stays as it is |
| SMTP server and client (`service/smtp.cpp`) | session state, sender, recipient | one handler per line; client queue | mail store | states the diagram does not have (MAIL after QUIT) | no envelope mixes two transactions |
| IMAP server (`service/imap.cpp`) | session state, selected mailbox | one handler per line | mail store | a store that is down; names cut on one path only | FETCH finds what SELECT announced |
| HTTP server and messages (`service/http_server.cpp`, `service/http.cpp`) | running flag, document root, a static buffer for bodies | init, start, stop, handle a request; GET and HEAD of a file | TCP transport of the process, files that others change | stat, open, ftell and the reads are separate steps; all responses share one buffer | an answer is one file, whole, or Not Found, and nothing of a file before |
| Crypto (`crypto/*.cpp`) | none | encrypt, decrypt | onion router, callers | tables, padding, counters, room | decrypt undoes encrypt; the ciphers are the standard ones |
| Service loop and commands (`tool/cli_commands.cpp`) | running flag, handlers | service start / stop / status / list, version, about, help, completion | signals, log, command line, stores | a signal at any step; the handler logs | a signal always ends the process, in order |
| Command line (`tool/cli.cpp`) | option table, environment file | dispatch, parse, look up an option | commands | look-up by name over all services | arguments > file > environment > default, per service, which holds with two departures |
| Logging (`tool/log.cpp`), main (`tool/cli_main.cpp`) | level, log file, "initialized" | init, log, cleanup | everything above | not reentrant: `localtime` locks; set up anew by whoever logs first | the level that was asked for is kept |
| Registry (`core/registry.cpp`) | bounded tables by name | register, get | an example and the tests | - | not modelled |
| Bluetooth, infrared, Wi-Fi Direct | none | stubs | - | - | - |
| Core types (`core/*.h`) | none | structures, conversions | everything | - | - |

`PROJECT.json` lists the same parts with their files and status, and every hazard found in
them at its line, with the properties that would catch it.

## Plan

The order is by how much of the system depends on a component and how badly tests reach it.

1. **Done.** The transports behind one abstract channel: `Channel`, then `LoopbackTransport`
   (smallest), `UdpTransport` and `TcpTransport`, each checked and proved to implement it.
2. **Done.** The two tables whose bookkeeping must not drift: `OnionRouter` with its heap
   (proved) and `Federation` with the abstract `PeerDirectory` (proved to implement it).
3. **Done.** The mail system: `MailStore`, `ImapServer` and `SmtpServer`, composed by
   `MailSystem`.
4. **Done.** `Framers` as pure functions, composed with the file transport in
   `StoreAndForward`.
5. **Done.** The tool: `CliOptions`, composed with signals, the log and its lock in
   `ServiceLoop`, from `main` to the exit code of every command; and `DnsTunnel` with its
   limiter over a clock that may be set.
6. **Done.** `HttpServer` with the static buffer of `service/http.cpp`, over a disk that others
   change and the TCP transport that the whole process shares.
7. **Done.** `Aes` and `ChaCha20` to the bit, and `EndToEnd`, which composes every cipher with
   `Framers` and `LoopbackTransport`.
8. **Done, theorems.** Every safety property of the runs, and every refinement: see [Proofs](#proofs).
9. **Open, models.** More than one client of `HttpServer` through the transport, once the source
   reads requests from it; the registry, once the library uses it.

All modules are laid out for proofs: constants with named assumptions, one action per
operation and outcome, and no RECURSIVE operator: what is recursive in the code (the chunks of a
message, the rounds of a cipher) is a recursive function or a fold.

## Modules

Conventions. An action is a whole call with one of its outcomes; where a call blocks, it is
split at the blocking point and a variable `pc` says where the caller is. A payload is a number
(the order in which it was accepted) and, where sizes are compared, a size. Ghost variables
are marked in the declarations. A definition under a comment `variant:` is no part of the
model: it is the form that a plausible slip would give the definition below it, and with
it in place the run finds the property it is meant for violated. `PROJECT.json` pairs them
(`mutants`), and maps each definition of the models to the lines it stands for (`map`).

**`Channel`** - the promise behind `transport.h`: units accepted by a session are pending until
handed over once or lost; a close drops them; with `Ordered`, nothing older follows
something newer. A transport may hand over several units in one step (a TCP message is a
sequence of bytes).

**`LoopbackTransport`** - the queue of `loopback.cpp` behind its open flag. `Recv` pops before
it compares sizes, so a message too large for the caller's buffer is gone.

**`UdpTransport`** - one socket that sends to its own port. `send` transmits and then waits up
to its timeout for any datagram to put in the queue (`SendEcho`, `SendNoEcho`); `recv`
takes from the queue first and otherwise waits on the socket. The network is external: it keeps or
changes the order (chosen in Init), and drops. Ports may be handed out again after a close.

**`TcpTransport`** - `ensure_connection`, `send`, `recv`, `open` and `close` with each `select`,
`accept`, `send` and `recv` of the code as a step that may fail. The kernel part (handshake, backlog,
bytes on the way, bytes arrived) is external. Bytes are numbered as they are written.

**`OnionRouter`** - slots, count and a heap whose addresses are used again once freed. A packet
is the set of ChaCha20 keystreams it carries, each named by key and nonce; two equal ones
cancel, which is what XOR does and why nonces must tell hops apart.

**`PeerDirectory`**, **`Federation`** - what a federation promises (a set of peers by id), and
the array that keeps it: first match wins, removal shifts, initialize appends. Callers may
choose any ids and initialize at any time, so the list may come to hold an id twice and to be
longer than the array, as it may in the code.

**`MailStore`** - append fills the next place, remove marks, nothing reuses a place until cleanup
and init; the id counter is static and survives both. Long names are cut when stored and
when selected, and compared uncut elsewhere. **`ImapServer`** and **`SmtpServer`** - their
commands with the guards the handlers have, which are fewer than their state diagrams
suggest. **`MailSystem`** - one process with all of them over one store.

**`Framers`** - encode and decode of raw, length-prefix, CRC and chunked framing, over sequences of
units (a payload byte, a header, a checksum, a chunk size, a line end), each labelled with the
message it was written for. `ChunksFrom` and `ChunksAt` are recursive functions of an offset, as the
loops of `framer/chunked.cpp` go from one to the next. **`StoreAndForward`** - a writer and a reader process that share
the file of the file transport, each moving any number of units at a time; the writer may
stop anywhere, since `send` ignores what `fclose` returns.

**`CliOptions`** - the value of an option from arguments, environment file, environment and
default, as `get_option_value` searches them. **`ServiceLoop`** - a process of the tool from
`main` to its exit: the log is set up, the command dispatched (`Tell`, `Refuse`,
`StopOrStatus`, `Configure`), and `service start` sets up its store, its flag and its
handlers and waits. Signal handlers are a stack of frames over the main program and interrupt it between
any two steps. The lock is that of `localtime`/`strftime` in the C library, which `LOG_INFO`
takes; a message that comes before or after the log is set up sets it up with defaults, and
`log_cleanup` closes the file and forgets it in two steps. **`MCServiceLoop`** gives the
arguments, files and environments of the runs.

**`HttpServer`** - a request as `stat`, `fopen`, `ftell`, any number of reads and the answer
(`Stat`, `Open`, `Size`, `Read`, `EndRead` and the ways out to "Not Found"), between which other
processes `Replace`, `Delete` and `Rewrite` files and make directories. A file is a sequence of units, each
marked with the name and version it is from, so that a stale unit in the static buffer shows. A
file that lost its name is still read to its end by whoever has it open (`Held`). The last
response of `handle_request` (a copy in the caller's memory) and of a direct call (a pointer into the
static buffer) are kept, to be compared with what the request found (`due`, a ghost).
`Start`, `Stop` and the other users of the process-wide transport act on one flag.

**`Aes`** and **`ChaCha20`** - the code's tables, key schedule, rounds, chaining, padding and
counters on bytes, and, at the end of each, the cipher in the form of its standard: FIPS 197 by
sums and inverses in the field, RFC 8439 by numbers (in two halves) in the columns of a square. Nothing of the code's
tables or loops is used there, only its exclusive or and the four constants of ChaCha20. **`EndToEnd`** - a sender who encrypts with any of
the library's ciphers, frames with the length prefix and sends on the loopback transport, and a
receiver, with the same key or another, with a buffer of `Room` bytes.
**`MCEndToEnd`** gives texts and keys.

**`DnsTunnel`** - configure, open, close, send and recv, with the limiter's sleep as ticks of
time during which anybody may set the wall clock. The model keeps how long ago the last query was
and how far the clock was set since; unsigned subtraction turns a negative difference into a
huge one. **`MCDnsTunnel`** gives the configurations.

How they are composed: `MailSystem` EXTENDS `ImapServer` (which EXTENDS `MailStore`) and
`SmtpServer`, and interleaves their actions over one store; `StoreAndForward` EXTENDS
`Framers`, and `ServiceLoop` EXTENDS `CliOptions`; `EndToEnd` EXTENDS `LoopbackTransport` and
`ChaCha20` (which EXTENDS `Aes`) and instantiates `Framers`; the transports and `Federation` instantiate their
abstract module with a refinement mapping and have its `Spec` as a property.
`OnionRouter` and `StoreAndForward` have prefixed names (`RouterInit`, `RouterSpec`,
`StoreNext`, ...), because they share a module of proofs with `Federation` and with `DnsTunnel`.

## Runs: what they ask and show

Every run but two completes without an error; the last column says why its bounds are
enough. Deadlock is checked everywhere except in the `ServiceLoop` configurations, where the
process ends and nothing is left to happen. No symmetry is used: the runs are small enough.

| Run | Asks | Bounds, and why they are enough |
|---|---|---|
| `end_to_end` (385 states) | Does whoever has the key get the text back through every layer; are AES and ChaCha20 the standard ciphers; is the loopback transport, with its oversized messages and small buffers, an ordered channel? | Texts of 0, 15, 16 and 32 bytes about a block of AES and of 70 about one of ChaCha20, one that ends in what looks like padding, a counter that carries; a text of 79 bytes that exceeds `Room` (78) and a frame of 82 that exceeds `MaxMessageSize` (80); two messages in a queue over any sessions. The ciphers keep no state, and the texts for AES make use of every entry of its two tables. All three are proved for all values. |
| `udp` (125 000) | Does the transport never repeat a datagram, carry none over a close, send only to its present port, overtake only where the network does, and hand over what arrived? | Two ports, so that a session gets a new port or the old one again; three datagrams, so that one is in the queue, one in the socket and one on the way. Proved for all values but the last. |
| `tcp` (40 000) | Through every failure: no leaked descriptor, no half connection, bytes in order, an ordered channel, every call returns? | Three connections (one that fails, one that is left behind, one that is used), five bytes for two messages and a partial one, three bytes in the kernel, so that a message fills it. Proved for all values but the last. |
| `onion` (112 000) | Do table, count and heap agree; are ids unique; do layers come off in hop order? | Capacity 2 with 3 addresses, so that a full table and the reuse of an address occur; two hops with keys that may be equal; four circuits. Proved for all values. |
| `federation` (4 600) | With any callers: when do two peers share an id, what overruns the array, does the order of arrival stay, and is the list otherwise a bounded directory by id? | Capacity 3 and up to four nodes a call, null ones among them: a call with more nodes than places, a list that fills from both sides, and one that is overrun. Ids counted up to 4, chosen ones 2 and 6, so that the counter meets one of them and not the other. Proved for all values. |
| `mail` (58 000) | With SMTP, IMAP, the SMTP client and other callers over one store: do generated ids never return, does stored mail stay, does FETCH find what SELECT announced, does no envelope mix transactions? | Two places and three appends: a full store, and one that starts again; a name that is too long, the name it is cut to, and the outbox; one IMAP session, since sessions share nothing but the store, which the other callers change as well. Proved for all values. |
| `store_forward` (28 000) | Does decode undo encode; is no cut or mixed frame accepted where the framer can tell, and of chunks nothing but whole ones? | Chunks of 2 and lengths 0, 2, 3, 4: empty, one chunk, one and a piece, two; a decode buffer of 3, so that one message does not fit; two messages, so that one overtakes the reader of another. Proved for all values. |
| `service` (551 000) | Does a signal end the process whenever it comes; does a service that reports success end in order; is the log level kept; does every service get its port by the documented priority, but for two departures? | Two signals, one of each kind or twice the same; every command, with and without help and with an option that lacks its value; both levels and a log file that opens, fails or is not asked for; every environment with at most two of the four variables set; files of one line over all of them, and of two over the shared one and SMTP's own. Proved for all values but the first, the third for files that fit the table of variables. |
| `http` (380 000) | Is every answer right whatever happens to the files meanwhile, is nothing in it stale, is every request answered, does a server that runs have its transport? | A name that is a file or a directory with its index, and a path that goes upward; files of one unit, of two and of three, where the buffer holds two, so that a file shrinks, grows, fills the buffer and exceeds it; three changes of the disk, so that a directory goes, a file takes its name and that one changes while the buffer holds the index; a caller's buffer for one unit. All but the third are proved for all values. |
| `dns_tunnel` (251 000) | Is the distance between queries kept over sessions, refused messages and long sleeps; is one configuration used per query? | A slow configuration with jitter, a fast one without and one that is invalid; ages up to 6, above the largest interval (3) with its largest jitter (2); the clock set once between two queries, by 3 ticks either way. Proved for all values. |
| `tcp_ends` (violated) | Do the two ends that `ensure_connection` leaves belong to one connection? | Two connections show that they need not. |
| `service_stuck` (violated) | Does a handler never wait for what it interrupted? | One signal shows that it may. |

Names of bounds: `MaxSends`, `MaxConns`, `MaxBytes`, `MaxId`, `MaxAppends`, `MaxNodes`,
`MaxSignals`, `MaxChanges`, `MaxCircuitId`, `LongAgo`, and `StoreAndForward`'s `MaxMessages` are bounds on otherwise unbounded
counters and stand in guards. `MaxMessageSize`, `MaxDatagramSize`, `Capacity`, `CircuitCapacity`, `MaxHops`,
`MaxChunk`, `MaxEnvVars`, `BufferSize`, `OutputSize` and `MailStore`'s `MaxMessages` are limits that the code has,
with smaller values, but for `MaxEnvVars`, which has its own.

What the properties say of the code, in short:

- `ImplementsChannel` (three transports): for UDP it rests on `close()` forgetting the peer and
  emptying the queue; for TCP on nothing of an old connection reaching `recv_queue`.
- `NoOvertaking` (UDP): a datagram taken from the socket by `send()` is older than all that stay
  there, so the queue in front of the socket does not break the order.
- `NoDescriptorLeak`, `NeverHalfOpen` (TCP): each way out of `ensure_connection()` closes exactly
  what was opened on the way in.
- `CountIsExact`, `TableIsExact` (onion): the check of `circuit_count` is as good as a look for
  a free slot, so the branch commented "shouldn't happen" (`onion/onion.cpp:98`) is dead.
- `LayersPeelInOrder` (onion): the nonce tells the hops of a circuit apart, so equal keys do not
  cancel each other's layers.
- `SharedIdWasChosen` (federation): two peers may share an id, because `initialize` counts up to one
  that a caller chose. It is these two and never three, and no id that was counted up comes back, since
  `clear_peers` leaves the counter alone.
- `OverrunNeedsPeers` (federation): the loop of `initialize` ends with the array when the list is
  empty, and `add_peer` looks at the count, so what runs past the end is an `initialize` behind listed peers.
- `OrderKept`, `ImplementsDirectory` (federation): shifting on removal neither reorders nor
  leaves a second entry of an id behind. `ImplementsDirectory` is asked of every call on a list that is a
  directory (`IdsUnique` and `WithinCapacity` hold), but for an `initialize` that finds no room (`FindsRoom`).
- `EnvelopeIsCurrent` (SMTP): holds although MAIL is accepted in states the diagram does not
  have, because RCPT is what leads to DATA and overwrites the recipient.
- `CutIsDetected`, `AcceptedWasSent` (framers): a length in front detects a cut, chunks detect one that is inside of
  a chunk; only a checksum detects a mixture.
- `SignalEnds`, `EndsInOrder` (service): the order "flag, then handlers" matters, and so does the
  end of the sleep.
- `PortByPriority` (service): the priority of `cli.h:103` is stated by itself (`PortIsOf`), and
  the two departures from it are named: `Crossed`, and `AskedFor` for services that get SMTP's port.
- `LevelIsKept` (service): a message before the log is set up sets it up with its own level, so
  what `main` does first matters. The exception is in the property: a log file that does not open.
- `AnswersAreRight`, `NothingStale` (HTTP): the buffer keeps what earlier requests read, but what
  is handed out of it is what this request has read, since anything less than the size that `ftell`
  told becomes "Not Found"; `handle_request` copies before the next request can overwrite.
- `OwnKeyOpens` (ciphers): also for an empty text, which AES's decryption tells from a failure by the
  length of the message alone (`crypto/aes.cpp:385`).
- `CipherIsStandard` (ciphers): tables, shifts, round keys and counters are right together with
  what undoes them; a cipher that only undoes itself would pass the tests of the repository.
- `Spaced` (DNS): sleeping once, by a clock read before the sleep, is enough as long as the clock is
  not set, because the time of the query is taken after the jitter.

## Fairness

Only where a property needs it, and only what the platform gives:

- UDP (`FairSpec`): the network delivers or drops a datagram in the end; `recvfrom` returns by its
  receive timeout (`SO_RCVTIMEO` is set when the socket is made); for `ArrivedIsFetched` the
  caller goes on calling `recv`, which is what the property is conditional on.
- TCP (`CallFairSpec`): a call that is in progress takes its next step and the kernel moves
  what it holds. Nothing makes a failing step happen, so `CallsReturn` holds both with and without
  failures. Callers are not assumed to call.
- Service (`FairSpec`): the main program and a handler on top of it run when they can, and
  the kernel delivers a pending signal that is not blocked. Nobody is made to send one: the property
  begins with a signal that was sent.
- HTTP (`WF_vars(Serve)` in `Spec`): the one thread that serves goes on with a request that it has
  begun. Nobody is made to ask, to change a file or to leave one alone.

## Proofs

TLAPS checks these for every value of the constants that satisfies the named assumptions of the
module (`LoopbackAssumption`, `UdpAssumption`, `TcpAssumption`, `OnionAssumption`,
`FederationAssumption`, `HttpAssumption` and `HttpNames`, `ServiceAssumption`, `CliAssumption` and
`DefaultAssumption`, `DnsAssumption`, `FramersAssumption`, `StoreAssumption`, `EndToEndAssumption`, and those of the
mail modules).
They ask that
limits, sizes, lengths and ids are numbers and that what stands for "none" is not a value: no port, no
address, no name of a file, no content; that the directories of the HTTP server lie where it looks,
that arguments, files and environments are made of strings, that a chunk is not empty, that texts and keys are
bytes and ciphers those of the library, and that the intervals and jitters of the DNS tunnel are below the age beyond which nobody looks. All of them are
evaluated by the runs.
Every safety property of every passing run is proved; what is left are those under fairness.

- `EndToEndProofs`, the channel: `ChannelInvariant`. The invariant says what the caller of any transport relies
  on: delivered and pending units were accepted, none is both, and when the channel is ordered all that
  is pending is younger than all that was delivered. It is inductive as stated, and holds for both values
  of `Ordered`. The transports inherit it by refinement.
- `EndToEndProofs`, the loopback transport: `LoopbackInvariant`, from which `LoopbackQueueInOrder` and
  `LoopbackImplementsChannel` follow. The queue is strictly ascending, which alone is not inductive: that
  `send` keeps it so needs the bound of all queued numbers by `sent`, and that `recv`
  keeps it needs all delivered numbers below the queue's head. The refinement maps each call
  to a channel step or a stutter: a refused send to a stutter, a `recv` into a buffer that is too
  small to a loss, a second `open` (which clears the queue) to a loss of everything. All this is shown for
  a user who sends and fetches any size (`AnyNext`), so that the layers above, whose frames have sizes of their
  own, are users as well: `StackImplementsChannel`.
- `EndToEndProofs`, the ciphers: `ChaCha20Opens`, `BlockBack`, `AesOpens`. A byte is known by its bits (`On`,
  `SameBits`), and exclusive or is defined by them, so what is added twice is gone (`AddedTwice`). The code's
  loops are recursive functions of a counter; `Iteration` and `StaysIn` say of each such function, from the
  well-foundedness of the naturals, that it exists, what its next value is and that it stays in a set, which is what induction
  would be needed for. For ChaCha20 that is all: the keystream is made of bytes and long enough, and added twice.
  For AES the tables are inverse by enumeration (`SubByteBack`), the shifts by their indices. `ColumnBack` is
  the argument for `mix_columns`: each byte that comes back is a sum, bit by bit, of doublings of the four that went in,
  the factors of the two matrices multiply to one on the diagonal (14\*2 + 11\*1 + 13\*1 + 9\*3, in powers of the
  doubling) and to nothing beside it. `BlockBack` follows the state of the decryption backward
  through the rounds of the encryption; `ChainedBack` does so over the blocks of a message, `JoinedCut` and `CutJoined`
  take a message apart and put it together, and `PaddedBack` shows that padding comes off for
  every length and every last byte of a text, also where a text is nothing but padding.
- `EndToEndProofs`, ChaCha20 and its standard: `ChaCha20IsRfc`. The code has words of four bytes in an array of sixteen and
  changes four of them at a time, at places that a table lists; the RFC has numbers in a square, and rounds on columns
  and diagonals. `Digits` and `SumIs` make an addition byte by byte with carries one of halves, `RotIs` the same
  for the rotations. `StepIs` and `QuarterRoundIs` are then about four words. Since the four quarters of a round
  do not meet (`QuartersApart`), the round in place is one of columns at once (`FourQuarters`, `DoubleRoundIs`), also
  when the square has been turned. `RfcBlockIs`, `CounterIs` and `KeyStreamIs` go on to the sum with the first state, the
  order of the bytes and the counter of each block, which may wrap.
- `EndToEndProofs`, AES and its standard: `SubstitutionIs`, `GmulIsProduct`, `AesIsFips`. A product is the sum of the
  powers of x that its factors have; `ProductSum` and `ProductDoubled` show that it distributes and
  that a doubling may be taken out of it, from which it follows what the code computes for the factors 1, 2 and 3.
  An inverse is defined as the byte that gives 1. Every byte but 0 is a power of x + 1 (two tables,
  each the inverse of the other: `ExpAndLog`), and products of powers add exponents (`ProductOfPowers`), so there is one
  inverse and it is a power (`InverseIs`); with that, SBOX is compared with the standard's transformation entry by entry
  (`SBoxIs`). Only this and the two tables of powers are enumerated. The rest is about order: `ShiftedIs` and `MixesAre` for a round, `NextWordIs` and
  `KeyExpansionIs` for the words of the expanded key, which both have (`IsSchedule`, `NextKeyIs`), `EncryptBlockIs` for the
  rounds side by side, `PaddedIs` and `PlainIs` for what is chained.
- `EndToEndProofs`, the stack: `OwnKeyAlwaysOpens`, `CipherAlwaysStandard`. The inductive invariant `StackInv` says that
  what lies in the queue at some place is, on the wire, the frame of the secret at that place of `made`, has that frame's
  size and could be sealed (`Carried`); sends and fetches keep the three sequences in step, lost frames included.
  What is behind the header of such a frame (`FrameBody`) is what the two theorems about the ciphers speak of
  (`SealedIsStandard`), so `CipherIsStandard` follows without further assumption.
  What is at the front also decodes (`FrameOpens`) and decrypts (`SealedOpens`) to its text, with which
  `OwnKeyOpens` is kept (`StackOpens`). Its hypothesis `RoomForAes` is what
  the code leaves to its callers: AES allocates what it writes, so only they can see to it that the
  buffer that `decode` fills has room for what AES made and the transport accepted. The other
  ciphers look for room themselves, and `CarriedFits` takes it from there. The run satisfies it.
- `UdpProofs`: `UdpPeerIsOwnPort`, `UdpImplementsChannel`, `UdpNoOvertaking`. The invariant gives every
  datagram one place (queue, socket buffer, wire, or handed over) and a number of its own, not above
  `sent`; a closed transport holds nothing of its session. That makes each step one of the channel: a
  move between places inside a session is a stutter, a drop or a close a loss. `NoOvertaking` needs more:
  on an ordered network each place is ascending, the socket is older than the wire, and the
  queue is older than both, because `send` only takes out of the socket what is oldest in it.
- `TcpProofs`: `TcpNoDescriptorLeak`, `TcpNeverHalfOpen`. What an exit of `ensure_connection()`
  leaves behind depends on how far the call had come; `Stage` says what each point of a call may rely on
  (no server end while connecting, both ends while bytes move), and with it both are inductive. `SocketsKept`
  covers every step that leaves the sockets alone. `TcpStreamInOrder`, `TcpImplementsChannel`: the bytes that a
  session can still deliver are pieces, the messages of the queue and behind them what is `Coming`
  (`temp_buf`, the socket, the wire, as one sequence). A byte that the kernel moves or `recv` reads
  stays where it is in that sequence, by the law of association; the end of a `send` cuts a message off its front
  (`MessageMade`) or drops it (`FrontDropped`), a write puts younger bytes behind (`BytesWritten`), and what
  `recv` returns is below the rest (`OldestTaken`). `accept` may join two connections (see `EndsMatch`
  below); then what is written never comes, which is a loss, and since only the connection of the client
  end ever holds bytes (`StreamShape`), nothing of another one is read. `TcpTypeOK` is not inductive by
  itself either: that a write stays below the bound of all bytes needs `Budget`, which says that what a call has
  yet to write of its message fits under it.
- `OverlayProofs`, the onion router: `OnionTableIsExact`, `OnionCountIsExact`, `OnionIdsUnique`, `OnionLayersPeelInOrder`. The inductive
  invariant is `RouterInv`, the conjunction of `RouterTypeOK`, `CountIsExact`, `TableIsExact`, `CircuitIdsUnique`
  and two facts that are not properties in themselves: `IdsPassed`, ids of live circuits are below the
  counter (without it a new id could be an old one), and `NothingLeft`, a destroyed router lists nothing
  (without it the next constructor, which clears the slots, would lose circuits). `SlotIsLeft` is the
  argument for the dead branch: a set of occupied slots smaller than the capacity leaves one
  free. One lemma per action; `RouterStep` puts them together. The ids are those of a
  counter that has not wrapped. `LayersAre` says that
  the nonces tell the layers of a packet apart, so each keystream is added exactly once and none cancels;
  then taking off the first k leaves those behind.
- `OverlayProofs`, the federation: `FederationSharedIdWasChosen`, `FederationOverrunNeedsPeers`,
  `FederationOrderKept`, `FederationImplementsDirectory`. None has a hypothesis: callers use any ids and call
  anything at any time. The inductive invariant `IInv` is `TypeOK` and `SharedIdWasChosen`. The type of a
  peer's id, one that callers chose or one below `next_peer_id`, is what keeps the ids of new entries from
  meeting a counted one, and that a shared id is below the counter is what keeps a third from joining.
  `InitializeAppends`, `AddPeerWrites` and `RemovedIs` say what each operation does to the array.
  The refinement supposes at each step what `ImplementsDirectory` does: unique ids, because
  `add_peer` replaces only the first match and the directory the only one, and room for an
  `initialize`. `FirstMatches` gets the least element of a set of numbers from the well-foundedness of
  strict inclusion, since induction schemes cannot be instantiated.
- `MailProofs`: `MailGeneratedIdsUnique`, `MailEnvelopeIsCurrent`, `MailHistoryStable`,
  `MailExistsAgreesWithFetch`. Generated ids do not return because all that were issued are below the
  static counter (`IdsPassed`), which neither cleanup nor init resets. An envelope is current by
  `SenderIsCurrent`: in the states after MAIL the sender is of this transaction. The other two
  are steps: append fills only a new place and remove only marks; SELECT and FETCH look under one
  name when it needs no cutting.
- `HttpProofs`: `HttpAnswersAreRight`, `HttpNothingStale`, `HttpRunningIsOpen`. The invariant follows a
  request: what is under a name is that file's from end to end (`DiskOK`); what is open is the file
  of the request, under its name or not (`HandleOK`); the buffer up to `count` has been read from it
  (`BufferOK`); and every answer is right, the one written by `handle_request` as a copy, so that it does not
  depend on the buffer (`AnswersOK`). `PieceIs` says what a read does to the buffer, `ReturnKeeps` that a good
  page ends a request well, `ChangeKeeps` that whatever happens to the disk, the open file is what it was
  unless somebody wrote to that very file.
- `ServiceProofs`: `ServiceTypeOK`, `ServiceEndsInOrder`, `ServiceLevelIsKept`, `ServicePortByPriority`. The
  invariant says for each point of the main program what has been set up (`Started`, `Progress`: the handlers are
  installed one after the other, and none before the flag is set, so a flag that is down was taken down by a
  handler); what runs on top of it (`Stack`: frames of different signals, each installed, hence at most two);
  what may hold the lock (`LockHeld`: the main program or a frame, each in the middle of its message); and
  what the log is set up as (`LevelSet`). `LevelIsKept` is part of it, since it compares the log with what was
  asked for at every message. `ServiceQuietNeverStuck` shows where the deadlock of `service_stuck`
  does not occur: a process that logs errors only, and whose log file opens, takes no lock until
  `log_cleanup` has forgotten the level. `PortByPriority` follows the search: the options of SMTP come
  first and one of them yields a value, so no later one is asked (`SmtpValue`), and a value is from the file or the
  environment (`VariableGives`). It is stated for files with no more lines than the table
  of variables has places: the code drops the rest without a word, and with it perhaps the port.
- `FileAndDnsProofs`, the DNS tunnel: `DnsTypeOK`, `DnsOneConfiguration`, `DnsSpaced`. An open tunnel has the
  configuration it copied (`ServerIsConfigured`), the limiter remembers the last query over sessions and
  refusals, and reads nothing else off a clock nobody set (`RemembersLast`), and what has passed since
  the last query plus what is left of the sleep is the interval, with the least jitter once that is being
  slept (`SleepsEnough`). That sum stays as time passes, which is why one sleep is enough.
- `FileAndDnsProofs`, framers and file transport: `DecodeUndoesEncode`, for every framer and every length,
  and `StoreInvariant`, `StoreRoundTrip`, `StoreCutIsDetected`, `StoreAcceptedWasSent`. Both processes
  move any number of units at a time, so the invariant is about places: the file and what is yet to be
  written are, joined, a beginning of the last frame (`FileIsOfLast`), and each unit that was read stood at that very
  place of some frame (`GotWasWritten`). From this and the label of a unit it follows that what is unmixed
  is a beginning of one frame; a header then gives its length away, and a checksum, which stands at one place only,
  the message it belongs to. The chunks need two arguments by induction, and induction schemes
  cannot be instantiated. `Recursion` therefore shows once that a function of an offset that looks only
  further ahead exists, from a partial solution of greatest extent, and `Greatest`, with
  it, takes the role of induction: of the offsets at which encoder and decoder disagree there would be a last one, and
  what follows it contradicts that (`ChunksDecoded`). `CutChunksDecoded` does the same for a frame that is
  cut anywhere: the decoder refuses it, or gives chunks that end where one of the message ends.

Left to TLC: liveness and everything under fairness (`ArrivedIsFetched`, `CallsReturn`, `SignalEnds`,
`AnswerComes`), which are out of the prover's reach. Each `TypeOK`
that a run checks is proved; that of the onion router, the federation and UDP is part of
the invariants proved. The mail system states its own for the reader, as part of `MailInv`; the file
transport's is `StoreTypeOK`, proved as `StoreTypeIsOK`. Neither is among the properties of its run.

## Where code and documentation differ

Two runs end in a counterexample.

- `tcp_ends` / `EndsMatch`. When `select` or `accept` fails in `ensure_connection`
  (`transport/tcp.cpp:291`), the client socket is closed and its connection stays in the backlog of
  the listening socket. The next call connects a new client, and `accept` returns the old, dead
  connection. `send` then writes to a connection nobody reads, reads the end of the other stream and
  returns `OK`; nothing is delivered until `close`. `tcp.cpp:268` says "Accept the connection on server
  side", `tcp.h:18` "Reliable delivery with flow control".
- `service_stuck` / `NeverStuck`. The signal handler logs (`tool/cli_commands.cpp:29`), and the log
  calls `localtime` and `strftime`, which lock. A signal that arrives while the main program or the
  other signal's handler is in there waits for the thread it interrupted; the service hangs without
  its clean-up. `cli_commands.cpp:26` says "Signal handler for graceful shutdown".

Others are modelled as the code has them, with no run of their own. Where a module states the
property that does not hold, a comment says so:

- `EveryPortIsOwn` (`ServiceLoop`): `cli.h:103` has "CLI args > env file > env var > default", but
  `get_option_value` (`tool/cli.cpp:185-206`) asks file and environment for one option after the
  other, so `FEDERATED_PORT` of the environment comes before `FEDERATED_SMTP_PORT` of the file. It also takes the first option
  of the name over all services, so IMAP and HTTP get SMTP's variable and default, where
  `tests/e2e/test_imap.sh:46` expects `Port: 2143` with `FEDERATED_IMAP_PORT=2143`. `PortByPriority` says
  that nothing else departs from the documented priority.
- `SuccessMeansServed` (`ServiceLoop`): `-h` is the short name of the option `host`
  (`tool/cli_commands.cpp:324`), but `cli_main` looks for it first and prints the help with exit code 0
  (`tool/cli.cpp:445`).
- `ClosedFileUnused` (`ServiceLoop`): the handlers stay installed to the end, and one that runs when
  `log_cleanup` has closed the file and not yet forgotten it writes to it (`tool/log.cpp:41`).
- A log file that does not open costs the level as well: `log_init` returns before it marks the log as set
  up (`tool/log.cpp:30`), and the first message sets it up anew with the default. `LevelIsKept`
  names this as its exception. Nobody reads the option `log-level` that the services have, with its variable
  `FEDERATED_LOG_LEVEL` (`tool/cli_commands.cpp:347`): `main` knows `--log-level` with a separate argument only.
- `service stop` and `service status` look at the flag of their own, new process
  (`StopOrStatus`), so they never stop or see a service.
- `WrongKeyNoticed` (`EndToEnd`): one block of AES that decrypts to bad padding is taken for an empty
  text (`crypto/aes.cpp:385`). A ChaCha20 key of 45 to 47 bytes is accepted and the
  start of its counter ignored (`crypto/chacha20.cpp:67`, `84`), as the module has it.
- `HttpServer` has no port: `start` "binds to port and listens" (`service/http_server.h:49`) by opening the
  process-wide TCP transport on a port of the kernel's choice, and never reads the configured one. Whoever else
  holds that transport may close it under the server; `RunningIsOpen` says what is left, that
  the server itself never runs on a transport that it found or left closed.
- `LastByteFetched` (`TcpTransport`, under its `FairSpec`): `send` stops reading at the first pause
  of the stream and `recv` looks only at the queue, so the end of a message may stay in the socket
  until somebody sends again.
- `EndedStaysEnded` (`MailSystem`): commands after QUIT or LOGOUT are carried out.
- `UnterminatedIsDetected` (`StoreAndForward`): a chunked frame that is cut at a chunk boundary is
  accepted, though `framer/chunked.h:31` has a final chunk of size zero. `CutIsDetected` says what is left:
  what is accepted is whole chunks, from the first on.
- `WithinCapacity` (`Federation`): an `initialize` that finds peers listed appends with its own counter as
  the only limit and writes past the end of the array (`federation/federation.cpp:45`), and returns `OK`,
  where `README.md:676` says "all errors returned explicitly". `OverrunNeedsPeers` says that nothing else does.
- `IdsUnique` (`Federation`): `initialize` counts up to an id that a caller of `add_peer` chose
  (`federation/federation.cpp:49`; `tests/federation/test_federation.cpp:283` chooses 1 to 3), though `federation.h:42` calls the id a
  "Unique identifier". An update or a removal then reaches the first of the two only. `SharedIdWasChosen` says that nothing else does.
- An empty UDP datagram is transmitted and, when it arrives, taken out of the socket and
  reported as `ERR_TIMEOUT` (`transport/udp.cpp:266`); `ArrivedIsFetched` leaves it out.
- SELECT on a store that is down announces 100 messages, and FETCH then answers with one nobody sent
  (`service/imap.cpp:193`); mail to a name of 64 characters or more is never found under it
  (`service/mail.cpp:86`). `ExistsAgreesWithFetch` is stated for a store that is up and names that fit.
- The DNS tunnel admits messages by a limit larger than the name its encoder can build
  (`dns_tunnel.h:24`), so longer ones are refused after the limiter's wait; and a clock set back
  makes the limiter skip a wait. `Spaced` is stated for a clock nobody sets.

## What is not modelled

- Stubs, which change nothing: Bluetooth, infrared, Wi-Fi Direct, `peel_layer`, `send_to_peer`, the
  public-key module (its refusal is in `EndToEnd`).
- The registry (`core/registry.cpp`): five tables that only grow, searched for the first entry of a name.
  Nothing in the library uses it; an example and the tests do, one call after the other. The core types
  have no state.
- Formats. Parsing of command lines of SMTP and IMAP, of HTTP's request line and headers, of the
  environment file; the text of answers, help and log; media types; the encoding of DNS names, of which
  the length is kept. CRC32 as a number: a checksum stands for what it was computed over, so two payloads with
  one CRC32 are left out. Elsewhere where a property depends on a conversion its effect is modelled: names that
  are cut, keystreams that cancel (`OnionRouter`), ciphers to the bit (`EndToEnd`).
- Hazards without a property, in `PROJECT.json` with the reason. Two are modelled and simply so (above:
  ended sessions, the closed log file). The third is outside: a stored message
  keeps pointers into the caller's memory (`service/mail.cpp:84`). Three lesser ones are not listed:
  `recv` of the DNS tunnel blocks without a limit (`dns_tunnel.cpp:379`), which is what its step
  waits for; the chunk decoder adds an offset and a size in 32 bits (`framer/chunked.cpp:193`), where
  the models keep sizes below the point where that wraps; `handle_request` computes `request.size - 1`
  (`service/http_server.cpp:93`), for requests that are not empty.
- Limits of the models: the 32-bit circuit id before it wraps; the output buffer of `encode`
  large enough; `max_qps` of at least 1; a `usleep` of the DNS tunnel that no signal ends early; an HTTP
  answer that is used before the next request is made; contents of message bodies and headers;
  paths that fit the buffer they are put together in; the open flag and the two paths of the file transport,
  taken to be set. Callers of the onion router use no destroyed circuit, callers of
  the DNS tunnel configure before they open, as C++ and `dns_tunnel.h:75` demand of them. A write
  past the peer array makes the list longer than the array, and what else it breaks is not followed.
- The options of the command line are followed until the service has its port; the variables that hold
  them are then set to one value, since nothing reads them again.
