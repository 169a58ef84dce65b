# A formal model of utx0_node

`utx0_node` is a peer-to-peer node written in Rust on tokio's multi-threaded
runtime. It dials peers it knows, accepts connections, greets with `Hello`,
exchanges peer addresses (`GetPeers`, `Peers`) and keeps them in a file. An object
exchange on top of a `redb` database and the validation of transactions are in the
tree and partly connected. This directory models the node in TLA+, checks the
models with TLC and proves the central properties with TLAPS.

Line numbers below refer to `src/src/`.

## 1. The system

| component | state | operations |
|---|---|---|
| Outbound connections (`net/client.rs`, `net/housekeeping.rs`) | `outbound_connections`: peer to task handle, a `DashMap` | one loop that prunes, counts, picks, spawns, inserts and sleeps; one task per connection; a housekeeping loop that prunes the same map |
| Inbound connections (`net/listener.rs`, `state/connection.rs`) | `InboundCounter`, an atomic count kept by guards | accept, spawn of a handler task, end of a handler |
| Known peers (`state/peers.rs`, `import_peers` in `net/dispatch.rs`) | `peers_map` in memory, `peers.csv` on disk | load at start, append |
| Framing (`net/framing.rs`, `protocol/message.rs`) | none | `read_frame`, `write_frame` |
| Sessions (`protocol/handshake.rs`, `net/dispatch.rs`) | one TCP connection each | handshake with timeout, message loop |
| Object store (`storage/`) | a `redb` table | `has`, `get`, `put` |
| Transactions (`protocol/transaction.rs`) | none | `validate_transaction` (not called yet) |
| Canonical JSON (`util/canonical.rs`) | none | canonical text, hash, object identifier; the text that signatures sign |
| Peer addresses (`protocol/peerlist.rs`) | none | parsing and printing of `host:port` |
| The network: several nodes | what each node knows and whom it is connected to | dialing, asking, answering, importing; breaks and restarts |
| Configuration, logging, `main` | constants | start-up |

How they interact. `main` loads `peers.csv` into `peers_map`, appends a first peer,
spawns `outbound_loop` and `housekeeping_loop` and runs `start_listening`. Every
outbound task and every inbound handler runs a session. Sessions share
`peers_map`, `peers.csv` and the store with each other, and `peers_map` with
`outbound_loop`; outbound tasks, the loop and housekeeping share
`outbound_connections`. There are no messages between tasks and no locks apart
from the shards of the `DashMap`s.

What is hard about it:

- three kinds of task read and write `outbound_connections`, whose `len`, `iter`
  and `retain` are not atomic, and decisions are taken on what was read earlier;
- a task can be finished before its own handle is in the map, and leaves the map
  in two ways (by itself, or through a `retain`);
- the counter has two guards per connection, held by different threads;
- several sessions append to one file without a lock, in two writes per line, and
  the process may die between them;
- nodes ask for peers once per connection and are told at most ten, so who learns of
  whom depends on the order of connections and answers, on what breaks meanwhile, and on
  what a restarted node has lost;
- both ends of a connection write before they read, writes have no timeout, and
  the message loop's read has none either.

## 2. Modules

| module | models |
|---|---|
| `ConnectionPool` | abstract: a set of connected peers, at most `Limit`, changed one at a time |
| `OutboundPool` | `outbound_loop`, its tasks, `housekeeping_loop` |
| `OutboundPoolProofs` | theorems about `OutboundPool`, its refinement of `ConnectionPool` included |
| `Listener`, `ListenerProofs` | `start_listening`, the handlers, `InboundCounter` |
| `PeerBook`, `PeerBookProofs` | `peers_map` and `peers.csv`: `load_from_disk`, `append_peer`, `import_peers`, restarts |
| `Framing` | `read_frame` and `write_frame` as operators on the shape of a line |
| `PeerExchange` | abstract: what a connection between two nodes promises about peers, with no frames, buffers or handshake |
| `Session`, `SessionProofs` | one connection: both handshakes and both message loops, using `Framing`; its refinement of `PeerExchange` |
| `BlobStore` | abstract: a content-addressable store with an atomic put and get |
| `ObjectStore`, `ObjectStoreProofs` | the `redb` table and the object arms of the message loop; its refinement of `BlobStore` |
| `Transaction` | `validate_transaction` as an operator |
| `Ledger`, `LedgerProofs` | the composition of `ObjectStore` and `Transaction`: what is valid against every database that can arise |
| `Canonical` | `to_canonical_json`, `compute_object_id`, `ensure_object_field`, and `sig_obj` of `validate_transaction`; recursive, for TLC only |
| `PeerAddress` | `Peer::try_from`, its `Display`, and the line format of `peers.csv` |
| `Network`, `NetworkProofs` | several nodes: the composition of outbound side, sessions and peer books |
| `WireProofs` | theorems about `Framing` and `PeerAddress`, through `MCFraming` and `MCAddress` |
| `MC*` | instances for TLC. `MCFraming` and `MCAddress` hold the properties of operators, for sets of inputs that are constants; `MCObjects` is an instance of `Ledger`; `MCPayloads` joins the three with `Canonical` |

Definitions marked "Mutant of X" are variants of X with a plausible bug. They are
used by no specification; each property is broken by at least one of them.

### OutboundPool

`conn` is `outbound_connections`; a task is one value of `Task` with a `stage`
(dialing, serving, leaving, ending, finished) and the peer it was spawned for.
The phases of the loop are its statements: `Retain`, `Count` (`len`), `Pick`
(`iter` and `contains_key`), `Choose` (`choose_multiple`), `Spawn`, `Insert`,
`Wake`. `Retain`, `Count`, `Pick` and `HousekeepingRetain` visit one shard at a
time; a shard is a single key, the finest interleaving a `DashMap` allows, and
the order of shards is free. `Spawn` and `Insert` are two steps: between them the
task may run to its end. A failed handshake goes from dialing to ending without
touching the map (client.rs:54), a returned message loop removes its entry first
(client.rs:72). `Learn` is an import by any session. A task identity is reused
once the task is finished and no handle refers to it, so runs are unbounded.

### Listener

`count` wraps like a `usize`. `Accept` takes the loop's guard, `EndIteration` drops
it; `Start` takes the handler's guard, `DropGuard` drops it. `AcceptErr` is the
`?` on accept, which may fail at any time (no descriptor left, a connection aborted
while it waited): `start_listening` returns, `main` unwraps the error, and the runtime
cancels the tasks, which run their destructors.

### PeerBook

A writer is `main` or a session; `append_peer` is the steps `Check`, `InsertPeer`,
`WriteKey`, `WriteNewline`. `writeln!` on an unbuffered `File` is one write call for
the formatted key and one for the newline, and the file is opened with append. The
file is the set of keys that fill a line and the open last line (`tail`). `Reread`
is what `load_from_disk` makes of a line with one key: itself, unless the host
carries blanks or a comma. A line with two keys yields nothing. `Crash` ends the
process anywhere, `Start` loads again, with I/O errors only a part of the file, since
`lines().flatten()` skips what it cannot read; `LoadForever` is an error that repeats, which
it skips for ever. `setting` says which sessions there are and which
failures happen; it is chosen in the initial state. `spoilt` is a history variable: the
peers whose key was written into an open line, whose line was joined by another key, or
whose write failed, since the node started.

### Framing and Session

A frame is what `read_frame` looks at: bytes consumed, whether they are UTF-8,
whether the line is blank, type, set of keys, whether values have the right JSON
types. `read_frame` applies the tests in the order of the code and returns the type
or the error.

In `Session` an end is a program counter, a bounded channel per direction stands
for the socket buffers, and `Write` waits while it is full. `Close` with unread
input may destroy what was sent (a TCP reset). `read_line` takes at most the limit, so the
rest of an oversized frame is input too, and the end that refuses the frame leaves it
unread (`Unread`). `HelloTimeout` may fire at any time
while a `Hello` is awaited. `import_peers` yields the map after the whole list or
after the new peer at which the file failed. One end may be a stranger that sends
any of a set of frames, one for every outcome of `read_frame`, and reads and closes
as it likes. `known` is the part of `peers_map` this connection changes.

`PeerExchange` has four steps: an end asks, is answered with a pick of what the other
knows at that moment, imports the answer or the part of it before a failing write, or hangs
up. `Session` implements it for two nodes. The phase of a request is read off the buffers
and program counters: asked while the `GetPeers` is on its way or the other end is about to
answer, answered while the `Peers` is on its way. The handshake and the arrival of a request
are stutters; a timeout, a broken connection and a write that fails are hang-ups. A hang-up
takes the request of the other end along, and with a reset its answer.

### ObjectStore and Transaction

An object arrives as a JSON text and is stored as that text under the hash of its
canonical form; several texts of one object share an identifier (`ObjectId`, a
constant: hashing and canonical form are assumed to tell objects apart).
`ObjectArrives` ends with `store.has`, `Put` is `store.put`: between the two, other
sessions run. `Ends` is any failing database operation or the end of the connection
or the process; a read of a database without its table can only end that way, so a
fresh database stays empty for ever, as it does in the program. The arms are modelled
as written, for messages that reach them; `read_frame` lets none through yet.

`BlobStore` is the trait of `storage/api.rs` without a table that may be absent, without
messages, and with no step between asking and storing. `ObjectStore` implements it, with
the last text a session was sent as what its reader was given.

`validate_transaction` keeps the order of the checks and of the two passes over the
inputs. A signature is the key that made it. `Ledger` takes every reachable database as
the store it reads; `Candidates` are the transactions it is asked about, a constant, as is
what each text is parsed to.

### Canonical and PeerAddress

A document is an atom, an array, or an object with its members in the order of the
text, in which a key may occur twice. Its canonical form is a sequence of tokens.
`IdNamesMeaning` compares it with `Meaning`, in which objects are functions: this is
what `ObjectStore` and `Ledger` take for granted of `ObjectId` and `Parsed`.
`sig_obj` blanks the `sig` of every input, and only there.

An address is a sequence of words and separators. `try_from` and `load_from_disk` split
and trim it as the code does. `PlainHostsReadBack` is what `PeerBook` takes for granted
of `Reread`.

### Network

A node stands for the address it advertises. `Dial` is a spawned task whose handshake
succeeds: an entry in `out` and two requests, one of each end (`handshake.rs:54, 94`).
`Answer` is the arm of `GetPeers`, `Import` that of `Peers`. The two ends of a connection
leave one after the other: `Break` is the failure of one end, by which a dialer removes its
entry; `open` has the connections of which both ends run. The end that is left is not
answered any more, but still imports an answer that was on its way, unless a reset destroys
it (`Gone`); a dialer then sees the end of the stream and removes its entry (`Notice`), and
an acceptor has no entry to remove. `Restart` is the end of a process, with all its ends, and
a new start, after which the node knows its seed and any part of what it knew. A peer may be
dialed again while it still reads from the last connection; what reaches it on both is
imported together. Each of these is a single step here; that the steps of one node may be taken together is what the modules of its parts
show: `ConnectionsWithinLimit`, `OneTaskPerPeer` and `FreeSlotIsUsed` for `Dial`,
`ImplementsExchange` and `AnswersGetOut` for `Answer` and `Import`, `KnownForever`,
`OnlyOpenLineLost` and `LossHasCause` for `Restart`, `CloseIsNoticed` for `Notice`. The configuration `net` (who is public, seeds, bans, the
length of answers, the number of faults) is chosen in the initial state.

## 3. Runs

| run | instance | shows |
|---|---|---|
| `outbound_safety` | 3 peers, 4 tasks, limit 2, symmetric | `ConnectionsWithinLimit`, `OneTaskPerPeer`, `OpenIsTracked`, `InsertFindsNoEntry`, the inductive `PoolInv` with the type invariant, and that the whole implements `ConnectionPool` |
| `outbound_live` | 2 peers, 3 tasks, limit 1, fair | `FreeSlotIsUsed`: a free slot and an unconnected known peer lead to a spawn; `FinishedIsPruned`: no handle of a finished task stays |
| `listener` | 3 connections, 2 sockets, fair | `ListenerInv`: the counter is the number of guards; `CounterDrains`: it returns to 0; `BacklogIsServed`: as long as accept does not fail, every connection gets a handler |
| `listener_accept_violation` | 2 connections, fair | accept fails, and a connection is never accepted (section 6) |
| `listener_counter_violation` | 2 connections | the counter is 2 for one served connection while the loop holds its own guard (section 6) |
| `peerbook` | 4 peers (one padded, one banned); one session without failures, two without, two with I/O errors and torn writes | `OnlyOpenLineLost`: whatever happens, only the open last line can be lost; `LossHasCause`: a known peer is missing in the file only if its line was garbled or not written; `BookInv`, with which nothing is lost in the first setting; `KnownForever`: in that setting, a peer known at rest is known in every later life |
| `peerbook_parallel_violation` | 3 peers, 2 sessions, no failures | two sessions lose peers (section 6) |
| `payloads` | 2 sessions, 3 objects (a coinbase with two texts, a spend, another object), a text without object; 792 candidate transactions. In states of their own: every combination of type, keys and size around the limit; 760 documents and 204 transactions; 3206 texts of addresses | `StoreInv`: identifiers and answers match their texts; `AcceptsOnlyOwned`: `validate_transaction` accepts only well-formed transactions that spend outputs of their signers, and if they name no output twice, exactly those of them that create no more than these outputs hold, each counted once; `ValidStaysValid`: a valid transaction stays valid under racing puts; `ImplementsBlobStore`: the whole implements `BlobStore`, which forgets no object. `AcceptsExactly`: the key table and serde together accept exactly the well-formed frames; `DiscoveryRoundTrips`; `IdNamesMeaning`: same identifier if and only if same meaning; `SignatureCoversRest`: same signed text if and only if equal up to the signatures; `AcceptedIsDurable`, `PlainHostsReadBack`: addresses survive being shown and being stored |
| `framing_object_violation` | the frames of `payloads` | object messages are refused (section 6) |
| `objects_conservation_violation` | the objects of `payloads` | one outpoint counted twice (section 6) |
| `session` | buffers of 2 frames, replies of 1 peer, a pair of nodes or a node and a stranger with 5 frames, fair | `NextFrameIsExpected`, `NoMutualWait`, `PeersExchanged`, `CloseIsNoticed`, `HandshakeSettles`, `ServesOnlyGreeted`, `AnswersGetOut`: while the remote reads now and then, requests are answered and bad frames get their `Error`; `ImplementsExchange`: two nodes implement `PeerExchange`; the inductive `SessionInv` with the type invariant and with `RequestUnderWay`: until a node knows a public other, its one request, the handling or the answer is under way |
| `network` | 3 nodes in five networks, fair: a star and a chain, both without and with a fault and, then, a private node, and a chain with cut answers | `ExchangeInforms`: while both ends run, whoever was answered by a public node knows it; `PrivateStaysUnknown`; `DiscoveryCompletes`: the public nodes end up knowing each other; type invariant |

Why the bounds are enough. In `outbound_safety` three peers and a limit of two give
a peer that cannot be dialed, a reused slot, and two entries with a third shard
between them; four task identities allow a leaving task next to its successor, a
fresh one and another open one. The proofs carry the result to every size. The
liveness run needs a limit that is reached and a peer left over, which two peers
and a limit of one give. In `listener` the third connection meets an exhausted
descriptor table. In `PeerBook` two sessions suffice for a merged line, and a third
key for a loss that does not concern the two. In `payloads` two sessions and two texts
of one object give the replacement of one by the other; candidates have up to two
inputs, with every combination of parent, index and signer next to a good one. The sizes of frames
are the limit and one below: the code compares and nothing else. In
`session`, 2 frames per direction is the least with which `HandshakeSettles` can hold
against a remote that never reads (a node writes two frames in its handshake);
`NoMutualWait` is checked at that size and proved for every size. Five frames let a stranger greet and then fill the
buffer twice over.

What is parsed in `payloads` is evaluated next to a database without a table, since nothing
relates the two but `IdNamesMeaning`, on which `Ledger` relies. The documents nest objects and arrays two deep, with up to two members or
elements each, which gives every pair of orders, a repeated key, and empty arrays and
objects inside both; transactions have up to two inputs, with and without `sig`, and a
`sig` outside of the inputs. Texts of addresses have up to four tokens: host, colon and
port with one more anywhere.

In `network` three nodes are the least with one that has to be told of another by a
third. The star into B is the case in which the order of answers matters (B knows
nobody at first); the fault is an end of a connection that fails, or a restart, at any
time. In the last network answers hold one peer besides their sender, so that they are cut;
`DiscoveryCompletes` claims nothing there, since a cut at random may leave out the same
peer each time, and `ExchangeInforms` is what remains. The fault is in the chain whose B is
private, where A and C are told of each other by B alone, and in the star whose C is; the star
of three public nodes with a fault has a million states, and takes too long with a liveness
property. Four nodes are out of TLC's reach
here; the invariants are proved for any number.

Deadlock checking is on in the pool and peer book runs. It is off where the program may
stop: a failed accept ends the node, two sessions at rest wait for each other, nodes that
know each other have nothing left to do, and a frame is read once.

### Fairness

The runtime polls a ready task, and none of these tasks blocks its thread for ever;
`sleep` elapses. That is weak fairness of the two loops, of the accept loop, and of
the last statements of a task. It is not assumed that a remote end does anything: in
`OutboundPool` no handshake or message loop need ever return; in `Listener` accept answers,
with a socket or an error, once a connection waits (without one it need not), a handshake
returns, since its read has a timeout (handshake.rs:31) and its two frames fit into
the socket's buffers, and a message loop returns only after its remote end closed or
the runtime was dropped. In `Session` the steps of a node are fair as a whole, which
includes the timeout while it waits for a `Hello`; a stranger is not fair. In `Network`
the discovery of all nodes is fair as a whole (`WF_vars(Discover)`): somebody moves while
anything can be dialed, answered, imported or noticed. That is less than fairness of each node,
which the runtime gives.

## 4. Proofs

All theorems hold for every value of the constants that satisfies the named
assumptions (`PoolAssumption`: finitely many peers, a natural limit;
`ListenerAssumption`: finitely many connections, fewer than `usize::MAX`;
`BookAssumption`, `StoreAssumption`: markers are not peers, identifiers or texts;
`NetworkAssumption`: finitely many nodes, configurations of the right type;
`FramingAssumption`, `SizesAssumption`: a positive limit, sizes are numbers;
`AddressesAssumption`: texts are sequences of tokens;
`SessionAssumption`: constants of the right type, room for one frame per direction, finite
peer maps, and a limit above 1, since a message of a node counts as 1 byte long;
`LedgerAssumption`: constants of the right type, and texts with one identifier parse to
the same, which is what `IdNamesMeaning` checks).

**OutboundPool.** `ConnectionsWithinLimit` is not inductive: it says nothing about
`active`, a sum over shards read at different times. `PoolInv` adds

- `OwnEntry`: a task that may still remove its peer's entry owns that entry, so
  the unconditional `remove` never hits another task's handle;
- `HandleUnderItsPeer` and `InsertFindsNoEntry`;
- `ChosenUntracked`: only the loop adds entries, so a candidate that had none when
  it was filtered has none when it is inserted;
- `SlotAccounting`: while counting, the entries in visited shards are at most
  `active`, since entries only disappear meanwhile; afterwards the entries are at
  most `active`, and entries plus candidates at most the limit.

`PoolInvariant` proves it inductive, one lemma per action and part; `TypeCorrect`,
`LimitHolds`, `OneTaskHolds`, `TrackingHolds` and `NoHandleReplaced` follow. `PoolImplemented` shows the
refinement: `Spawn` maps to `Dial`, a returning handshake or message loop to
`Hangup`, all else to a stutter.

**Listener.** `CounterIsGuards` proves that the counter equals the number of handlers
with a guard plus the loop's own; with `ListenerAssumption` no step wraps.

**PeerBook.** `CompleteLinesAreSafe` proves the action property `OnlyOpenLineLost` for
any number of sessions and any failure, from type correctness alone.
`BookInvariant` proves `BookInv`. Its core is `MapIsCovered`: a peer of the map that the
file lacks is spoilt or the one some writer is about to write. At rest this is
`LossHasCause` (`EveryLossHasCause`, for any number of sessions and any failures). In the
calm setting (one session, no failures) the open line is that of the only busy writer, so
nothing is ever spoilt, and `CalmIsDurable` follows: every known peer is read back.
`KnowledgeSurvives` carries this across lives: a complete line stays (`FileStep`), and every
start reads it again (`KnownStep`), so what a calm node knew at rest it knows whenever it is
up.
`FileEndsWithNewline`: without torn writes an open line has a writer about to end it.

**ObjectStore.** `StoreInvariant` proves `StoreInv`; the strengthening is
`PendingMatches`: what a session is about to put belongs to its identifier, whoever
has written there since it asked, and its table is there. `ObjectsStay` proves that no
step removes an object.
`StoreImplemented` shows the refinement of `BlobStore` from `StoreInv`: `Put` maps to the
abstract put of a text, because of `PendingMatches` under its own identifier; `GetObject`
maps to a get; other frames, and new connections, to a reader that turns away.

**Ledger.** `ValidationIsExact`: for any transactions and every database that can arise,
what `validate_transaction` accepts is well-formed and spends outputs that exist with the
signatures of their owners; of such transactions it accepts exactly those whose sums, as the
code takes them, balance. A pass over
the inputs succeeds if and only if it succeeds for each (`PassSucceeds`, from the existence
of a first failing input), and the second pass may index what the first has found.
That the code's sum is the value of the outputs spent when no output is named twice is the
rest of `AcceptsOnlyOwned`, which compares it with a sum over the set of outpoints; it is
only model-checked, and without the premise it fails (`ConservesValue`).
`ValidityIsStable`: a parent that was there stays, parsed to the same transaction whichever
text two sessions leave (`ParentsStay`, from `StoreInv`, `ObjectsStay` and `TableStays`), so
every check and both sums come out as before. Nothing is proved about addition.

**Session.** `ServesOnlyGreeted` is nearly inductive; `NextFrameIsExpected` and
`NoMutualWait` are far from it, since they say nothing about frames behind the first or
about what an end may still send. `SessionInv` adds, for two nodes,

- which types of message can be on their way to an end, given where the other end is:
  before its `Hello` nothing, before its `GetPeers` at most the `Hello`;
- that a `Hello` is the first frame and each of `Hello`, `GetPeers` and `Peers` is on its
  way at most once;
- that an answer is on its way or being written only when the request has been consumed,
  so that of a request and its answer there is only one;
- what is known of the answer: that the address of a public sender stands in it, and in
  front.

`SessionInvariant` proves it, one lemma per action. `NoDeadlockOfWriters`: if both ends
wait, both channels are full, so both hold a frame; in each pair of places the frames of
one direction exclude the place of its writer. This needs no particular size: it holds for
every `Cap` of at least one frame. `NodesUnderstandEachOther`, `OnlyGreetedAreServed`,
`RequestsAreNotLost` and `SessionTyped` follow as well. `RequestUnderWay` is the safety half
of `PeersExchanged`.

`ExchangeImplemented` shows the refinement of `PeerExchange` from `SessionInv`, one lemma per
action (`CloseHangsUp`, `SendGetPeersAsks`, `ReplyAnswers`, `MessageIsImported`). It needs
that each type of message is on its way at most once: only then is the answer on its way to
an end all there is (`AnswerIs`), and a request never returns to an earlier phase. That an
answer lists what the abstract pick contains comes down to a list without repetitions being
as long as its set (`OrderLists`, `AnswerIsPicked`). `NothingIsInvented` then needs the
abstract steps only: a node learns what the other knew at the beginning or advertises, and
nothing that is banned.

**Frames and addresses.** `ReadFrameIsExact` and `WrittenIsReadBack`: the key table and
serde together accept exactly the well-formed messages, for every limit and size.
`HostsReadBack` proves `PlainHostsReadBack` for hosts of any length, from what `trim`,
the first comma and the lines of a text are: whatever a file holds, `load_from_disk`
yields trimmed hosts without comma or newline (`LoadedIsPlain`), and the line of such a
host is read back (`PlainLineIsRead`). `AddressesAreDurable` adds that `Peer::try_from`
accepts what it shows.

**Network.** For any number of nodes, any configuration and any number of faults:
`ExchangeAlwaysInforms` and `PrivateNodesStayUnknown`, from type correctness
(`NetworkTyped`). The first speaks of connections with both ends: an end that goes takes its
requests and the answers to it along, and on a connection that keeps both ends nothing is
lost (`GoneTakes`), so an answer is imported by its asker, which forgets nothing while it
runs. Answers that reach an end whose other end is gone add to what it knows, and
`PrivateNodesStayUnknown` covers them.

Only model-checked: all liveness properties (fairness is out of reach of the prover used
here), and `IdNamesMeaning` and `SignatureCoversRest`: the operators of `Canonical` recurse
over documents, and induction over data is out of its reach too. So is arithmetic over sums
of unbounded length: the second half of `AcceptsOnlyOwned` is about such sums. The violations of
section 6 are TLC's.

## 5. Hazards

`PROJECT.json` lists the hazards of the code with the line where each bites and the
properties that would catch it.

## 6. Where the code and its own documentation disagree

1. **Counter counts twice.** `start_listening` takes a guard (listener.rs:24) and so
   does the handler (listener.rs:32). The test
   `inbound_counter_counts_active_connections` expects 1 ("inbound connexion should be
   1", net/tests.rs:582); on several threads the handler may be through its handshake
   while the loop still holds its guard, and the counter is 2.
2. **Accepting for ever.** `start_listening` "accepts connections forever" (listener.rs:10),
   but `accept().await?` (listener.rs:23) leaves the loop with any error, a connection aborted
   while it waited among them, and the node ends.
3. **Parallel appends.** Two sessions may write `a,1b,2` and two newlines, and neither
   peer is read back, against "reload from disk and assert A, B, C are present"
   (net/tests.rs:142).
4. **Object messages.** The key table of `read_frame` has no row for `GetObject`,
   `GotObject` and `Object`, so `object_id` is an extra key and the frame is refused,
   while the comment on that row speaks of unknown types only (framing.rs:31).
5. **Conservation.** `validate_transaction` adds an output once per input that names it
   (transaction.rs:100), so a transaction that names one outpoint twice may create twice
   its value, against "conservation law" (transaction.rs:80). Nothing calls the function
   yet.

Some behaviours that no line of the repository contradicts are worth knowing: nodes that are connected in one direction
connect in the other as well, and discovery needs it (a node that left out the peers it
is already connected to would stay uninformed: the mutant of `DiscoveryCompletes`); after a
crash between key and newline the next append joins the open line, and the peer of that
line, loaded and known, is gone at the next start (check `KnownIsDurable` with one session
and `TornWrites` to see it); and on a fresh database every object message ends its
session, since `has` fails without a table and nothing puts before it asks (lemma
`TableStays`). An error that repeats while `peers.csv` is read keeps a node from starting.

## 7. Not modelled

- *Cryptography*: keys, hashes and signatures are opaque.
- *Configuration and logging*: the fields of `Config` are constants of the modules; the
  rest constructs values.
- *Reachability*: a node advertises `0.0.0.0` (config.rs:29), which another machine takes
  for itself. `Network` takes a node to be reachable at the address it advertises, as the
  tests do on one machine, and has no addresses that nobody listens on.
- *Discovery with more than ten addresses*: answers are cut at random, so what every node
  learns is a matter of probability.
- *Partial writes and power loss*: one write call appends all or nothing; the code
  does not sync, and what a crashed operating system loses is left out.
- *Pieces of lines*: a read of `peers.csv` that fails within a line, which takes a file of
  more than one buffer, drops the front of that line, and the rest may be read as another
  peer; the model drops whole lines.
- *Merged lines that parse*: with an empty or a numeric host a line with two keys may
  read back as some other peer; the model takes such lines as unreadable.
- *A remote that vanishes without closing*: TCP sends nothing, and no read in the
  message loop has a timeout; such a session never ends. `CloseIsNoticed` speaks of a
  remote that is closed.
- *Replies above the frame limit*: eleven peers reach 512 KiB only with hosts of tens of
  kilobytes; messages of a node are taken to be below it.
- *Imports by other sessions* while a session runs: `PeerBook` and `OutboundPool` have
  them, `Session` looks at one connection.
- Logging, and the values of messages that no code looks at.

## 8. Plan

Done: the outbound side with its abstract pool, the inbound side, the peer book, framing,
one session, the object store with its abstract store, the validation of transactions,
canonical form and signed text, peer addresses, and a network of nodes with breaks and
restarts; and theorems for every safety property of these but the two about `Canonical`, with three
refinements (`ConnectionPool`, `BlobStore`, `PeerExchange`).

Left:

1. What a stranger can bring about in a session: that all it changes at a node is what an
   answer to a greeted peer may change.
2. `Network` over `PeerExchange`: its `Answer`, `Import` and `Gone` have the form of those of
   the abstract exchange; what is left is the mapping of each connection to an instance of it.
