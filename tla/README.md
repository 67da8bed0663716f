# simple_blockchain: a verification project

TLA+ models of `nodeos` (a one-node block chain over SQLite with an HTTP API), of
its batch scripts and of the tool `keosd`, the TLC runs that check them and TLAPS
proofs of nearly all their safety properties. `PROJECT.json`
lists components, runs, mutants, findings, hazards and theorems, and maps each
definition to the source lines it stands for. Paths below are relative to `src/`.

## 1. The system and its parts

| Part | State | Operations | Hard about it |
|---|---|---|---|
| chain library (`libraries/chain`) | `Buffer`: `trx_pool`, `last_block` | `Transaction::validate`, `Block::digest/valid/check_block/push_trxs`, `build_block`, `cache_last_blk` | pool cleared before the block is stored; number and link come from a cache |
| `sqlite_plugin` | table `BLOCK(ID primary key, HASH, JSON)` in `blocks.db` | INSERT, SELECT by ID, all in ID order, count | every SQL error is logged and swallowed; a failed count answers 0, a failed select answers nothing |
| `chain_plugin` | owns the `Buffer` | startup; `push_transaction`, `publish_blk`; `get_info`, `get_block(s)`, `check_chain`, `sign_trx`, `hex2char`, `char2hex` | crash between build, append and cache; unchecked optional at startup; a fixed buffer read as a C string |
| `chain_api_plugin`, `http_plugin` | options, `valid_hosts`, `max_body_size`, `url_handlers`, connections, the io_service queue | option handling, three servers, posted registration, Host check, dispatch, CALL, CALL_ASYNC | an early return half-way through the options; registration after listening; deferred responses and exceptions |
| `local_endpoint.hpp` of http_plugin | a socket path shared by processes, a backlog | test, unlink, bind, listen, accept, destroy | test and bind are separate steps; sockets left by a crash |
| `appbase` | plugin states, `initialized_plugins`, `running_plugins`, `_is_quiting`, `io_serv` | initialize, startup, exec, shutdown, quit | nested calls over requirements; exception half-way; `quit()` in two steps on a second thread |
| `appbase` channels | subscriptions, posted messages | subscribe, unsubscribe, publish, deliver | callbacks that change what is being delivered; handles overwritten by a move |
| `schedule_plugin` and scripts | crontab, `/tmp/blocks.db`, backup database | check, backup, fetch, push, publish | runs overlap (the README says daily, the crontab fires every minute of an hour); lost replies taken for success; `cp` of a live database, onto a file that other runs read and write, its failure unnoticed |
| `tool_plugin` (`keosd`) | the operation asked for | keys, hex, sign, check the chain | order of signing; an operation left uninitialised; database not opened |
| fc: hex, `raw`, byte vectors in JSON | none | encode, decode, pack | odd lengths, buffer ends, ambiguity of what is hashed |

Interaction: `nodeos` initializes http, chain, chain_api, sqlite and schedule
through appbase; chain requires sqlite, chain_api requires chain and http.
All handlers run on the io_service that `application::exec` drives on the main
thread, so a handler is never interleaved with another one. What interleaves is
the signal thread with main, clients with the queue, and the death of the
process with everything. Only the table survives a process.

What makes each part correct:

* the table is one chain, the node continues exactly after what is stored, rows
  never change, a transaction is stored at most once and in order;
* `check_chain` tells an intact chain from any other, and what it covers is known;
* every request is answered once, and no registered call is reported missing; the
  options decide who is let in, and nothing else does;
* a unix socket that serves is not taken away, and one that does not is replaced;
* plugins are initialized, started and shut down once, in order of requirement,
  also after an exception or a signal, and a signal ends the program; a subscriber
  hears every message once, in order, while its plugin is alive;
* a whole backup is an earlier state of the table, a run that is left alone makes one with
  no row less than the last, and a batch that succeeds has stored its measurement;
* what is hashed determines the transaction, text survives its conversions, and the
  tool and the node agree on signatures and chains.

## 2. Modules

| Module | Models | State and actions |
|---|---|---|
| `Blocks` | chain library values | operators: `TrxDigest`, `TrxValidate`, `SignTrx`, `BlockDigest`, `BlockValid`, `CheckBlock`, `BuildBlock` |
| `BlockStore` (extends Blocks) | sqlite_plugin statements | operators on a table: a function from IDs to rows |
| `ReadApi` (extends BlockStore) | `chain_apis::read_only` | one operator per handler, from state to reply; `check_chain` in closed form |
| `ChainNode` (extends ReadApi) | a node process over its database | see below |
| `Ledger` | what a node promises, abstractly, with a store that may fail | pages, waiting, up, trusted; Start, Accept, Seal, SealAstray, Lose, Doubt, Stop |
| `ChainAudit` (extends ReadApi) | a database altered outside the node, then checked | Publish, Alter, Check |
| `HttpServer` | http_plugin, chain_api_plugin, the io_service queue | options, start of the servers, registration, requests, every path through `handle_http_request`, quit |
| `LocalEndpoint` | the unix-socket server, several processes on one path | test, unlink, bind, listen, accept, quit, destroy, crash; clients |
| `AppBase` | application and plugin life cycle, signal thread | one action per loop step, nested call, body, exception, signal, and stop of the io_service |
| `AppBus` (extends AppBase) | a channel used by the plugins of a living application | subscribe, unsubscribe, publish, delivery slot by slot, the life cycle of AppBase |
| `Codec` | hex.cpp, byte vectors in variant.cpp, raw.hpp; `hex2char`, `char2hex` | operators |
| `Tool` (extends ReadApi, Codec) | keosd, from the command line to what it prints | Initialize, one action per operation and exception, one per round of its `check_chain` loop |
| `Batch` (extends ChainNode) | schedule_plugin and its scripts, composed with the node they call | see below |
| `ReadApiProofs` | | lemmas on blocks, INSERT and the order of rows, shared by four of the following |
| `ChainNodeProofs`, `ChainAuditProofs`, `HttpServerProofs`, `LocalEndpointProofs`, `AppBusProofs` (for AppBase too), `BatchProofs` (extends ChainNodeProofs), `ToolProofs` | | the theorems about the module named |
| `MC*` | constants for TLC | `LocalEndpoint` needs only model values and has a .cfg alone |

Definitions named `X_Something` next to `X` are variants of `X` with a plausible
bug; the mutants of `PROJECT.json` put one in place of `X`, and the property named
there must then fail.

**Values.** Cryptography is symbolic: SHA-256 is a free constructor, a signature is
the pair of key and digest, recovery from another digest yields another key. A
key pair is one value. JSON is a constructor undone by reading. A byte vector is
printed as hex, so no content can break the SQL text. `blk_num` is `uint64_t` and
grows by one per block; its overflow is out of reach and it is bounded by `MaxBlocks`.

**ChainNode.** `table` is on disk; `trx_pool` and `last_block` are `Buffer`;
`last_blk` is the local of `publish_blk`; `pc` says where the process is (`down`,
`idle`, `append`, `cache`, `aborted`). `publish_blk` is three steps, because the
process may die between them: `PublishBuild` (build, clear the pool), one of
`AppendStored` / `AppendKeyTaken` / `AppendFails` / `AppendThrows`, and
`PublishDone` (cache, reply). Startup is `StartupEmpty`, `StartupLoad`, or what
a failed query or a missing row leads to. Dereferencing the empty optional at
`chain_plugin.cpp:69` is a choice between dying, a blank block and a block whose
signature makes key recovery throw. A failed statement without an error message
(out of memory, no database handle) throws while the log line is built:
`AppendThrows`, `StartupThrows`. `sqlErrors` counts statements that failed for a
reason outside the node; a primary key that is taken is not counted, it follows
from the state. `accepted` is a history of acknowledgements.

The refinement to `Ledger` holds for a store that fails as well: `trusted` is
`sqlErrors = 0`. While it is true, a seal takes the next number and loses nothing; once
a statement has failed, a seal may lose what waits or take any free number (the second
chain that a failed count starts), but never rewrites a page. `Doubt` is a read that fails
while the node is up, which `Batch` has and `ChainNode` alone has not.

**HttpServer.** `plugin_initialize` is one action: which servers are configured, which
hosts are valid, and the limit, with the early return for an https address without its
files. `new http_plugin_impl()` value-initialises, so a limit that is never set is 0.
Hosts are records of name and port; a port may be written as a service name. The three
servers start in the order of `plugin_startup`, and any may throw. The queue is the
io_service's. `add_handler` posts a task; a request is queued by the reactor once
`exec` runs. websocketpp is external and modelled by its use: a body over the limit is
answered 413; after `defer_http_response` only `send_http_response` writes; otherwise
the response is written when the handler returns.

**LocalEndpoint.** All that processes share is the path. `connect`, `bind`, `unlink`
and `listen` are one action each, as the kernel makes them; a process dies anywhere,
and its socket then is a file nobody listens on. `begun` and `alone` are histories that
the properties need: which services a process could have seen when it started, and
whether it ever shared its time. `plugin_shutdown` never looks at this server, so the
socket is removed by the destructor.

**AppBase.** `calls` is the stack of nested `initialize` or `startup` calls. An
exception may leave any body. Handlers do not throw out of `run()`:
`handle_http_request` catches everything. `quit()` is two actions: `Signal` sets
`_is_quiting` (an atomic), `QuitStops` stops the io_service; main may act in between.
`work` says whether a server keeps `run()` waiting.

**AppBus.** A slot is a `boost::signals2` connection; a message is its number. A
delivery is one step per slot, so that callbacks may subscribe, unsubscribe and publish
in between, from the code of the plugin that runs. `boost::signals2` calls the slots
that were connected when it began (`round.todo`), lowest first, except those disconnected
meanwhile. No plugin of
nodeos uses a channel; the module says what one that does may rely on.

**Codec and Tool.** A byte is a number and a hex text a sequence of digits; what may
throw returns an optional. The buffer of 1024 bytes and the 7 bits of a packed length
are constants. A key, a time or a signature has a fixed packed length and is one item.
The size assertions of raw.hpp (`MAX_SIZE_OF_BYTE_ARRAYS`, 20 MiB) are beyond any body that
the HTTP server takes and are left out; `ToolAssumption` says that no command line exceeds
them, in the form that matters: the packed length has at most `MaxVarint` digits. In `Tool` a command line is chosen at the start;
`type`, which is not initialised, is then any number. `check_chain` of keosd is its loop,
a round a step, with `checkBlk` as state; `check_chain` of the node is in closed form, and
`ToolJudgesAsNode` compares the two.

**Batch.** The variables of `ChainNode` and, besides, `crontab`, `copy`
(`/tmp/blocks.db`, one file for all runs), the backup (`exists`, `backup`), and for each run
its step, what its next call carries, and its shell variables. Each command of the scripts
that reads or writes shared state is an action; a call to the node is a step of the node
(`PushAccept`, `PublishBuild`, ...) joined with a step of the run. A call waits while the
node is inside a handler; `curl -s` prints nothing when the node is stopped or dies before
it answers, and the scripts find no error in that (`PushLost`, `PublishLost`,
`Interrupt`). `FC_ASSERT` of a string literal holds, so a crontab that cannot be
installed or removed goes unnoticed. The fetch from the network is commented out in
`pushblock_fromIoT.sh`; what the file then holds is a choice (in `AfterCp`, the step before
it). `sh` is taken to know `[[`: where it does not, every test of the script is false and no
error is seen at all. `Edit` is an alteration of stored transactions outside the node, which
`check_chain` does not notice.

*The files.* A `cp` (lines 13, 18 and 32 of `database_backup.sh`) is two steps, `CpBegins`
and `CpEnds`: it empties its target, and some time later it has written it. What a file holds
is a set: `{t}` for the whole database `t`, `{}` for a file that is missing, empty, cut short
or mixed from pages of several databases. `may` is what the target may hold once the `cp` a
run is in ends: its source as it was when it began, and besides, if another `cp` writes its
source or its target meanwhile (`Hits`), or the node or an edit writes `blocks.db` under it
(`HostWritten`), the new contents or a mixture. A target that another `cp` is still writing
is not whole. A `cp` may break off, leaving `{}`, or be refused and change nothing
(`CpRefused`); the script goes on as after success. Lines 20, 22 and 23 are one query and one
step each, so that other runs truncate or replace the backup and the copy between them. A
query of a file that is not whole may print anything or nothing: the comparison then goes
either way (`Compare`). Three histories serve the properties: `kept` is the last whole backup;
`whole` says that every file the run queried was whole; `clean` says that since line 18 no
`cp` of another run began, was under way beside one of its own, or ended, that its own `cp`s
worked, and that `blocks.db` was not written under them.

## 3. Runs

| Run | Bounds | Shows |
|---|---|---|
| `node_faults` | 4 block numbers, 2 acknowledged transactions, 2 SQL failures, one clock value | `TypeOK`; `ChainLinked`, `CacheMatchesStore`, `StartupDefined`, `NumbersServed` while no statement failed; `RowsSound`, `CheckChainExact`, `AppendOnly`, `AtMostOnce`, `ImplementsLedger` whatever failed |
| `node_complete` | as `node_faults`, 1 failure | violation: "operation complete" without a stored block |
| `audit_detect` | 3 blocks, 3 pools, 2 clock values, one alteration | `DetectionExact`: exactly which alterations `check_chain` sees; `ReportIsNear` |
| `audit_trxs` | as above | violation: changed transactions are not seen |
| `http_serve` | 2 connections (reused without limit), one call of each API, one unknown URL, all kinds of request, the sets of options of `MCOptions` | `RegisteredIsFound`, `UnansweredExactly`, `ParsedAnswered`; `OwnAddressServed`, `StrangerRefused`: whom the Host check lets in; `LimitApplied` |
| `http_hang` | as above, one set of options | violation: a read_write call with arguments that do not parse is never answered |
| `endpoint` | 3 processes, 1 client, backlog of 2 | `AloneServes`, `NoLitter`: a stale socket is replaced and an orderly stop leaves none; `EarlierServiceKept`; `QueuedEnds` |
| `app_nodeos` | the plugins of `CyclePlugins`, one signal, 2 plugins that use the channel, 2 subscriptions, 2 messages | `OnceInOrder`, `RequiredFirst`, `ShutdownReversed`, `QuitEnds`; `HeardInOrder`, `NoneMissed`, `CalledWhileAlive`, `OnlyOverwrittenLeft`, `PostedIsDelivered` |
| `app_graceful` | the five plugins of nodeos, three signals | violation: `quit()` after `io_serv.reset()` |
| `batch` | 2 runs, 2 block numbers, 2 acknowledged, at most one failure (SQL statement or `cp`) or alteration; see `Bounded` below | `CalmRunStores`: a run during which the node never stopped has stored its measurement; `BackupIsPast`; `BackupOnlyGrows`: a run that was left alone leaves a whole backup without a row less; `LastRowKeptByOwner`: the ways in which an altered last block gets past the comparison |
| `batch_race` | 2 runs, no SQL failure, no failing `cp`, 1 alteration; `QuickCps` | violation of `LastRowKept`: the copy compared is not the copy kept, even if every `cp` runs undisturbed |
| `tool` | buffer of 2 bytes, length digits of base 2, texts up to 5 characters, strings up to 3 bytes, transactions up to 2 bytes each, databases of up to three blocks (intact, unsigned, foreign or missing), all sets of options | `HexRoundTrip`, `TextKept`, `PackInjective`, `SignedPasses`; `ToolJudgesAsNode`: the loop of the source passes and blames what the closed form of `check_chain` does |

Why the bounds are enough to be interesting. With four numbers and two failures a
node can lose an append, restart from a wrong count, build a number that is
already stored, and go on after it; three blocks give a row with two neighbours to
alter; two connections can have one registered call, one hanging request and one
request behind it. Without the two plugins in a cycle no nested startup would ever
happen: what nodeos starts is in order of requirement. A failed run of the batch is
fired again in its place, so a slot stands for any number of failed runs; only
successful ones count. Three processes on one path are one that serves, one that has
tested the path and not yet acted on it, and one that comes after both. A buffer of 2
bytes and base 2 put its end, one before and one beyond, and lengths of one and two packed
bytes, within texts that can be enumerated; `PackAlwaysInjective` has the longer ones. All actions and all disjuncts
fire in the passing runs.

`Bounded` (about 870,000 states) cuts what two runs, a node and their files could do beside
each other to what the properties tell apart. At most one fault happens in a behaviour, of
any kind and at any place, and after it no more than two transactions are acknowledged or
stored together. At most one run goes on after the node stopped under it: nothing is claimed
of such a run but what it does to the files, which the other run meets. The crontab is absent
only while no run is active: it is nothing but the guard of `Fire`. The theorems of section 5
have none of these bounds. `QuickCps` (`batch_race`) does the opposite of what a
counterexample needs: no `cp` meets another `cp`, an INSERT or a query, and one run only finds
no backup. The violation is found all the same, so it does not depend on the inside of a `cp`.

Deadlock is checked except in the `http_*`, `app_*` and `tool` runs: a server that quit
with all connections closed, and a program that has exited, have stopped.

**Fairness.** `HttpServer`: weak fairness of the main thread's startup steps, of the
io_service (one thread, which runs whatever is queued) and of the reactor's report of
each readable socket; none of clients or of quit. `AppBase` and `AppBus`: weak
fairness of the main thread and of the signal thread inside `quit()`; signals may or
may not come, so `QuitEnds` starts from one that did, and no plugin has to use the
channel. `LocalEndpoint`: a process goes on with its startup, its shutdown and its
accepting; nobody has to start, stop or connect. `ChainNode`, `Batch` and `Tool` state
safety only and need none.

## 4. Findings

Each is a run that TLC must refute, with the text it contradicts quoted in
`PROJECT.json`: `publish_blk` reports success for a lost block; `check_chain` does
not see changed transactions (the merkle root is never recomputed); a read_write call
with arguments that do not parse hangs; `quit()` may use a reset io_service, even after
a single signal (main sees the flag, finds nothing to run and shuts down before
`stop()` is reached);
overlapping batches replace the backup with a copy that was not compared, even where every
`cp` runs undisturbed.

More shows in the hypotheses of properties that hold. `check_chain` always reports
the predecessor, so an alteration of the later block is blamed on the block before it
(`ReportIsNear` allows both, the comment at `chain_plugin.cpp:252` only one). A batch
that got no answer from the node exits with success, so `CalmRunStores` speaks only
of runs during which the node did not stop. `SignedPasses`: keosd takes the digest before
it sets the public key, so what it signs is refused by a node unless the key was in the
input. `LimitApplied`: an https address without its files leaves the body limit at zero.
`TextKept`: the last character of an odd hex text is dropped. `StrangerRefused`: an alias
written without a port admits nobody. `EarlierServiceKept`: a process may remove a socket
that came up after its test. `OnlyOverwrittenLeft`: a second subscription of a plugin
leaves the first one connected for ever. `BackupOnlyGrows` and `LastRowKeptByOwner` name what
they do not cover: overlapping `cp`s, or one that fails, may leave a truncated backup until
a run is left alone again, and a run that queries a truncated file compares two empty
outputs and accepts whatever its copy holds.

## 5. Proofs

The theorems hold for every value of the constants: sets of requests, options, processes,
plugins, runs and command lines, and all bounds. Of the 40 properties of the passing runs,
36 are theorems: all but the four about liveness. The assumptions are named in the modules
that declare the constants and evaluated by TLC in the runs that extend them; they say what
the code guarantees of its inputs (a clock is a number, an option is a record of its fields,
a string is a sequence of bytes) and that values which stand for different things differ
(`KeysAssumption`: the producer's key is not the one that a failed recovery yields; likewise
`ToolAssumption` of the keys given to keosd, `EndpointAssumption` of processes and files).

Each proof has an inductive invariant, checked with TLC on the run before it was proved,
with one case per action.

**ChainNode** (`IInv`). No property is inductive alone: `ChainLinked` needs that a new block
is linked to the row before it, hence that the cache is that row, hence that startup reads
the row at count - 1, hence that the numbers are consecutive.

* `StoreInv`: each row is a good block under its own number and hash;
* `BufferInv`: the cached block and the block in flight are good, blank or garbage;
* `FaultFreeInv`, while `sqlErrors = 0`: numbers are consecutive (`Consecutive`), rows
  are linked, and the cached block (before the append) or the block in flight (after
  it) is the tip (`IsTip`).

The lemmas that carry it: `BuildBlockFacts` (what `build_block` signs), `CountFacts` and
`StartupFindsTip`, `NextNumFree`, `InsertLinked`. `NumbersAlwaysServed` and
`CheckChainAlwaysExact` rest on `ReadApiProofs`, where `Nth` is shown to enumerate a finite
set of numbers in order (`RankFacts`, `NthFacts`, `NthOfRank`, `NthBefore`, `NthAfter`).
`NeverTwice` counts: `AtMostOnce` is a sum of three cardinalities that a step moves from
one term to another. `NodeImplementsLedger` maps each action to a step of `Ledger` or a
stutter; while `trusted`, the page of `Seal` is the next one by `FaultFreeInv`.

**ChainAudit** (`AInv`). Every row but the damaged one is sealed by the producer
(`Sealed`); the numbers have at most one gap; each row names the one before it, and the row
behind a gap names neither neighbour. Then the walk fails exactly where a row is broken
(`FailsWhereBroken`), and the least such row is the altered one or the one after it, which
gives both `DetectionExact` and `ReportIsNear`.

**HttpServer** (`HInv`). The settings are those of `plugin_initialize` as soon as a
connection is open; in the queue registrations are in front of requests, and a call is
registered or queued once `exec` runs; a queued connection is queued once and untouched.
The properties of a connection (`ConnOK`) then follow from its own handler.

**LocalEndpoint** (`EInv`). A process owns the file only between its bind and its unlink;
one that runs alone finds the path as it left it; a service found at the start still
listens, and as long as it has its path the newcomer has not come past its test.

**AppBase and AppBus.** `BusImplementsBase` shows that an application whose plugins use a
channel is an application, so the invariant of the life cycle (`BInv`) is proved once.
`Phase`: a plugin has left a state exactly if its call is on the stack or its body is
done, and the stack is a path of requirements. `History`: the log is the initialize bodies
of one list, the startup bodies of another, and shutdown bodies from its end. With a cycle
of requirements a plugin's body may run before one it requires, whose call is still on the
stack; `RequiredFirst` therefore speaks of what is reached through a requirement outside the
cycle (`NeededFirst`), and that is proved for any requirement relation. `BusInv`: the heard
messages of a slot, the one in delivery and the posted ones are in order, and what a
connected slot has not heard is posted or is being delivered with the slot still to call.

**Batch** (`TInv`). The node's own invariant does not survive `Edit`: the cached block and
the row then differ. So there are two: `IInv` as long as nobody edited, and `HeaderInv` with
`NumberInv`, the part about numbers, headers and signatures, which an edit of transactions
keeps. `BackupInv`: everything a `cp` may leave, the copy and the last whole backup are
earlier contents of the table (`PastFile`), and a whole backup is the last whole one. That
does not say how copy and backup relate, since other runs write both; so for each run there
is besides what holds as long as nobody else has (`RunFiles`): while the run is `clean`, the
copy is whole from the end of line 18 and has all rows of the last whole backup (`OwnCopy`);
while it is `whole` too, its variables hold the ID and the row of that backup, and after the
comparison the copy has this row (`OwnQueries`). Every step of another run's `cp` makes the
run unclean (`DisturbedRun`), so these survive all interleavings. `RunInv` and `HeldInv`: for a run under which the node has not stopped,
the measurement is in the pool, in the block in flight or on the chain.
The composition keeps what was proved of its part. Every step of `Batch` is a step of the
node, a stutter of it, an edit, or a read that fails (`BatchSteps`). So, while nobody but
the node writes to `blocks.db`, the node that overlapping runs call has all invariants of
`ChainNode` (`NodeKeptUnderBatch`), and node and runs together implement `Ledger`
(`BatchImplementsLedger`, under `[](edits = 0)`); the invariant is that of the refinement,
`PoolInv`, with the count `OnceInv`. With edits neither holds: an edit puts a transaction on
the chain that nobody acknowledged.

**Tool** (`KeosdInv`). What was printed comes from the command line, and the loop of
`check_chain` has passed all blocks before the next. The rest is about the encodings, for
any length: `ToHexFacts`, `FromHexFacts`, `HexBack` (the bytes that have room come back),
`StringBack`, `VariantBack`, `VariantKeeps`. The proof corrected `HexRoundTrip`: a string
that is too long for the buffer can come back whole, if the memory behind the buffer happens
to hold its rest.

*The packed form.* `PackUInt` is a recursive function of the number, and the library's
induction theorems take an operator as a parameter, which the provers cannot instantiate.
`SetInduction` states complete induction for a set instead (a set of numbers that contains n
whenever it contains all below is all of `Nat`), from the well-foundedness of `<` in
`WellFoundedInduction`; with it `PackUIntDef` shows that the recursion is defined,
`PackUIntPrefixFree` that no packed length begins another one, and `UnpackUIntBack` that
reading gives the number back. What is packed behind a length then determines its fields in
turn (`SameBytes`, `SameFields`), for a transaction (`DigestBytesDetermineTrx`) and, by
induction on its length, for a list (`SameLists`, `MerkleBytesDetermineList`). From these
follow `PackAlwaysInjective` and `HashesAreExact`: the hashes of `Blocks`, which are applied to
transactions and lists and not to bytes, equate exactly what the code hashes alike. What
remains an assumption is that SHA-256 itself has no collision.

Model-checked only: liveness (`ParsedAnswered`, `QuitEnds`, `PostedIsDelivered`,
`QueuedEnds`), since the prover handles neither fairness nor ENABLED.

## 6. Not modelled

Most of the repository's lines are third-party code kept in the tree: the SQLite header
and library, secp256k1, miniz and the general-purpose parts of fc (JSON text, logging,
threads, big numbers). They are external to the models: used symbolically or by what the
program relies on. Of fc, the models cover what the program's own data goes through: hex,
byte vectors in JSON and the packed form. The lines the models stand for are therefore a
small share of the tree, and nearly all of the program's own logic.

* appbase methods (`method.hpp`): declared by no plugin, so that no execution reaches
  them; configuration files, `--print-default-config` and the like.
* `local_endpoint.hpp`: `stop_listening`, timers and the connect handlers, which
  http_plugin never calls for its unix server; the option itself is not registered by
  nodeos, whose default path is empty.
* http_plugin: TLS contexts and CORS headers; websocketpp and asio are external.
* `get_keys`, logging, wording.
* SQL failures of reads are modelled at startup, for the batch's and the tool's
  `check_chain`, not for other clients' reads. A database file damaged by the crash itself
  (SQLite's journal is trusted) is not; nor is the journal that a crash inside an INSERT leaves
  beside `blocks.db`, which `cp` does not take along: the copy is then a mixture until the next
  start of the node, where the model has the old table.
* A database mixed from pages of two states may happen to be readable. The models call it not
  whole, and claim nothing of it but that the next run left alone replaces it.
* `host_is_valid`: a port written in a Host header is taken for a number, as in all requests of
  the run; the regular expression at `http_plugin.cpp:167` would append a default port to any
  other, and so refuse it. keosd: the exceptions for a key and for a transaction that cannot be parsed
  are one outcome, not two command lines.

## 7. Plan

Done: the modules of section 2, their runs, theorems for all safety properties of the
passing runs, and the refinements (`ChainNode` to `Ledger`, `Batch` to `Ledger`, `AppBus` to
`AppBase`).

Open: reads of other clients that fail; the journal of a crash inside an INSERT, and what a
query reads in a database mixed from two, which need a model of SQLite's pages.
