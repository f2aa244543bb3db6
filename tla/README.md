# A verification development for BandChain

BandChain is a Cosmos-SDK/Tendermint blockchain whose *oracle module* answers
data requests: a client asks for the output of an oracle script, a random set
of validators runs the data sources the script names and reports their output,
and the end blocker executes the script on the reports and commits a result.
Around the chain are a daemon that reports for a validator, an SQL indexer, a
service of Merkle proofs, an EVM contract that verifies them with a bot that
keeps its validators up to date, and client libraries. The modules here model
the chain's own logic and the programs around it; every definition is
translated from the source (Go, Solidity, JavaScript) and `PROJECT.json`
("map") says from which lines.

## 1. Inventory

| Component | State | Operations | Interacts with | What is hard | What makes it correct |
|---|---|---|---|---|---|
| Oracle requests (`chain/x/oracle`) | requests, reports, pending list, results, miss counters, reporters, two counters | request (message or IBC packet), report, add/remove reporter, end blocker: resolve and expire | staking keeper (bonded set, jailing), Owasm, IBC channel, file cache | reports and expirations in any order, several requests per end blocker, unvalidated packets, jailing midway | each request is executed at most once, expires on time, gets a result, keeps it; validators are jailed for consecutive misses only |
| Oracle genesis (`genesis.go`, `app/export.go`) | exported lists | export, start of a chain | all stores | what is not exported | results keep their IDs, the new chain runs |
| Data sources, oracle scripts, file cache (`handler.go`, `pkg/filecache`, `pkg/gzip`) | two stores, one directory of files per node | create, edit, read code | request handling | files are outside the committed state: roll-back, crash, failing write | the code of every script can be read whenever it is executed |
| Validator sampling (`pkg/bandrng`) | none | ChooseK | oracle requests | slices shortened in place, floating point, overflow | distinct validators, no panic, chances by power |
| Owasm environment and VM (`exec_env.go`, `go-owasm`) | per execution | get calldata, ask/get external data, gas | oracle requests | limits, memory spans | scripts see exactly the reports |
| Oracle daemon (`cmd/bandoracled2`) | channel of keys | subscribe, execute data sources, submit report | node RPC, executor | goroutines, sequence numbers, timeouts, no retry | every request that asks the validator is reported once |
| DB indexer (`app/db_app.go`, `db`) | SQL database | begin, deliver, end, commit of a block | application | crash between the two commits | the database is the chain's history |
| Proof service (`client/proof`) | none | build a proof of a result | node RPC | several results per block | the proof verifies |
| EVM bridge and its bot (`bridges/evm`, `cmd/bandevmbot`) | validator powers, relayed states | update powers, relay, verify | proofs, chain | validators that leave, nonces | only states signed by two thirds are relayed |
| Client library (`bandlib`) | batch of messages | send | node RPC | concurrent callers | every caller gets the outcome of its message |
| Consumer chain (`band-consumer`) | results | send request packet, receive response | IBC | packet order | stores the response of its request |
| OBI codec (`obi/obi.js`) | none | parse a schema, encode, decode | scripts and clients | nesting, lengths, values out of range, truncated data | what is decoded is what was encoded |
| Executors, Owasm library, CLI/REST, faucet, scan, wiring, deployment scripts | none or I/O | | | | |

`PROJECT.json` lists the same components with their status, and under
"hazards" what is hard to test, at the line where it bites.

## 2. Plan

Order of work, most important behaviour first. Done:

1. `OracleRequests`: the lifecycle of requests, its invariants and liveness.
2. `OracleRequestsProofs`: type correctness and the safety invariants.
3. `RequestLifecycle`, `OracleLifecycle`: the abstract specification and the
   refinement.
4. `OracleGenesis`, `OracleCatalog` (with proofs).
5. `ValidatorSampling`.
6. `OracleDaemon` over `NodeAccounts`: keys, sequence numbers, timeouts.
7. `BlockIndexer` (with proofs): the two commits. `BatchingClient` over
   `NodeAccounts`: batches and answers.
8. `EvmBridge`: proof service, contract and bot together.
9. `ObiCodec`: the JavaScript codec.
10. Proofs of every other safety property that the runs check, the codec
    excepted (section 6 says why): answers, misses and genesis
    (`OracleRequestsProofs`), `ValidatorSamplingProofs`, `OracleDaemonProofs`,
    `BatchingClientProofs`, `EvmBridgeProofs`, the rest of
    `BlockIndexerProofs`, and `FoldTheorems`.

Left:

11. The consumer chain composed with `OracleRequests` over an IBC channel.
12. The Owasm execution environment (limits, gas) and the Go codec of OBI.
13. Changes of the oracle's parameters by governance while requests are open.

## 3. Modules

```
OracleRequests <-- OracleLifecycle (INSTANCE RequestLifecycle)
               <-- OracleGenesis
OracleLifecycle, OracleGenesis <-- OracleRequestsProofs, MCOracleRequests

OracleCatalog <-- OracleCatalogProofs, MCOracleCatalog
ValidatorSampling <-- ValidatorSamplingProofs, MCValidatorSampling

NodeAccounts <-- OracleDaemon   <-- OracleDaemonProofs, MCOracleDaemon
             <-- BatchingClient <-- BatchingClientProofs, MCBatchingClient
BlockIndexer <-- BlockIndexerProofs
EvmBridge    <-- EvmBridgeProofs, MCEvmBridge
ObiCodec     <-- MCObiCodec

FoldTheorems (INSTANCE in OracleRequestsProofs, ValidatorSamplingProofs,
              BatchingClientProofs and EvmBridgeProofs)
```

**OracleRequests.** One variable per store prefix of the keeper. A transaction
that returns an error is rolled back by the SDK, so error paths are guards.
`RequestData` and `OnRecvPacket` call `PrepareRequest` (the message with, the
packet without the validation of its counts); `ReportData`, `AddReporter` and
`RemoveReporter` are the other handlers; `StakingChange` stands for the staking
and slashing modules (external). The end blocker is `EndBlock`,
`ResolveRequest` (one entry of the pending list), `ClearPendingList`,
`ExpireRequest` (one iteration of `ProcessExpiredRequests`, with
`SaveResult`, `SendOracleResponse` and `UpdateReportInfos`) and `Commit`;
`phase` disables everything else until it is done. What an Owasm call may do
is a set of raw request lists (`RawRequestLists`) and either exit code. A
response packet may fail to be sent, as the code only logs it. Gas, fees,
calldata, client IDs, times and the contents of reports are left out.

**RequestLifecycle / OracleLifecycle.** The promise to a client: a stage per
request (`none`, `open`, `ready`, `resolved`, `expired`, `unanswered`), read
off the stores by `StageOf`. An expired request may become ready: that is what
the code does (see section 5).

**OracleGenesis.** `ExportAndStart` stops the chain after a commit and starts
one from `GetAllResults` by `InitGenesis`, as a further step of the same state
machine.

**OracleCatalog.** The two stores, what is committed of them, and the file
cache of one node. Files are named by hash, so the name of a content is the
content. An upload is compressed or not, and its content is an ordinary code,
the do-not-modify symbol, empty, shorter than three bytes or oversized: the
cases the checks tell apart. `RollBack`, `Commit` and `Crash` are the SDK's and
diskv's part; a crash restores the committed stores and leaves the files,
the one being written in part.

**ValidatorSampling.** `ChooseRound` is one round of `ChooseK`. The generator
gives any number up to `MaxUint64`. The floating-point power is computed with
integers (`IntPow`: the largest m with m^q <= base^p); where the real power is
an integer, rounding may give one less, so `GetCandidateSize` is a set. A real
power below an integer by less than a float can tell is not rounded up. The
comment that a size is in [2,totalCount] (`sampling.go:48`) is not true of the
code when all validators are chosen, where the last size is 1; the model follows
the code. Powers are products (`Pow`), which the provers can expand as they
cannot `^`.

**NodeAccounts.** What a client meets of a node: committed sequence numbers and
the mempool (external: Tendermint and the SDK). `CheckTxAccepts` compares the
sequence of a transaction with the committed one plus the account's
transactions in the mempool; a node that restarts loses its mempool.

**OracleDaemon.** `handler` is how far `handleTransaction` is in the logs of
each event, `job` the goroutine of each request: collecting reports
(`RunRawRequest`, one goroutine per raw request), waiting for a key
(`TakeKey`), reading the account, broadcasting, waiting for the block.
`KeyList` fills the channel `keys`; every way out of `SubmitReport` puts the
key back. `BroadcastFails` is every error of `BroadcastTxCommit`, a timeout
while the transaction stays in the mempool included. `GetExecutablePanics` ends
the process; `Restart` starts it with a full channel and without the requests
it had. A request log without a request ID is passed over by its goroutine.
Which reporter key signs matters only for its sequence number.

**BlockIndexer.** `app` and `db` are what the application and the SQL database
have committed, `deliver` and `tx` what the block being executed changed in
them. `DeliverTx` skips the database if its last height is not the one before;
`EndBlock` sets the height in any case. `CommitApp` and `CommitDB` are the two
halves of `Commit`, with `Crash` possible between them as anywhere else; after
it Tendermint replays the block the application had not committed. Of the
tables, blocks, transactions, requests and reports are kept, and the foreign
key from reports to requests. `Panics` says when `DeliverTx` cannot write a
transaction: a report without the row of its request; a request whose script
asks for one external ID twice, against the primary key of `raw_data_requests`
(`db/request.go:113`, `table.go:143`); and what is "unwritable" whatever the
oracle does with it, a transaction that does not decode (`db_app.go:159`), has
no signer, has a message `HandleMessage` does not know (`db/db.go:522`), or has
a hash that is in the table already. That last case, and the foreign key,
assume the PostgreSQL of the repository's scripts, where an error ends the
transaction of the block and the next statement fails. Failures of the database
itself (a lost connection, a commit that is refused) are not modelled.

**EvmBridge.** Hashes are the values they are made of: the state hash of a
header is the oracle's results after the block before it, and a Merkle path
leads from a leaf to the state with that leaf. `Constructor`, `SetPower`,
`RelayAccepted` and `VerifyAccepted` are the contract's; `GetCommit` and
`GetData` the two reads of the proof service, between which blocks may come;
`GetValidators`, `GetNonce`, `SendTransaction` a round of the bot, `CallFails`
any error of its calls other than a nonce that is used or pending; `Mine` and
`OwnerUpdates` the EVM chain. `updateValidatorPowers` is `onlyOwner`, so bot and
owner share an account: `pending` is its transactions in the order of their
nonces, and an update of the owner can make the bot's nonce a used one. The bot
passes its flag `gas-price` as the gas limit of the transaction, with a fixed
price of 2 gwei (`main.go:94-101`); a refusal for either is a failed call, but a
mined transaction that reverts for want of gas is not modelled. The first block
of the model stands for any later one: the SDK gives no proofs at height 1 or
below.

**BatchingClient.** A call carries one message and stands for it. `call`,
`msgChan`, `msgs`, `totalGas`, `chans` and `mode` are the fields of
`BandStatefulClient` and the place of its loop; each select case is an action.
`PrepareTxBuilder` reads the account again where the sequence number is 0. A
total gas of 0 would be replaced by simulated gas (`utils.go:56-61`), so the gas
of a call is positive. Answers are given in the order of the batch, since the
channels are unbuffered.

**ObiCodec.** Schemas are sequences of tokens, parsed by the same counting of
braces as in `index.js`, of the first two parts between slashes; bytes are digits of base `Base` and lengths have
`LengthBytes` of them, so that small instances have numbers in and out of
range. The state machine constructs a codec, encodes values one after the
other, may lose the end of the buffer, and decodes.

## 4. Runs

Passing runs (deadlock is checked in `lifecycle`, `misses`, `answered`,
`catalog` and `bridge`. The others really come to rest, by returning, by having
no work left, or, a chain started from an exported state and an indexer whose
database refuses, by a panic; they do not check it):

| Run | Checks | Bounds |
|---|---|---|
| `lifecycle` | types; pending at most once and only with enough reports (`PendingConsistent`); reached its minimum iff pending or executed (`EnoughReportsResolve`); passed requests have a result (`ExpiredHaveResult`); passed exactly at expiration (`ExpiryIsTimely`); `InBeforeResolve` and the committed answer count agree (`EarlyReportsAreCounted`); responses are at most an expiration, then an execution (`ResponsesInOrder`); a request no report can satisfy only expires (`UnanswerableOnlyExpires`); an executed result is never replaced (`FinalResultStable`) | 2 validators, 1 further account added and removed as their reporter, 2 requests, by message and packet with any counts, and with too many, repeated or no external IDs: enough for two requests in one end blocker, a request between its minimum and its ask count, and a late report |
| `misses` | the counter counts consecutive misses, and only more than `MaxConsecutiveMisses` of them jail | 3 requests, status changes of the validators in between |
| `answered` | every request with a positive minimum is answered (`EveryRequestAnswered`); `OracleRequests` implements `RequestLifecycle`, fairness included (`ImplementsLifecycle`) | fair block production; 2 validators, 2 requests |
| `genesis` | results survive export and start under their IDs, no request gets an ID with a result | 3 requests. Restarts are not bounded, but a chain that was started with results stops in its first end blocker (section 5): in effect there is one restart once there are results |
| `catalog` | the stores name only files that were written, through roll-back and crash (`NamedFilesWritten`); the code of every open request can be read after any edits, roll-backs and restarts, unless a crash interrupted a write (`ResolveFindsCode`) | 1 entry of each kind (both kinds share files), 2 owners, 2 contents, 1 crash |
| `sampling` | distinct validators, candidates within the slice, panics only on overflow, shares within a round | up to 4 validators of power 1 or 3, up to 7 of equal power |
| `obi` | the schema denotes the type it was written for (`SchemaParsed`); values decoded one after the other are those encoded, numbers out of range changing only themselves (`RoundTrip`); decoding leaves nothing and does not throw (`SelfDelimiting`); lost bytes are noticed, except in a text or byte string at the end (`TruncationNoticed`) | nesting to depth two, malformed schemas, schemas with a third part, integers of one and two bytes of base 4, up to 2 values |
| `daemon` | each key is in the channel once or with one goroutine (`KeysConserved`); a report is refused for its sequence only if a transaction of its key was given up while in the mempool (`RejectedOnlyAfterAbandon`); a report has every external ID once (`ReportsComplete`); every request in a received event comes to an end (`EveryRequestHandled`) | 2 keys, 3 concurrent requests, one without raw requests and a log without a request ID, one restart of the daemon, one of the node |
| `indexer` | the database never has what the application may still lose (`DBNeverAhead`); what a crash between the commits costs, and no more (`OnlyLostBlocksMissing`); the status of the rows (`StatusAgrees`); when the database stops the node (`PanicHasCause`); a block that cannot be written is never passed unless it is skipped (`PoisonOnlyIfSkipped`) | 4 blocks of up to 2 transactions, 2 requests, 2 crashes: a lost block, the one skipped after it, and two that follow; or a block that stops the node at each of its three executions |
| `bridge` | with current powers every proof relays (`CurrentPowersSuffice`); what an accepted proof proves and which are accepted (`LastOfBlockProved`); powers of the page catch up, if the bot's transactions have gas enough (`PowersCatchUp`) | 3 validators, a page of 2, 3 validator sets, 3 blocks that save the results of 2 requests or none, 1 update of the owner, lists with duplicates and zero powers |
| `client` | the answer of a call is true of its message (`AnswersAreTrue`); a transaction pays for its own messages (`GasCoversMessages`); calls return (`EveryCallReturns`) | 4 calls, a channel and batches of 2: one to four batches, a full channel, a full batch |

One run ends in a violation, and is a finding, with its quote, in
`PROJECT.json`: in `late_report` a report after expiration completes an expired
request, which is executed and answered a second time.

**Bounds.** `MaxRequests`, `MaxMinCount` and `MaxHeight` bound
`OracleRequests`; a request is only made if it can still expire before
`MaxHeight`, where the clock stops, so that the bound cuts no request short.
`MaxEntries` and `MaxCrashes` bound the catalog; its run lets no write fail
(`DiskFails`), see section 6. `MaxRestarts` and `MaxDrops` bound the daemon's
environment, `MaxHeight`, `MaxTxs`, `MaxRequests` and `MaxCrashes` the
indexer's, `MaxHeight` and `MaxOwnerUpdates` the bridge's, `MaxValues` the
codec's. The set of calls bounds the client. Symmetry is used on
validators, owners and contents, and only in runs without liveness properties.

**Fairness.**
- `OracleRequests`: only weak fairness of the end blocker's steps: Tendermint
  keeps producing blocks and the end blocker of each runs to its end. No
  transaction is fair, so no report is ever promised: a request that gets none
  is answered by its expiration.
- `OracleDaemon`: goroutines run, and queries, executions and broadcasts
  return, with an answer or when their time is over. For an execution the time
  is the lambda's (3 seconds, `lambda/oracle/run.py:53`): `RunOnAWSLambda`
  ignores its `timeOut` (`byteexec.go:102`), so that an HTTP call that hangs
  is not covered. Taking a key is strongly
  fair because Go serves the receivers of a channel in the order they came.
  Events, blocks and restarts are not promised.
- `EvmBridge`: the bot's loop runs, its operator restarts it after a panic, and
  the EVM chain mines. The steps of a round are strongly fair: each of them may
  fail and stop the bot, but does not fail every time it is tried. No block,
  proof or relay is promised.
- `BatchingClient`: the loop's goroutine runs; the node answers the query of
  the sequence number at last, which the loop repeats until it does, and a
  broadcast returns or times out. No block is promised.

## 5. Known deviations

What the code does that its users may not expect. The models have it, and the
properties are stated so that they say what holds all the same.

Oracle module:
- A report is accepted after expiration; if it is the one that reaches the
  minimum count, the request is executed and answered again (`late_report`).
- A packet's counts are not validated (`module.go:169`). With minimum count 0
  the request expires without result or response (`request.go:128`).
- `SaveResult` passes the ask count and the minimum count in exchanged places
  to the committed packet (`request.go:84`).
- A chain started from exported state with results panics in its first end
  blocker: the request after the last expired one has no record
  (`genesis.go:53`, `request.go:120`).
- A gzipped do-not-modify symbol passes the check of a creation and makes an
  entry without a file (`msgs.go:115`, `handler.go:41`). No request can be
  prepared for it.
- A file that a crash left in part is never written again, since `AddFile` only
  looks whether it is there (`filecache.go:34`); reading it panics at
  "NEVER EXPECT TO HIT" (`filecache.go:46`).

OBI codec (`obi/obi.js/index.js`):
- Negative and oversized numbers are changed without notice; text that is not
  ASCII is written with its length in characters and displaces what follows.
- A struct schema whose last brace is missing loses a field instead of being
  refused, and a truncated string or byte string is returned short.
- `decodeInput` and `decodeOutput` throw after any decoding: the test for
  remaining bytes is true of every buffer (lines 169 and 180). The model
  decodes with the codec itself.

Around the chain:
- Daemon: a packet without a request ends the handling of its transaction, so
  requests behind it are never started; a short executable can end the
  process by the slice in a log line; nothing is tried again.
- Indexer: a crash between the two commits loses the block and the
  transactions of the next one, and a later report on a request in them stops
  the node; so does a crash between the commit of the genesis rows and the
  first block.
- Indexer: a request whose script asks for one external ID twice stops every
  node that indexes, without any crash, and again each time the block is
  replayed; so does a transaction in a block that does not decode, has a message
  the indexer does not know or was in a block before.
- Proof service: of several results saved by one block only the last one has a
  proof that verifies.
- Bot: a validator that left keeps its power in the contract; only the first
  page of validators is read (30 by default); the bot panics if its last
  transaction is not mined when a round ends, or if the owner used its nonce;
  the flag `gas-price` is used as the gas limit.
- Client library: one bad message fails its whole batch; after a timeout the
  calls are told an error although the transaction may still be committed.

## 6. Proofs

Every safety property of the passing runs is a theorem, for any values of the
constants, except those of the codec. Few properties are inductive by
themselves; this section names, for each, what the inductive invariant
adds and why. Every proof that a step preserves it has one step per action.

**Assumptions.** Only those named in the modules; TLC evaluates them on the
runs. `OracleRequests`: finitely many validators, and parameters as
`validateUint64` enforces them (`ParamsValid`). `OracleDaemon`: the keybase has
no key twice (`KeysAssumption`), logs have the fields the daemon reads
(`TransactionsAssumption`), and a request ID is in one log only
(`RequestsAssumption`), since `PrepareRequest` counts them up. `EvmBridge`:
a block saves the result of a request at most once (that the oracle module does
so is `PendingAtMostOnce`), validators have non-negative powers and every
validator set a positive one. `ValidatorSampling`: powers are positive and fit
into `MaxUint64` (`WeightsTyped`); their sum need not. `BatchingClient` and
`BlockIndexer`: sizes and bounds are natural numbers, and the gas of a call is
positive.

**Oracle requests** (`OracleRequestsProofs`): `TypeCorrect`,
`PendingAtMostOnce`, `ReportsResolve`, `PassedHaveResult`, `ExpiryTimely`,
`FinalResultsAreStable`. They rest on one inductive invariant,
`IndInv == TypeOK /\ SafeInv`, whose auxiliary conjuncts say
- requests are in the order of their heights (`InHeightOrder`): why the loop
  may stop at the first request that is not expired;
- nothing is pending while requests expire (`NothingPendingAtExpiration`): why
  a request below its minimum at that time has no execution to lose;
- results with status Expired belong to requests the loop has passed
  (`ExpiredArePassed`): why a result that is there before expiration is final.

**Answers, blame, lifecycle, genesis** (`OracleRequestsProofs`), from `IndInv`:
- `LifecycleRefinement`, `Spec => Lifecycle!SafeSpec`: each action changes the
  stage of one request, or of none.
- `UnanswerableExpires`. A packet's minimum count may be zero, so that a
  request could be pending without reports as far as `IndInv` knows;
  `PendingAreReported` says it is not: only a report makes a request pending.
- `ResponsesOrdered`. `PacketsHaveResults` ties each response to a result that
  is at least as final; then `FinalResultsAreStable` orders the responses.
- `EarlyReportsCounted`. `AllEarlyWithoutResult` says that before the first
  answer every report is early, `ExpiredBelowMinimum` that an expired request
  had fewer reports than its minimum: with both, the count that is committed is
  that of the early ones, and a later answer needed late ones.
- `MissesConsecutive` and `JailedAfterMisses`. The row of misses is extended by
  the request that expires, or begins anew after it. That reports on requests
  in the row do not break it afterwards follows from `PassedHaveResult`: what
  the loop has passed has its answer, so such a report is not early.
- `FreshRequestIDs` and `ResultsStay`, of `GenesisSpec`. A chain that was
  started from exported state has no requests below its counter, so `IndInv`
  does not hold; `GenesisInv` is what does, that requests and results have IDs
  up to the counter and that no result is the Nil of `GetAllResults`. What that
  function returns is shown for every set of results: after the keys in T, the
  list has an entry per ID up to the largest of T, the result for those in T
  and Nil for the gaps.

**Catalog** (`OracleCatalogProofs`): `CatalogTypeCorrect`;
`NamedFilesAreWritten` (no write fails; any crashes), which is inductive with
the type invariant because committed and executing stores are both covered;
`OpenRequestsFindCode` (no write fails; any crashes, as long as none
interrupted a write), whose inductive invariant adds the same fact of the
committed stores, to which a crash returns. The assumptions are needed.
`AddFile` drops the error of a write: if one may fail (`DiskFails`), an entry
can name a file the node does not have; section 5 says what an interrupted
write does. The theorem holds even though entries without a file can be
created: no request can be prepared for one.

**Sampling** (`ValidatorSamplingProofs`), for any lists of positive powers, any
number of rounds and any range of the generator:
- `ValidatorsChosenOnce`. The inductive invariant `Inv` adds to `ChosenOnce`
  that the chosen validators are not among those left (`Disjoint`), which is
  why removing an index cannot lose one. That the index is there to be removed
  is the next theorem.
- `CandidatesAreLeft`, of `SliceInBounds`: with N = n - 1 and q = k - 1, the
  q-th root of N^(q-r) is less than N - r + 1 (`RootBound`). Integers are
  enough: (n+1)^j <= (j+1) n^j for j <= n (`PowSuccessor`), hence
  n^s < (s+1)^n for s <= n (`PowExchange`), which is the bound for q = N, all
  validators being chosen; going down to a smaller q, one factor N on the left
  and one not larger on the right are dropped.
- `PanicNeedsOverflow`. `ChooseOneFinds`: the index that is found is the one
  whose part of the sum holds the remainder, and there is one because the sum
  up to the last index is above every remainder. The candidates are some of
  the validators in their order, so their sum is not larger
  (`CandidatesSum`).
- `SharesProportional`. By `ChooseOneFinds` the share of a candidate is a
  number of remainders, which `RemaindersCount` bounds by two injections: from
  pairs of a full cycle and a remainder into the numbers, and from the numbers
  into pairs of a cycle and a remainder.

**Indexer** (`BlockIndexerProofs`), for any bounds:
- `DatabaseNeverAhead` is about the committed states, but the database's next
  state is its transaction: `AheadInv` adds that the transaction is never ahead
  of the block being executed, and, between the two commits, never ahead of the
  application.
- `PanicNeedsCause` needs the converse as well: `InStep` says that as long
  as no block was lost the database and its transaction have every request and
  the height of the last block, so that no transaction is skipped and no report
  can miss the row it refers to: what stops the node is then the transaction
  delivered last.
- `PoisonStops`, with `MissingInv` below: while a block whose predecessor was
  not lost is executed, the database is at the height before it, so each
  transaction is written or stops the node; `PoisonInv` says of the block being
  executed that what was delivered of it can be written.
- `OnlyLostMissing`. The property speaks of the time between blocks;
  `MissingInv` says in each phase how far the transaction of the database has
  come (`TxExtends`), and that the last height of the database is the
  application's, from the first block on, exactly if the last block was not
  lost.
- `StatusesAgree`. `StatusInv` says the same of the transaction and the block
  being executed, and that results belong to requests that exist and are dated
  (`Dated`), so that a result of the block is in no lost one.

**Daemon** (`OracleDaemonProofs`), for any keys, transactions and restarts:
- `KeysAreConserved`. `KeyInv` is the property without counting: a key is in
  the channel exactly if no goroutine has it, neither twice, and a daemon that
  is down has none. It needs that a goroutine has a key exactly in the stages
  from `TakeKey` to the end of `SubmitReport` (`TypeInv`), and that no request
  is started twice (`Started`), which would overwrite a goroutine with its key.
- `RejectedAfterAbandon`. `SentInv`: a transaction in the mempool whose key was
  not given up has a goroutine that waits for it with that key, so a key taken
  from the channel has none there; no request is sent twice; and the sequence
  number that was read is still the committed one.
- `ReportsAreComplete`. `GatherInv` follows the reports as the goroutines of
  the raw requests put them on the channel: those who have ended and those who
  run are together all of them.

**Client** (`BatchingClientProofs`), for any calls and sizes:
- `AnswersTrue`. `AnswerInv` says where a message may be (with its call, on the
  channel, in the batch, in one transaction: `QueuedOnce`, `BatchedOnce`,
  `SentInOne`) and that the outcome that is being told is true of the batch
  (`OutcomeIsTrue`), since calls are answered one by one while the node may go
  on.
- `GasCovers`. `GasInv`: the gas that was collected is the sum over the batch,
  and so is that of each transaction.

**Bridge** (`EvmBridgeProofs`), for any validators, lists and blocks:
- `PowersSuffice`. `BridgeType` has that the contract's total is the sum of its
  powers, which both loops over lists keep, entries that repeat a validator or
  have no power included. `ProofInv` has that the signatures of a proof are
  ascending and by more than two thirds of the validators at its height, which
  blocks that come later do not change.
- `LastProved`. `ProofInv` also has that a proof has the state of the header at
  its height and the packets of the block that saved the result, and that
  relayed states are those of headers.

**Folds** (`FoldTheorems`). The loops over lists and the sums above are folds of
the community modules, that is, CHOOSE of a recursive function on the subsets
of a set. The library's induction theorems take an operator as a parameter and
cannot be used. Instead a counterexample of least size is taken
(`SmallestSet`, from the well-foundedness of the strict subsets of a finite
set), and the operator and the choice are constants of the module, which each
use instantiates. `FoldEquation` gives the recursion, `FoldType` what a fold
keeps, `FoldAnyFirst` that order does not matter where two steps may be
exchanged, `FoldSame` on what it depends. To stay within these folds,
`GetAllResults` takes the largest key last instead of sorting the keys, and
`EvmBridge` has a `Sorted` of its own: the community module sorts by a
definition the provers cannot expand. `LeastExists`, that a set of natural
numbers has a least member, serves induction over numbers in the same way.

**Only model-checked:**
- liveness (`EveryRequestAnswered`, the fairness half of the refinement,
  `EveryRequestHandled`, `PowersCatchUp`, `EveryCallReturns`), which the prover
  does not support;
- the codec. It follows the nesting of types, whose parts have other types, so
  that its definitions are recursive operators, which the prover cannot expand.

## 7. Not modelled

Section 2 lists what is planned. Left out for good:
- the Swagger user interface (`client/lcd/swagger-ui`), a minified third-party
  bundle that is served as it is. It holds nearly all the lines of JavaScript
  in the repository and none of its logic;
- the bridge's migrations, its Truffle configuration and the Celo example:
  configuration and straight-line scripts;
- the Owasm virtual machine and the library for script authors, which are
  compiled into scripts;
- the scan front end, the command lines and REST views, the request and faucet
  servers (no state of their own), the executors (I/O), application wiring, the
  wrapped bank keeper (one call into the SDK's modules);
- generated code (`types.pb.go`, ABI bindings), hashes, signatures and Merkle
  paths (abstract where they appear);
- in the indexer, the tables of accounts, delegations and votes, whose rows are
  written in the same transaction of the database as the ones modelled.

In `OracleRequests` parameters are constants: changes by governance while
requests are open are not covered yet.
