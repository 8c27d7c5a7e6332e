# Verification of wire-libraries-ts

TLA+ models of the stateful parts of this monorepo, the TLC configurations that
check them on small instances, and TLAPS proofs of what matters most for every
instance. Paths below are relative to the repository root; `packages/` holds all
of the code.

Contents: [inventory](#1-inventory), [plan](#2-plan), [what is modelled](#3-what-is-modelled),
[proofs](#4-proofs), [findings](#5-findings), [limits](#6-what-is-not-modelled).

## 1. Inventory

The repository is a set of TypeScript libraries and one program, the wallet
extension. JavaScript runs one turn at a time, so an interleaving is an
interleaving of the turns between two `await`s, of timers, of events, and of the
processes at the other end of a message port or a socket.

### Wallet extension (`packages/wallet-browser-ext`, `packages/wallet-ext-sdk`)

| part | state | operations | interacts with | hard | correct when |
|---|---|---|---|---|---|
| background worker (`background/Background.ts`, `Storage.ts`, `Crypto.ts`) | decrypted state, password, lock deadline; encrypted vault in `chrome.storage`; Chrome alarm | HAS_VAULT, IS_UNLOCKED, SETUP, UNLOCK, LOCK, GET_STATE, SAVE_STATE, GET_ACCOUNTS, SIGN_REQUEST, alarm | popup, content script, Chrome | messages overlap at encryption, worker stops, late and early alarms, failed writes | closed when idle, opened only by the password, nobody shut out of the vault, acknowledged saves are stored |
| page bridge (`inject/Provider.ts`, `content/ContentScript.ts`) | pending requests, listeners | request, response, 30 s timeout, events | page, background | late or duplicate answers, timeouts, several pages | every request settles exactly once, with its own answer |
| client SDK (`wallet-ext-sdk`) | provider reference | wait for provider, typed calls | injected provider | provider appears late | waits settle once |
| popup (`popup/slices/WalletSlice.ts`, views) | a copy of the state, view, toast | thunks and reducers | background | copy goes stale, answers lost with the popup, references between keys, endpoints and accounts | references stay valid, copy, background and vault agree, a vault is not overwritten |
| validation (`Validation.ts`) | none | name, URL and key checks | popup | - | - |

### Logging (`packages/shared`, `packages/shared-node`, `packages/shared-web`)

| part | state | operations | hard | correct when |
|---|---|---|---|---|
| `LoggingManager`, `Logger`, `LogContext` | root level, overrides, appenders, loggers, contexts of a task | configure, log, runInContext | a throwing appender, tasks within tasks | an enabled record reaches the appenders it is for, and no others |
| push log appender (`PushLogRecordsAppender.ts`) | queue, flush timer, credential, its expiry timer and deferred | append, flush, fetch credentials, destroy | concurrent flushes, credential refresh under way, retry, destroy | records pushed at most once and in order, none lost silently, nothing runs after destroy |
| firehose appender and credentials (`AWSFirehoseAppender.ts`, `AWSFirehoseCredentialManager.ts`) | queue, batch, timer, client, deferred of each load | append, flush, load, refresh, destroy | overlapping loads, expired tokens, a timer that is re-armed | records put at most once and in order, given up only where the code says so |
| file appender (`FileAppender.ts`) | queue, open file, sizes, archived names | append, drain, roll, close | rolling while writing, close during drain | file content is the appended sequence, bounded number of files |
| `Deferred` | flags and a promise | resolve, reject, cancel, wrap a promise | settling twice, settling what wraps | settles once, the flags say how |

### Chain SDK (`packages/sdk-core`)

| part | state | operations | hard | correct when |
|---|---|---|---|---|
| p2p provider (`p2p/Provider.ts`) | receive buffer, socket state | write, data, close, destroy | frames split and joined by the transport | envelopes out = envelopes in, prefix, in order |
| p2p client (`p2p/Client.ts`) | listeners, heartbeat timer | send, events, heartbeat, end, destroy | listeners that add, remove, throw and emit; timers after end | every listener hears an event once |
| ABI cache (`signing/AbiCache.ts`) | cache, pending requests | get, set | late answers over newer values, rejected requests | a request is shared, a set ABI is not lost |
| fetch provider (`api/Provider.ts`) | one request | call with timeout, bounded body read | timeout races answer, limit | settles once, reads at most the limit |
| API clients (`api/Client.ts`, `api/v1`, `api/v2`) | ABI cache, signer | `pushTransaction`, `get_table_rows`, typed calls | header, signature and ABI are of different moments; lost answers, forks | what is returned was executed; a refusal has a cause |
| contract clients (`contracts/`) | members that were made | actions, table queries, scopes | paging, key types, defaults | reads cover every row once, actions are addressed as configured |
| msig client (`contracts/sysio/msig`) | cached capabilities | reads of a proposal, its chunks, its approvals; status | several requests for one answer while the chain goes on | bytes are of one transaction, a quiet read is the chain |
| swap (`contracts/sysio/swap`), powerup (`resources/`) | none | quotes, prices | rounding, width | rounded against the one who asks |
| signing request (`signing/`) | request, signature, ABIs | create, setters, encode, open, resolve, callback, proof | three parties, ABIs that change, several chains | what is resolved, signed and recreated is what was asked |
| serializer, chain types (`serializer/`, `chain/`) | none | encode, decode, integer arithmetic, names, assets, time | width, overflow, boundaries | round trips, saturating and truncating casts |
| crypto (`crypto/`), keys and signatures | none | sign, verify, recover, texts and bytes | what each curve signs, layouts | verified for what was signed and by whom only |
| generated contract types (`types/`) | none | - | - | - |

### Outpost SDK (`packages/sdk-outpost`)

| part | state | operations | hard | correct when |
|---|---|---|---|---|
| Ethereum clients (withdrawal, node owner, syndication) | none (chain external) | deposit, approve, syndicate, request, claim, commit | several reads, then a transaction, while the chain moves | decided on one block; fails only if something changed |
| Solana clients | none (chain external) | as above, of current and legacy programs | receipt id read before use | as above |
| artifact registry and verifier | suites | verify a deployment | an upgrade between two requests, a failing request | the suite that is accepted is the live one |

## 2. Plan

Modules, most important first. A component's theorems are in a `...Proofs`
module, those of components that share no names in one; `Lists` has the lemmas about lists. `RECURSIVE` operators are used only in the codec's modules and the TLC
modules above them (`AbiCodec`, `AbiObjects`, `MCSdkValues`, `MCSdk`, `MCSdkAndPopup`),
which hold no theorem; numbers, texts and keys are written with recursive functions.

Done:

1. `WalletBackground`: the worker that holds the keys; `WalletPopup` over it.
2. `PushCredentials` composed into `PushLog`; `FirehoseLog`, `LogRouting`, `DeferredPromise`.
3. `WalletProvider`: page, provider, content script, worker.
4. `P2PEnvelope`, which implements the abstract `EnvelopeChannel`; `P2PClient`.
5. `FileLog`.
6. `FetchProvider` composed into `AbiCache`; `ApiClient`.
7. `MsigReads`: reads of a proposal while the chain changes.
8. `OutpostWallet`, `OutpostVerification`: read-then-submit clients over an external chain.
9. `SigningRequest`: application, wallet and service.
10. Pure algorithms: `ChainIntegers`, `ChainText`, `ChainKeys`, `AbiCodec`,
    `AbiObjects`, `TableRows`, `ContractClients`, `SwapQuotes`, `ResourcePricing`, and
    `ChainValues`, which states what holds of the values.

The pure algorithms share one run whose state is the input. Components that share
no state share a run, too, one at a time beside the others at rest.

Left of the code: the builders of msig actions and transactions, REX prices.

## 3. What is modelled

In every module an action is one turn of JavaScript: the code of a handler up to
its next `await`, or one timer, event or answer. Variables carry the names of
the fields they stand for; a comment marks the ones that are history, kept for a
property only. What a property does not need (texts, cipher, JSON) is a model
value.

### Wallet background worker: `WalletBackground`

`currentState`, `currentPassword` and `lockDeadlineMs` are the module variables of
`background/Background.ts`; `alarm` is the one alarm it keeps at Chrome, `vault`
the entry of `chrome.storage.local`, reduced to what it decrypts to and with which
password. A message whose handler awaits the cipher is in one of the `calls`.

| action | code |
|---|---|
| `GetState`, `GetAccounts`, `SignRequest`, `LockMessage`, `ReadOnlyMessage` | the cases of `handleMessage` that finish in the turn |
| `Setup`, `Unlock`, `SaveState`, `RefuseSave` | the other cases, up to the first `await` |
| `StoreVault`, `FailCall` | `saveEncryptedState` ends or rejects |
| `FinishSetup`, `FinishUnlock`, `FinishSave` | what the handler does after its `await` |
| `FireAlarm`, `HandleLockAlarm` | `chrome.alarms`, `handleLockAlarm` |
| `Restart`, `Tick`, `SetClockBack` | Chrome stops the worker; the wall clock |

Run `wallet_overlap` (671,685 states): two messages in flight, so any two handlers
interleave at their `await`, with restarts, late alarms, failed writes and a clock
that is set back once. The session variables agree (`SessionGuarded`), the session's
password opens the vault, also when a wallet is set up anew over it (`PasswordOpensVault`), nothing is served after
`LockDuration` of idleness (`NoServiceWhenIdle`), only a password opens the wallet
(`OpensOnlyByPassword`), and a wallet nobody uses is locked in the end
(`LocksWhenIdle`). That acknowledged saves are in the vault (`SavedStateIsDurable`)
holds of one message at a time only: `sdk_and_popup` checks it so, and section 4 proves it
as long as messages do not overlap.

Bounds. Two calls, because the handlers share no more than the session variables,
and every order of two continuations occurs; two passwords, the right and a wrong
one; two states, the empty one and an account with its key; a lock duration of 2
and a horizon of 3, so that a message can fall before, in and after the window.
SETUP arrives at any time, over a vault and beside other messages, for neither the popup
nor the worker looks. What is exempt is a session in which it has met a message with
another password (`rivals`): one of the two writes last and the other opens the session last.

### Popup: `WalletPopup`, over `WalletBackground`

`store` is the popup's copy of the state, `form` the call a form awaits, `init` that
of the first thunk, `hasVault` and `locked` what the slice holds; `mishaps` is
history. An `Edit` is one of the reducers with the views' conditions on when it is
offered, and the SAVE_STATE it sends without awaiting it. `OpenPopup` and `Close` are the
popup's window: with it go the store and the answers it waits for.

In run `sdk_and_popup` (1,262,936 states with the SDK's parts): one message at the worker, two keys, an endpoint and an account;
of edits, stops of the worker and hours at most two (three were run once: 4.9 million
states, no error). References in the wallet stay whole (`NothingDangles`), an open popup
shows what the worker serves, and what storage holds once nothing is in flight, and
acknowledged saves are stored (`ShownIsDurable`). Each property names the mishaps after
which it does not hold. Messages that overlap are beyond this run, and within the proofs.

Run `wallet_setup` is a finding of section 5: the set-up form is offered over an existing
wallet (`SetupMakesANewVault`).

### Page bridge: `WalletProvider`

`pendingRequests` is the provider's map; a request's timer is in `requestTimers`
until it goes off, for nothing clears it. `toContent` and `toPage` are the two
`window.postMessage` queues, `atBackground` what `chrome.runtime.sendMessage`
has not called back for. `WaitForProvider`, `Check` and `WaitTimesOut` are
`WireWalletClient.waitForProvider`.

In run `channels`: three requests, so that an answer can overtake another
and a third be late. Each request is settled once (`SettledOnce`) and by its own
answer (`OwnAnswer`), and is settled in the end also when nobody answers, as is the
wait for the provider (`PromisesSettle`).

### Push log appender: `PushCredentials`, `PushLog`

`pendingRecords`, `flushTimer`, `flushing` (that `flushDeferred` is set), `cookie`,
`refreshTimer` and `credentialDeferred` are the fields of the appender and its
credential manager; POSTs and PUTs under way are in `fetches` and `puts`. `Flush` is
`flush()` up to its `await`, `Send` the rest up to the PUT, `EndFlush` the `finally`
block. `ready` counts the flushes whose continuation is queued: microtasks run
before the next timer or network event, which is the guard `Macrotask`.

In run `push_queue`: two fetches, two PUTs, three records through a queue of two, one
failing request or one cookie that expires unnoticed, one `forceFlush` or
`forceRefresh`. Each record is in one place (`EachRecordOnce`), a queue has somebody
to send it (`NobodyForgotten`) and is sent in the end (`RecordsArrive`). Two PUTs are
needed for batches that overlap; a record more than the cap for a trim, also by a
refused batch.

### Firehose: `FirehoseLog`

`waiting` is the queue and `batch` what the flush under way has taken, `phase` how far
that flush is, `loading` the loads of credentials under way, each with a deferred of
its own, of which the manager keeps the latest; `stored` and `gone` are history, the
latter by reason. `fast` says that the endpoint answers before the refresh timer fires
again. In run `push_queue`, with two loads, four records, a cap and a batch of two, one
forced refresh and two mishaps: records are put at most once and in order, given up
only for one of three reasons, and never without somebody to attend to them
(`PutOnceInOrder`), and are put in the end if the endpoint is fast (`RecordsArrive`).
One of the three reasons is an expired token, after which the documentation has the batch
retried: run `firehose_retry` is a finding of section 5 (`ExpiredIsRetried`).

### Routing of records: `LogRouting`

The root level, overrides by category, the manager's appenders, the loggers with the
options of their first `getLogger`, and the contexts a task was begun in (the stack
`AsyncLocalStorage` hands down). In run `push_queue`: two categories, two levels, three
tasks within each other, two contexts, an appender that throws, two changes of the
settings. A record reaches the appenders of its level and its own task's contexts, up
to one that throws, and no others (`RecordsAreRouted`). A context may be `exclusive`, which
no code reads: run `log_exclusive` is a finding of section 5 (`ExclusiveIsExclusive`).

### Deferred promises: `DeferredPromise`

`resolve`, `reject`, `cancel` and the wrapping of a promise, over the promise as the
language settles it. In run `push_queue`: a deferred's flags tell how its promise was
settled, with the exceptions the property names (`StatusIsThePromise`).

The four parts of `push_queue` share nothing: `MCPushLog` runs one beside the others at
rest, 321,953 states in all.

### P2P envelopes: `EnvelopeChannel`, `P2PEnvelope`

`EnvelopeChannel` is the promise: a channel of whole messages, in order, none
after it is closed. `P2PEnvelope` is `SimpleEnvelopeP2PProvider` over a transport
that cuts the bytes anywhere: `remainingData` is its buffer, `parsing` that its
loop is between two frames, where handlers run that may throw or close it.

In run `channels`: bytes of two values and a prefix of two bytes, so a length has
a carry and a payload can look like a prefix; the longest frame allowed has two
bytes and one message has three; three messages, cut in every way. The module
implements the channel (`ImplementsChannel`, a refinement: `open` is `~destroyed`),
fails closed (`FailsClosed`) and delivers everything unless closed or a handler threw
(`EverythingArrives`).

### P2P client: `P2PClient`

`eventListeners` are lists that a running emission walks: `addListener` grows them in
place, `removeListener` replaces them. `emitting` is the stack of emissions, for a
listener may cause another; `Throw` is `handleData`'s `catch`, which emits "error".
The heartbeat is left out: it is armed by the confirmation of its own message, so there
is one by construction, and nothing reaches its timer.

In run `outposts_and_peers`: two handlers, three listeners, two emissions one
within the other, so that each may be added, removed, called and thrown out of at
every point of a walk. Listeners of the beginning of an emission hear it, once
listeners are called once (`ListenersHear`, with the exceptions it names).

### File appender: `FileLog`

`recordQueue` (`queue`), `pendingFlush`, `file`, `error`, `currentSize` are its `state`; `archived` is
the length of `archivedFilenames`; `files` is the disk. `StartDrain`, `WriteNext`,
`WriteSucceeds`, `WriteFails` and `EndDrain` are the drain, `RollFile` the synchronous
roll at its end, which can fail after any rename.

In run `channels`: four files of one record and five records, so that the oldest file is
overwritten; two failing calls; one restart. A close that resolves lost nothing
(`CloseReportsLoss`), files keep the order without repetition and, until the restart,
rolling drops only the oldest (`KeptInOrder`), close ends (`CloseEnds`).

The three parts of `channels` share nothing either: 120,612 states in all.

### Fetch provider and ABI cache: `FetchProvider`, `AbiCache`

A call is a race between `operation` (fetch, then a body read in pieces or at once)
and `timer`; `outcome` is what the race settled to, and the loser goes on. The
server declares a true length, a false one or none. `AbiCache` starts one of these
calls for a lookup; `pending` and `cache` are its maps, `awaits` the request a lookup
is suspended on.

In run `abi_cache`: two lookups, two accounts, two calls, a limit of three bytes and
bodies of three and four, so one fits exactly and one is a byte too long. An answer is
the whole body (`TextIsBody`), and all lookups end (`CallsEnd`). That lookups of an
account share a request and what is stored is bounded is proved.

### API client: `ApiClient`

`pushTransaction` is a sequence of requests: the ABIs of the actions (`AnyToAction`), the
header, then in one turn the signature (`GetInfoAndSign`), the push, and for those who
wait the blocks until finality (`AwaitBlock`). The node (`ProcessPush`, `ProduceBlock`,
`Mishap`: a fork, an upgrade, another signer, a lost answer) is external. In run
`abi_cache`, beside the cache: two pushes, blocks up to 5, one mishap. What a call
returns was executed where it says, a refusal has a cause, and actions of one account
are encoded by one ABI (`AnswersAreTrue`); calls end (`CallsEnd`). 379,333 states.

### Multisig reads: `MsigReads`

A generation of the proposal is its packed transaction, in pieces; `height` counts
what the chain did. `reads` are the calls of `getProposal`, `getApprovals` and
`getProposalDetail`, one request per step; `capabilities` is the cached promise of the
detected profile. Contracts with chunks and without, of known and unknown profile. A query
with a bound of a profile that still is the contract's finds its row (`Understood`);
otherwise the scope is scanned, `ScanLimit` rows of it (`SCOPED_ROW_LIMIT`, 1000), and
`others` are the proposer's rows in front of ours.

Run `msig_reads` (433,399 states): two reads, two pieces, a scan of one row, three changes, so a proposal is
proposed, removed and proposed again between two requests of a read. Bytes are one
whole transaction, and if verified that of the row (`BytesAreOneTransaction`); a read
without changes is the chain, unless it scanned for a row beyond the limit, and an
unknown profile is detected again (`QuietReadsAreTheChain`); reads end (`ReadsEnd`).
Run `msig_unknown` is a finding of section 5: a failed `get_abi` refuses the read
(`UnknownKeepsTheView`).

### Outposts: `OutpostWallet`, `OutpostVerification`

`chain` is the account's balances, allowance and receipts as the clients see them, on
four kinds of deployment. A call goes through `Start` (a first request for some of the
fields it reads), `ReadRest`, `Build` (its decision, and the transactions it has built),
`Sign`, `Mine`; `Move` is the chain without us. `OutpostVerification` reads contract by
contract and request by request, with an upgrade or a failing one between.

In run `outposts_and_peers` (2,769,712 states with the listeners): two calls and one move, or the verification with one
upgrade and one failure. Two moves take more than five minutes and are not run: with one
a move falls between every two steps of a call. A call fails only if something changed,
is refused only for what the contracts would refuse, and a withdrawal is decided on one
block (`CallsAgree`); a verified suite is the live one (`VerifiedSuiteIsLive`).

### Signing request: `SigningRequest`

The application's `request`, its `uri`, the `wallet`'s request, what it `resolved`, the
callback `payload` and what a service `recreated` of it; the actions are the public
methods. Action data is a sequence of fields, an ABI the number of fields it knows, so
that an upgrade between encoding and resolution is visible; a hash is what is hashed.
`broadcast`, `compress`, chain aliases, multi-chain requests, identities with and
without scope, TAPoS of the request or of the context, setters after signing.

In run `sdk_and_popup`: one change of the request or the ABI (`MaxChanges`), two chains, two
signers. What is resolved is what was asked (`ResolvedIsWhatWasAsked`), a payload
recreates it and an identity proof verifies for its signer, time, scope and chain only,
where both are refused for a payload without its chain or with a request that inflates past
the limit (`PayloadRecreates`; `ProofOf` may throw as `fromPayload` does), a URI opens to the request it was made of (`OpensAsMade`).

What the arguments, contexts and objects are is stated as sets (`ArgumentRecords`,
`ContextRecords`, `RequestObjects`), which the proofs take from `InputsAssumption`:
`info` is an object, so no key is there twice, and an expiration that is given is not
zero, which `resolve` would take for none. Two inputs are outside what the properties say.
An identity asked for by a placeholder in another's place (the actor `............2`, the
permission `............1`, a scope that is either; `PlainIdentity`): `resolveActions` replaces
it by a name of the signer, while `getIdentity`, `getIdentityPermission` and
`getIdentityScope` show the placeholder itself. An application that
writes `chain_ids` into `info` itself (`NoChainsInInfo`) gets two entries, of which the
first is read.

### Values: `AbiCodec`, `AbiObjects`, `ChainIntegers`, `ChainText`, `ChainKeys`, `TableRows`, `ContractClients`, `SwapQuotes`, `ResourcePricing`, `ChainValues`

Algorithms, as operators on values small enough to enumerate: a byte, a digit and an
alphabet are constants. `ChainValues` has the inputs of the chain types, quotes and prices
and what is said of them for any size of these constants (`ValuesSpec`: one input is
picked); `MCSdkValues` and `MCSdk` pick small ones, and hold the inputs and the reference
definitions of the serializer, the tables and the clients. In run `sdk_and_popup`, a value is picked
in the states where no request is made:

| module | models | property |
|---|---|---|
| `AbiCodec` | types of an ABI (aliases, bases, optional, extension, arrays, variants), encode and decode, varints, an ABI's own sections | `DataIsFaithful` (`CodecIsFaithful`): decoding what was encoded gives the value, encoding what was decoded the bytes, nothing else is consumed, what is refused is what the property names |
| `AbiObjects` | JSON to values, constructors of Struct classes, types guessed from a value | the same: an object and its JSON give the same bytes |
| `TableRows` | `get_table_rows`, key types of bounds, row shapes, paging, actions from plain, typed and encoded data | `DataIsFaithful` (`RowsAreRead`, `PreparedOrKept`): all pages together are every row of the bounds once, in order |
| `ContractClients` | clients' members made from definitions, their defaults and scopes | `DataIsFaithful` (`MembersAreAsConfigured`): an action or a query is of the configured contract and as asked |
| `ChainIntegers` | casts, promotions, operators with their overflow, `UInt256`, decimal amounts | `ArithmeticIsExact`: operators are arithmetic modulo the width, amounts never wrap |
| `SwapQuotes`, `ResourcePricing` | trades, liquidity, yield; RAM and powerup prices | `ArithmeticIsExact`: the product of a pool and the worth of a share never fall, prices grow with use |
| `ChainText` | names, slugs, symbols, assets, times, block ids, base 58 and 64 | `TextsAreRead`: a text is read back, and nothing else reads as it |
| `ChainKeys` | keys' and signatures' texts and bytes, what each curve signs, signing a transaction and an account link | `TextsAreRead`, `SignedIsVerified`: a signature verifies for what was signed and by whom only |

Bounds. Integers of one, two and four bytes in base 2 cover each pair of narrower, equal
and wider types, signed and unsigned; types nest to `MaxDepth` 5; texts have up to as
many characters as fill the type and one more; three rows give pages of one, two and
three; pools are small enough that every quotient with a remainder occurs.

Run `int_truncate` is the finding of section 5.

### Fairness

Only what a platform guarantees: timers go off, microtasks run, an operating system
answers a write (with success or an error), a transport delivers the bytes it
has, Chrome fires a due alarm. Nothing is assumed of users, of a server, or of
the wallet's worker. A request to a node ends because `FetchProvider` has a timeout,
which is why `ReadsEnd` and `CallsEnd` assume that it is answered or fails;
`AwaitBlock` has a deadline of its own. The exception is `RecordsArrive`, which is about
requests that are answered: it assumes that a PUT and a POST in flight succeed in the
end, without which there is nothing to drain to, and that firehose's loads end (`fast`:
before the timer that starts the next). Specifications for safety have no fairness.

### Deadlock

Runs with `CHECK_DEADLOCK FALSE` are of modules that stop when their bounded
inputs are used up (all records appended, all requests settled, a value picked).
`wallet_overlap` checks deadlock.

## 4. Proofs

TLAPS checks these for every value of the constants, under the `ASSUME`s of the
modules (sizes are positive naturals, `None` is not a datum).

| module | theorem | for |
|---|---|---|
| `WalletBackgroundProofs` | `TypeCorrect`, `SessionIsGuarded`, `NothingServedWhenIdle`, `OpenedByPassword`, `PasswordFitsVault` | any number of messages in flight, passwords and states, any clock |
| `WalletBackgroundProofs`: popup | `NothingEverDangles`, `ShownIsAlwaysDurable` | any wallets and edits, messages that overlap, failed writes and stops of the worker |
| `LoggingProofs`: push log | `TypeCorrect`, `RecordsKept`, `CapHolds`, `QueueAttended` | any number of records, requests in flight and failures, any cap |
| `LoggingProofs`: file appender | `FileTypeCorrect`, `CloseIsHonest`, `ArchivesInOrder` | any number of files, sizes, failures and restarts |
| `LoggingProofs`: firehose | `FirehosePutsInOrder` | any number of records, loads and failures, any cap and size of a batch |
| `LoggingProofs`: deferreds | `StatusIsAlwaysThePromise` | any number of deferreds and values, plain and wrapping |
| `LoggingProofs`: routing | `RecordsAreAlwaysRouted` | any categories, appenders, contexts and configurations, tasks within tasks to any depth |
| `RequestProofs`: provider | `TypeCorrect`, `SettlesOnce`, `AnswersMatch`, `NothingRelayedTwice` | any set of requests |
| `RequestProofs`: signing request | `AnOpenedRequestIsTheOneMade`, `AWalletResolvesWhatWasAsked`, `APayloadIsWhatWasResolved` | any actions and data, chains, ABIs, signers, contexts, times and setters |
| `ClientProofs`: fetch provider, ABI cache | `TypeCorrect`, `ResponsesBounded`, `NothingTruncated`, `RequestsShared` | any accounts, lookups, bodies and limits |
| `ClientProofs`: API client | `AnswersAreAlwaysTrue` | any number of calls, of actions in each, of signers, upgrades and branches |
| `ClientProofs`: outposts | `CallsAlwaysAgree`, `VerifiedSuiteIsAlwaysLive` | any number of operations and amounts, all four deployments; any contracts, suites, upgrades and failures |
| `P2PProofs`: provider | `TypeCorrect`, `ProviderFailsClosed`, `ProviderIsAChannel` (the refinement) | any prefix, base, limit and messages, every cut of the stream |
| `P2PProofs`: client | `ListenersAlwaysHear` | any events and handlers, emissions within each other to any depth |
| `RequestProofs`: multisig reads | `BytesNeverMixed`, `QuietReadsAreAlwaysTheChain` | any number of reads, pieces, rows and changes, any contracts and limit of a scan, every strategy |
| `ArithmeticProofs`: swap quotes | `TradesAlwaysKeepTheProduct`, `SharesAlwaysKeepTheirWorth` | any snapshot of a pool and its yield, any amounts, shares and tolerances, in range or not |
| `ArithmeticProofs` | `ArithmeticIsAlwaysExact` | the quotes, and integers of any width, size and base, any amounts and precisions, RAM markets, samples, powerup states and natural exponents |
| `TextProofs`: keys | `SignaturesAlwaysVerify`, `KeysAreAlwaysRead` | any owners, messages, chains, transactions, accounts and nonces, keys of every type |
| `TextProofs` | `TextsAreAlwaysRead` | the keys, and names, slugs, symbols, assets, times, block numbers and bytes of any size, alphabets and bases of any size |

`Lists` holds the lemmas about lists that several of them need. An invariant of a
module that composes components which share no state is proved of each component's
own specification, of which the composed run is a part.

The invariants that make them inductive, and why the properties alone are not:

- `WalletBackground`. `SessionInv` adds to `SessionGuarded` that the deadline is at
  most `LockDuration` after the last use (`WindowSinceUse`): otherwise the check of
  the deadline says nothing of idleness. `VaultInv` adds to `PasswordOpensVault`
  what messages in flight carry (`CallsMatchVault`): a SAVE_STATE carries the
  session's password, which must still be the vault's when it is written, and an UNLOCK
  one that opened it. A SETUP breaks this for messages with another password, and only
  for them (`NoRivals`): it is what is left while no two in flight are rivals.
- `WalletPopup`. `PopupInv` has a part that holds whatever happens: every state there is, shown,
  served, sent, answered or stored, refers to nothing that is gone (`WorkerFits`, `PopupFits`),
  which every edit keeps (`EditsFit`); and a form awaits a message of its kind (`FormAwaits`).
  The rest holds while mishaps do not: a form is the only one under way, and what is shown, or will be
  with the answer that has come, is what is served (`FormsInTurn`, `ShownIsServed`); a message
  goes by what is served or, once it has written or read the vault, by what is in it
  (`MessagesMatch`), so without one what is served is stored (`ServedIsStored`).
- `PushLog`. A record's place is a partition of `1..appended` (`Placed`), over queues
  without repetitions and empty free slots (`Distinct`). `NobodyForgotten` rests on
  two facts: `flushDeferred` is set only while a PUT is left to clear it
  (`FlushingHasPut`), and a deferred that is kept belongs to a POST under way
  (`DeferredLive`), so whoever joins it is woken.
- `FirehoseLog`. The records tried, those being put and those that wait follow each other
  (`InOrder`), which is what "at most once" rests on: a batch, when it is put, is disjoint
  from everything that ended before. Those given up for room never waited again and were
  never tried (`EachPlaced`). That something attends to those that wait needs no invariant
  of the loads: each way to lose the credentials sets the timer or is a stall.
- `WalletProvider`. A message is in one place of the bridge (`OnePlace`), for a
  request that was made (`OnlySent`: so an id that was not sent has no stray
  answer), and names the request it answers (`AnswersNamed`).
- `AbiCache`. A lookup waits for what its account has pending
  (`WaitsForPending`), which no other account has, because a call that was started
  is not started again (`PendingOfOne`). For the bodies: nothing is read before
  the response, a buffer read at once has its room, only the timeout aborts.
- `P2PEnvelope`. While it is open, what the provider and the transport hold together is
  the frames of the messages sent and not delivered (`Framing`); where each ends is a
  function that exists, `Framed`. So the next complete frame is the next message, once
  `PrefixIsRead`: the number read from a prefix is the length written into it. Both are
  recursive functions of the module; the lemma `Induction` of `Lists` gets its least counterexample
  from the library's well-foundedness of finite subsets, because induction over an
  operator is out of reach.
- `FileLog`. Without an error, a record taken is in the queue, being written or
  written (`NothingLost`), and a queue is abandoned only with an error
  (`QueueAbandoned`). For the archives: what is written, being written and queued follow
  each other (`InTurn`); a roll, wherever it fails, moves a file only to the slot above it,
  which is empty or moved too unless it is the oldest, so it forgets that file or none
  (`Forgets`), and slots above the known archives are empty until a restart
  (`ArchivesKnown`).
- `MsigReads`. A read holds bytes only together with a row (`GotWell`), and reads chunks
  only of a row that has them (`ReadWell`). Then as many chunks as the row counts are all
  chunks of the proposal there is at that moment, of one generation, whichever it is: only
  the hash tells whether it is the row's. What a quiet read returns rests on what it holds
  at every step being what there is (`ReadsQuiet`), and on a promise of the capabilities
  that is under way having somebody who brings it about, and never resolving to "unknown"
  (`UnknownIsRetried`), which needs that a promise under way is not taken for what it resolves
  to (`CapabilitiesAssumption`). A row it did not find is one that is not there or one beyond the
  limit of a scan, which a read remembers it made (`scanned`).
- `LogRouting`. A task is in exactly the contexts it and its forebears were begun in
  (`InContextsEntered`), the forebears being the least set of tasks that has who began each of its
  members; a task that begins adds itself to its own only, because nobody has begun another before
  it runs (`BegunByRunning`).
- `P2PClient`. A listener is in one list and once (`ListsApart`); what an emission walks is
  the list of its event as it was, unless a listener prepended, so the next index is beyond
  those it called and whoever it has not called is still ahead (`WalkersWell`,
  `CalledOnce`); and what is gone went for one of the causes (`GoneForACause`). `filter` is
  `Selected` of `Lists`: its lemmas say that it keeps exactly the positions whose element
  is asked for, in order.
- `ApiClient`. What a call holds is of the moments since it began: its ABI (`EncodedSince`), its
  signer (`SignerStays`, `SignedAsBuilt`), its header, whose expiry only grows. A block holds
  what a call had executed, each its own (`IncludedIsExecuted`, `ExecutedIsIncluded`).
- `OutpostWallet`. The strengthening of "what is signed succeeds unless something changed" runs
  through a call's steps (`CallRight`): while it reads, what it has read is what the block had
  (`SeenRight`) and what matters still is (`SameAsBlock`); once it signs, the
  transaction would succeed on the chain of this moment. Every move of the chain either keeps that
  or marks the call as changed; a transaction of the account marks the calls that depend on it.
- `OutpostVerification`. The suites given up are a prefix of the candidates, and none of them was
  live (`VerdictRight`); what a reader has passed is so until an upgrade (`ReadersRight`).
- `SigningRequest`. `SigningInv` ties each stage to the one before: the setters keep the
  version, the chain and what is asked of the request as it was made, and no key of the info twice
  (`MadeAsAsked`); the URI is an encoding of the request, which cannot change any more; the
  wallet's object is what that URI opens to; and what is resolved, the payload and what is
  recreated are what their operators give of it. The rest is about those operators:
  reading the info after it was written gives what was written, actions of placeholders
  resolve field by field (`IsPrefix` when the ABI lost some), and a request that is
  resolved again for the signer, the chain and with the header of its payload gives the same
  transaction, at whatever time.
- `SwapQuotes`, which has no state. `Quotient` holds a quotient between two bounds by what it
  leaves. What is rounded down for the asker (a trade's output, a burn) and up against it (a
  mint, its fee) is then compared by products alone: the leg that gives keeps at least its share
  of the old product (`ProductIsKept`), and the way back is a quotient of what is kept
  (`BackIsNoMore`). A snapshot out of range is refused before that (`YieldInRange`, `StateOfQuote`).
- `ChainKeys`, which has no state either. Bytes are sequences of parts with a size each
  (`ByteCount`, whose values `ByteCountValues` gives), so that taking a prefix of as many bytes
  as a type has finds the parts again (`ArrayIsRead`). A signature in each of its five layouts is then what
  was made of the digest by the secret (`SignatureIsCarried`), whatever text or bytes it goes
  through; it verifies for that digest and that owner's key on its curve alone (`SignatureVerifies`,
  from the curves being ideal), and digests differ where what is signed does (`SigningBytesDiffer`,
  `PayloadsDiffer`). For texts of keys: another type's label makes another check
  (`WrongCheck`), and a text without a check has no form that is read under it (`NothingIsRead`).
- `ChainIntegers`, which has no state. A value in a type of n bytes is a residue; a cast and an
  operator give it back because remainders of sums, differences and products are
  those of their remainders (`RestOfSum`, `RestOfRest`), and a sign is half of a power
  (`HalfIs`). How many digits a number needs exists and is the least (`DigitCountIs`),
  which is what "truncate" goes by: `BytesOfNegative` and `TruncateIs` show where it is right, and
  leave the range of the finding. `Number` reads digits by a recursive function
  (`ReadingIs`), of which there is one (`OneReading`), so an amount written with its point, its zeros
  in front or none is the amount that is read (`FormattedIs`, `AmountIsRead`).
- `ResourcePricing`. What is paid for RAM keeps the product of the market (`RamIsPaid`). A powerup's
  price is a sum of two parts, below and above what is in use, and each grows with what is asked and
  with what is used: the part above is a difference of powers, which spreads as the base
  grows (`PowersSpread`, an induction over the exponent), and quotients are compared by
  products (`FeeGrows`, `PricesAlwaysGrow`).
- `ChainText`. A list of digits and the number it reads as determine each other but for zeros in
  front (`NumberIsRead`, `DigitsAreRead`); a list has the digits of its number in another
  base, the fewest (`FewestDigits`), and zeros in front are carried beside them, which gives
  base 58 (`Data58IsRead`, `Text58IsRead`, `SizedData58IsRead`, whose loop over a buffer of a fixed size
  meets the same number). Base 64 is the same, four digits for three bytes at a time, which
  have the same number of values (`BasesOf64`, `ChunksAre`). A name is
  its characters without the dots behind (`TrimmedExists`), the last in a narrower cell
  (`PackedNameIsRead`); a slug fills its cells (`SlugInCells`); a symbol's letters are read in reverse
  above its precision (`SymbolIsRead`). A time is rounded to its unit and an exact one is not
  moved (`RoundedTo`, `RoundedExactly`).
- `DeferredPromise`. Flags and promise settle in the same turn, except where a deferred wraps
  a promise, whose `then` sets the flags a turn later.

Induction over data is out of the provers' reach as a rule with an operator for parameter; the
lemmas of `Lists` (`LeastNumber`, `Induction`, `InductionBelow`) state it for sets of
numbers instead, from the well-foundedness of finite subsets, and everything about
recursive functions rests on them.

Only model-checked: everything under fairness (`LocksWhenIdle`, `PromisesSettle`,
`RecordsArrive`, `CloseEnds`, `EverythingArrives`, `CallsEnd`, `ReadsEnd`), which is beyond the
prover, and the serializer, tables and clients (`DataIsFaithful`), whose definitions are
`RECURSIVE` as the code's are, for types contain types. Every other
invariant and action property of a passing run is stated by a theorem above.

## 5. Findings

Run `int_truncate` ends with a counterexample: a negative number that is cast with
"truncate" is not truncated to its bit pattern when its two's complement begins with
zero bytes, for it is taken as the fewest bytes it needs and filled up with 255.
`UInt16.from(-65535, "truncate")` is 0xFF01 (`packages/sdk-core/src/chain/Integer.ts:882`
against the comment at line 32).

Run `wallet_setup`: a popup shows the set-up form until it has heard of a vault
(`UnlockView.tsx:93`, with `hasVault` false at first, `WalletSlice.ts:37`), and SETUP writes
without looking (`Background.ts:74`), so an existing vault is replaced by an empty one, where
`packages/wallet-browser-ext/README.md:232` has SETUP initialize a new vault.

Run `msig_unknown`: a failed `get_abi` gives an unknown profile that supports nothing, for
which `selectReadStrategy` throws (`msig/Client.ts:508`): the view is lost, against
`Capabilities.ts:244`.

Run `firehose_retry`: the batch whose token has expired is lost
(`AWSFirehoseAppender.ts:168`), where `packages/shared/README.md:146` promises "Automatic
retry on expired token errors"; records a put refuses are logged as requeued (`:160`) and are not.

Run `log_exclusive`: `exclusive` of a context (`LogContext.ts:28`: "only use this config in
context") is never read, so its records reach the manager's appenders too.

The models show the following as well, or it was seen while writing them. Where a
property would say the opposite, it names the case as an exception, or is kept as an
operator without a run.

Wallet:

- SAVE_STATE replaces the served state before its `await` and nothing orders it against
  another SAVE_STATE or an UNLOCK: after success the vault can hold an older state than
  the one served (`SavedStateIsDurable` with two calls), where the wallet's README says
  "Encrypt and persist updated state" and "single source of truth".
- An UNLOCK in flight when LOCK is handled opens the wallet again afterwards.
- The page is told of a timeout although the worker signs later: who retries has two
  signatures. `waitForProvider` (`wallet-ext-sdk/src/Client.ts:47`) goes on polling after
  its timeout. The README promises lock and unlock events; the worker sends none.
- A second SETUP, after the popup was closed with the first under way, replaces its vault; one
  that overlaps a SAVE_STATE with another password can leave a session whose password does
  not open the vault.
- The popup's store keeps the keys after a lock. When the wallet locks itself while the
  popup is open, edits are refused and the toast still says success, for nobody awaits
  `persistState`. Editing the active account leaves a key selected it no longer lists.

Logging:

- Push log: the guard of `flush()` is read before an `await` and set after it, so two
  batches can be in flight and a refused one comes back behind newer records
  (`OneBatchInFlight`). A failed fetch of credentials rejects a deferred nobody awaits
  (`RejectionsHandled`). A fetch in flight at `destroy()` schedules a refresh afterwards,
  and so on for ever (`QuietAfterDestroy`).
- Firehose: with an endpoint slower than 100 ms each load is forgotten for the next one
  before it ends; appends more frequent than that postpone loading for ever. A failing old
  load forgets newer credentials. `destroy()` before any load throws. Rejections of the
  flush an `append()` starts are not handled.
- Routing: contexts and overrides can only log more than the root level. A throwing appender stops those after it. The default console
  appender stays if something was logged before the manager was configured;
  `setAppenders(manager.appenders)` empties the list; a second `getLogger` ignores its
  options; a pattern with the flag `g` matches every other time; where there is no context
  provider contexts are ignored.
- Deferred: the promise of a cancelled one never settles. One that wraps a promise does
  not set its flags when that settles, so a later `resolve()` sets flags that contradict
  it. Cancelling after settlement reports it as cancelled.
- File appender: the archives of an earlier process are not known and the newest is
  overwritten first; with `maxFiles` 1 the file grows past `maxSize`.

Peer to peer:

- A once listener that is added during an emission, after a removal or in a nested one, is
  dropped without having been called; one is called twice after a throw or a nested
  emission. The heartbeat's timer is not kept: it goes on after `end()` and `destroy()`.

Requests to nodes:

- ABI cache: a rejected request stays in `pending`, so every later lookup of that account
  fails until `setAbi` (`FailureForgotten`); a late answer replaces what `setAbi` stored.
- `pushTransaction`: a lost answer or the deadline of the wait is reported as a failure
  though the transaction was executed, and a retry in another second executes it again;
  two identical calls in one second are one transaction, of which the second is refused.
  What is awaited for finality is a block number, which a fork may give to another block.
  The key's type is read before the requests and the signature made after them. The
  known ABIs are found by object identity, so prepared actions refetch theirs. An ABI that
  is replaced between its request and the push is not noticed.
- `get_table_rows`: bounds of types Float64, Float128 and Name set no key type, where
  `Types.ts:623` says so. Whether rows are of the key-value shape is decided by the first
  one; an unsupported type throws only if there is another page; `getRows` is reversed by
  default, so its next key must be given as an upper bound; it changes the options given.
- Contract clients: options with an explicit `undefined` scope override the default.
- Multisig: approvals may belong to a later proposal of that
  name, which a detail cannot tell. A row that is looked for without
  a bound, or with one the contract does not know, is not found behind 1000 others: an unknown
  profile or one from before an upgrade reads null for approvals that exist. More than 1000 chunk
  rows cannot be read.
- Outposts: a node-owner commit that is retried after its confirmation was lost commits a
  second unit; two requests of a legacy Solana program race for the next receipt id.

Signing request:

- `sig0` of a callback is the request's second signature, not the first as its type says.
  A setter after signing leaves a stale signature. `setBroadcast(true)` on an identity
  makes a URI that is refused. A request that inflates to more than 1 MiB can be encoded
  and not opened; `fromSigned` compresses what `getTransaction` refuses to inflate. A
  partial TAPoS is not filled in. A multi-chain identity without scope throws.
  `IdentityProof.fromPayload` of a request that inflates to more throws, too.
  `args.info` with a key "chain_ids" beside `chainIds` gives two pairs, of which one
  getter reads the first and one the last. A value set without a type cannot be read with
  one, and conversely.

Serializer and chain types:

- An optional field that is false or "" is dropped by the constructor of a Struct class
  and written as absent. With strict extensions two fields of one type are refused as
  circular; a type without a default has none as a missing extension; a circle through a
  variant exhausts the stack. A missing extension of an alias or array type decodes and
  cannot be encoded; a missing one before a present one shifts the fields.
- JSON null for an alias of an optional type is refused. Two names for one number of an
  enum read back as the first. Untagged arrays of two that start with a string are taken
  for tagged variants. Objects without a type: an array field is declared as its element
  type, two nested objects of one depth share a name. `abiDecode` adds to the caller's
  `customTypes`. Objects and encoding have no depth limit; arrays of elements without
  bytes can be encoded and not decoded.
- VarInt and VarUInt accept values of 2^32 and more and encode them wrongly. "floor" and
  `divCeil` round toward and away from zero. `UInt256.from({low, high})` is not scaled.
- The native text of an R1 key throws; that of an EM key is the 33-byte key, not an
  address. A legacy text of an EM key is read as K1; texts without a valid checksum fall
  back to hex or to base 58 without a length; `evmSigToWire` makes an "EM" text that
  `Signature.from` refuses. A padded ED signature is 65 bytes when written and 64 when
  read. `getSignedTransaction` drops context-free data.
- `BlockId.fromBlockChecksum` overwrites the checksum it is given; block numbers from 2^31
  are negative. Equality of times is not symmetric and ignores microseconds. A sized
  base 58 decode accepts missing or extra leading zeros. `slugValue` accepts packed values
  that have no text. `Bytes.isBytes` accepts any string with a hex digit.
- A swap whose fee takes everything gives 0 and is not refused. Powerup prices use integer
  quotients, so what is less than the whole weight costs 0; `divCeil` of the resources
  subtracts one where it would add.

## 6. What is not modelled

`PROJECT.json` lists each component with its status; `partly` and `not_modelled`
ones carry the reason. In short:

- Curves, hashes, ciphers and compression are ideal; the layouts of BLS points and their
  pairing, key generation and shared secrets are not modelled. Byte helpers
  (`Bytes`, checksums, hex) are identities on what the models call bytes.
- The typed calls of the API clients are one request each; their response types and the
  generated contract types hold no logic.
- The builders of msig actions and transactions, the listing of proposals, the typed
  wrappers of authex, chains and tokens, and REX prices.
- The popup's views are rendering: what their handlers change is in `WalletPopup`, what
  they show is not; nor is the validation of names, keys and URLs.
- Of the wallet's bridge, events and the provider's listeners are left out: the worker
  never sends one. Several pages, and several workers' ports, do not share state on the
  page's side; one page is modelled.
- Of the outposts, the contracts behind the clients, the accounts of a Solana instruction,
  manifests and digests.
- `chrome.storage` is assumed to execute a worker's operations in the order they are
  issued, as Chrome documents; the file system is assumed to make a rename atomic.
- `FileLog` models a configured `maxFiles`; without one the appender never rolls
  over old archives.
