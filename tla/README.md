# TLA+ models of the akash-api Python client

This directory holds TLA+ models of the Python client in
`src/python/src/akash_api`, and the TLC configurations that check them.
The models cover the code that has state and concurrency: the transaction
pipeline and the broadcaster (`TxPipeline`), the gRPC client's channel
management (`GrpcChannel`) and the async client's lifecycle
(`ClientLifecycle`). `TxBuild` models the message builders, the assembler
and the signer at the level of the dicts they build and the bytes they
sign. `TxSubmission` is an abstract specification of a submission, and
`TxPipeline` is checked to implement it. `SyncApi` models the synchronous
API, `AkashClient` and `SyncGrpcWrapper`, with the wrapped gRPC client
composed in as an `INSTANCE` of `GrpcChannel`.

## 1. Inventory

### Components

| Component | Source | State it keeps | Operations |
|---|---|---|---|
| Wallet | `transaction.py` 40-86 | private key, compressed public key, bech32 address (immutable) | `from_private_key`, `from_mnemonic` (not implemented) |
| Message builder | `transaction.py` 116-189, 311-348 | none | `create_deployment_msg`, `create_bid_msg`, `create_lease_msg`, `_sdl_to_groups` |
| Transaction assembler | `transaction.py` 191-243 | none | `create_transaction` (fee = `int(float(price) * gas_limit)`, one signer_info with the sequence) |
| Signer | `transaction.py` 245-279, 350-358 | none (mutates the transaction dict in place) | `sign_transaction`, `_encode_body`, `_encode_auth_info` |
| Broadcaster | `transaction.py` 281-309 | a fresh aiohttp session per call | `broadcast_transaction` |
| Async client: transactions | `async_client.py` 218-351 | none beyond the client's fields | `create_deployment`, `create_bid`, `create_lease`, `_get_account_info` |
| Async client: lifecycle and queries | `async_client.py` 37-215, 353-400 | `_exit_stack`, `_rest_session`, `_grpc_client`, `_transaction_signer` | `__aenter__`, `__aexit__`, `get_*`, `grpc_query_*`, `stream_deployment_events`, `health_check` |
| gRPC client | `grpc_client.py` 38-279 | `_channel`, four cached stubs, `max_retries`; `SyncGrpcWrapper.loop` | `_get_channel`, `close`, `query_*`, `stream_deployment_events`, `health_check`, `__aenter__`/`__aexit__`, the sync wrappers |
| REST client | `client.py` | endpoint and timeout only; the `requests` stand-in when the package is missing | parameterised GETs, `health_check` |
| Generated stubs, exports, examples | `akash/*/query_pb2_grpc.py`, `__init__.py`, `examples/` | none | generated code, re-exports, printing |

### How the components interact

A `create_*` call on `AkashAsyncClient` runs as one asyncio coroutine. It
first awaits a REST GET of the account. It then builds the message, the
`TransactionInfo` and the transaction, and signs it. Last, it awaits a
JSON-RPC `broadcast_tx_commit` POST. The middle part has no await, so no
other coroutine runs during it. The chain is external: it keeps the
account's sequence and accepts a transaction only when its sequence is the
next one and its signature (which covers `account_number`) verifies.

The REST node (`rest_endpoint`) and the RPC node (`rpc_endpoint`) are
different endpoints, so the REST view of the sequence can lag the chain.
Nothing in the client serialises calls for one wallet.

The gRPC client shares one lazily created channel between all its queries.
`close()` closes the channel and clears the reference. grpc.aio's
`Channel.close()` without a grace period cancels the channel's calls and
closes it without suspending, so no other coroutine runs in between. The
async client owns the REST session and the gRPC client through an
`AsyncExitStack`.

### What is hard

- Interleaving: concurrent `create_*` calls for one wallet read the same
  sequence. Concurrent gRPC health checks and streams wait on a channel
  that another coroutine's `close()` may close under them. Two tasks entering one `AkashAsyncClient` overwrite each
  other's exit stack (not modelled: the lifecycle caller is one task).
- Stale state: the REST sequence lags the chain. Cached gRPC stubs outlive
  their channel. The client's fields outlive `__aexit__`.
- Unreliable delivery and timeouts: the broadcast request or its response
  may be lost. The wait ends only by aiohttp's default timeout, and the
  chain may still commit the transaction after the client has given up.
- Retries: a caller retry after a network error re-reads the sequence and
  signs again, so it can commit the intent twice.
- Partial failure: `json.dumps` of the sign doc always raises `TypeError`
  (the doc holds `bytes`). This is plain from line 269 and takes one step
  of one call, so no run is spent on it; the other runs use a working
  encoder (`SignDocEncodes = TRUE`) to check the rest of the pipeline. `__aenter__` can raise after the session was
  entered into the exit stack.
- Liveness: gRPC `health_check` awaits `channel_ready()` without a timeout,
  and `SyncGrpcWrapper` blocks its thread on it in `run_until_complete`.
- Numeric edges: the fee truncates where the spec says ceil.
  `max_retries <= 0` makes `query_deployments` return `None`.

### Properties that make each component correct

- Pipeline and broadcaster: the pipeline implements `TxSubmission`
  (`ImplementsSubmission`): what a call reports agrees with what the chain
  did with its transaction, and every call finishes. An intent is
  committed at most once (`AtMostOnceEffect`). An unknown account is
  never signed with (`SignedWithResolvedAccount`).
- Signer: two signatures over the same bytes cover the same
  chain, account, auth info and messages (`SignBytesBindTx`).
  The same request yields the same bytes, whatever the key order of the
  caller's dicts (`CanonicalSignBytes`).
- Assembler: fee = ceil(price x gas_limit), and gas_limit > 0
  (`FeeAsSpecified`).
- gRPC client: only the type invariant (`TypeOK`). With `close()` a
  single step, a handed-out channel is never closed and none is orphaned
  by the shape of the code, so no property is stated for it.
- Synchronous API: every call returns to the calling thread
  (`SyncCallsReturn`).
- Async client lifecycle: outside `async with`, no session or channel is
  open, also after a failed enter and after calls made after exit
  (`ScopeReleasesResources`).

## 2. Plan

Modules, in order of importance:

1. `TxPipeline` (done): the transaction pipeline, broadcaster and the
   environment (chain, REST node, RPC node, lossy network, retrying
   caller). `MCTxPipeline` instantiates it.
2. `GrpcChannel` (done): `AkashGrpcClient` channel and stub management, with
   concurrent queries, `close()`, the stream and `health_check` as
   coroutines.
3. `ClientLifecycle` (done): `AkashAsyncClient.__aenter__`/`__aexit__`
   and the guards of every public method. The gRPC client is abstracted
   to whether it holds an open channel.
4. `TxBuild` (done): the fee, the message builders and the signer, with
   `json.dumps` modelled by what it does (key order, `sort_keys`, the
   `TypeError` on `bytes`) and the ECDSA nonce as a nondeterministic
   choice.
5. `TxSubmission` (done): the abstract specification of a submission.
   `TxPipeline` implements it through a refinement mapping, retries
   included, because the abstraction is per submission; the duplicate
   commit of an intent is shown by `AtMostOnceEffect` instead.
6. `SyncApi` (done): `AkashClient` and `SyncGrpcWrapper` used by one
   blocking thread, with the wrapped `AkashGrpcClient` as an `INSTANCE`
   of `GrpcChannel`.
7. Still to do: compose `GrpcChannel` into `ClientLifecycle` through
   `INSTANCE`, because `__aexit__` closes the gRPC client while other
   coroutines may be using it. Every outcome of that composition found
   so far is either the sequential case `lifecycle_safety` already checks
   or a task that starts a call after the exit. `ClientLifecycle` checks
   that case with `CallsAfterExit = TRUE` (`lifecycle_after_exit`), where
   the call leaks a channel.

## 3. Modules and runs

### TxPipeline

State:

| Variable | Meaning |
|---|---|
| `pc[c]` | where coroutine `c` is: `idle`, `account` (awaiting the GET), `broadcast` (awaiting the POST), `done` |
| `result[c]` | what the last run returned or raised: `ok`, `rejected` (the `"error"` member), `network` (transport error or timeout), `sign_error` (the `TypeError`) |
| `tx[c]` | the signed transaction, abstracted to its run, its `account_number`, its `sequence`, and whether the account was resolved |
| `accExists`, `chainSeq`, `committed` | the chain |
| `restView` | the lagging REST view of the account |
| `rpcReq`, `rpcResp` | requests and responses on the wire |

Actions:

| Action | Code |
|---|---|
| `CreateDeployment`, `CreateBid`, `CreateLease` (via `Invoke`) | the start of each `create_*` up to the GET in `_get_account_info` |
| `AccountInfoFails` | `raise_for_status` or a transport error / `ClientTimeout` |
| `AccountInfoReturns` | the parse with its `0` defaults, then `create_transaction`, `sign_transaction` and the POST, all in one step |
| `BroadcastReturns` | reads its own response and raises on `"error"` |
| `BroadcastTimeout` | the default aiohttp timeout |

Environment actions:

| Action | What it stands for |
|---|---|
| `NodeProcess` | the RPC node checks and commits a transaction |
| `LoseRequest`, `LoseResponse` | the network drops a request or a response |
| `FundAccount` | the account comes into existence |
| `RestSync` | the REST node catches up with the chain |
| `CallerRetry` | a caller that re-issues a call after a network error, as the spec allows |

The constant `SignDocEncodes` selects what `json.dumps` of the sign doc
does. `FALSE` is the code as shipped: it raises. `TRUE` stands for a
working encoder, which lets the rest of the pipeline be checked.

Fairness: weak fairness on each coroutine's two await completions, each
taken as answer-or-timeout. asyncio runs every ready coroutine. The REST
session has `ClientTimeout(total=timeout)`. The broadcast session has
aiohttp's default total timeout of 300 s. So every await ends. Nothing is
assumed of the network, the node, the caller or the REST node.

Runs (all use `MCTxPipeline` with two coroutines, `AccNum = 5` and
`MaxRetries = 1`):

| Run | Expect | Checks | What it shows |
|---|---|---|---|
| `pipeline_safety` | pass | `TypeOK`, `ImplementsSubmission` | With a working encoder, over every interleaving of two calls, lost messages, late commits, REST lag and a caller retry, the pipeline implements `TxSubmission`: each call reports what the chain did with its transaction, and every call finishes. 62k states. |
| `unknown_account` | violation | `SignedWithResolvedAccount` | An unknown account is signed as account 0, sequence 0. |
| `retry_duplicate` | violation | `AtMostOnceEffect` | The sequence of steps is: the broadcast times out, the node commits late, the REST node syncs, the caller retries, and the chain commits the intent again. |

Bounds:

- Two coroutines are the least that can race on a sequence.
- One retry is the least that can duplicate an intent.
- The sequence is bounded by the number of transactions that can exist,
  which is `Cardinality(Calls) * (MaxRetries + 1)`.
- The account may or may not exist initially, and `FundAccount` creates
  it, so both REST answers happen.

The runs stop when every call is done. This is the program's real end, so
deadlock is not checked.

Refinement mapping (the end of `TxPipeline.tla`): a transaction is the
submission `<<call, attempt>>`. A coroutine in `account` or `broadcast`
is `pending`. `inflight` is the set of requests on the wire, and
`committed` the submissions on the chain. `attempt` and `result` map to
themselves. A lost response or a timeout is `Finish` with `network`, a
node that rejects is `Drop`, and a lost request is `Drop` too.

### GrpcChannel

State: `channel` is `self._channel` (0 for `None`). `chanState[ch]` is each
channel's life: `unused`, `open`, `closed`. `stub[s]` is the channel each cached stub was built on. Per
coroutine `w`: `pc[w]`, `waitCh[w]` (the channel its pending await is on),
`left[w]` (stream events still to yield), `result[w]`.

| Action | Code (`grpc_client.py`) |
|---|---|
| `GetChannel`, `NewChannel`, `HandedChannel` | `_get_channel` 78-91: create a channel when `_channel is None`, hand out `_channel` |
| `CacheStub(s)` | `if self._x_stub is None: self._x_stub = ...QueryStub(channel)` |
| `QueryDeployments` ... `QueryCertificates` (via `Query`) | the five query methods. None of them suspends: the channel context has no await before its yield and the body returns a placeholder. `QueryDeployments` returns `None` when `max_retries <= 0` |
| `StreamStart`, `StreamYield` | `stream_deployment_events` 155-173, split at its `yield`/`sleep` |
| `HealthStart`, `HealthReady`, `HealthAborted` | `health_check` 221-229: the wait on `channel_ready()`, its success, and the cancellation raised when the channel is closed (caught, `False`) |
| `Close` | `close()` 93-97 as one step: `Channel.close()` with no grace does not suspend, so the close and `self._channel = None` happen together |

Fairness: weak fairness on every await completion (`StreamYield`,
`HealthReady`, `HealthAborted`). Starting a call is up to
the caller and is not fair. `HealthReady` is enabled only when the server
is reachable: `channel_ready()` has no timeout, so nothing else ends
that wait.

| Run | Expect | Checks | What it shows |
|---|---|---|---|
| `grpc_safety` | pass | `TypeOK` | Four coroutines mixing every method and `close()`: every variable keeps its type, and every stream ends after exactly `StreamLen` events. 35k states. |

Bounds:

- Four coroutines, so that a health check or a stream waits on a channel
  that a `close()` closes and a later query replaces, while a fourth call
  runs.
- The stream yields 2 events instead of the code's 5. Its interleavings
  with `close()` are the same from the second event on.
- `max_retries` is 3, the code's default.

The cached stubs outliving `close()` are in the model (`stub[s]` keeps
its channel), but no run checks them any more: a stale stub on a closed
channel raises on its next call, which a test reaches easily.

The `health_check` that never returns against an unreachable endpoint is
shown through the synchronous wrapper, in `sync_health_hang` (see
`SyncApi`).

### ClientLifecycle

State: the client's fields `exitStack`, `restSession`, `grpcClient` and
`signer`, where the k-th `__aenter__` creates object k. `session[k]` and
`chan[k]` are the k-th aiohttp session and the k-th gRPC client's
channel. `grpcInStack[k]` records whether gRPC client k was entered into
exit stack k. `conf` holds the constructor arguments (aiohttp installed,
gRPC endpoint given, RPC endpoint given); `Init` ranges over all eight
combinations. `ProtobufAvailable` and `CryptoAvailable` are constants:
they decide whether the gRPC client's and the signer's constructors
raise.

| Action | Code (`async_client.py`) |
|---|---|
| `AEnter` | `__aenter__` 65-84, stopping at the first constructor that raises, with the fields set so far kept |
| `AExit` | `__aexit__` 86-89: `aclose()` closes the session and the gRPC client. The fields are kept |
| `RestQuery`, `RestOutcome` | the `get_*` guard on `_rest_session`, and aiohttp's `RuntimeError` on a closed session |
| `GrpcQuery` | `grpc_query_*` and `stream_deployment_events`: the guard, then a call that creates a channel if none exists |
| `CreateTx` | the signer guard and `_get_account_info`'s session guard (the rest is `TxPipeline`) |
| `HealthCheck` | `health_check` 354-385 |
| `GrpcConstructorRaises`, `SignerConstructorRaises` | the `if not ..._AVAILABLE: raise` of `AkashGrpcClient.__init__` and `AkashTransactionSigner.__init__` |
| `GrpcClientExit` | `AkashGrpcClient.__aexit__`, which awaits `close()` |

| Run | Expect | Checks | What it shows |
|---|---|---|---|
| `lifecycle_safety` | pass | `ScopeReleasesResources` | With every library present and calls made only inside the block, three consecutive `async with` blocks in every configuration leave nothing open. |
| `lifecycle_after_exit` | violation | `ScopeReleasesResources` | A `grpc_query_*` made after the block passes the guard on the stale `_grpc_client`; the closed gRPC client's `_get_channel` opens a new channel, which nothing closes. |
| `lifecycle_enter_failure` | violation | `ScopeReleasesResources` | If protobuf is missing, `__aenter__` raises after the session was entered into the stack, and the session is never closed. |

Bounds: three enters, so that a re-entry after an exit, and a re-entry
after a failed enter, both happen. The caller is one task, so there is
no fairness.

All these runs stop when the caller stops, so deadlock is not checked.
Calls after `__aexit__` are enabled by `CallsAfterExit`:
`lifecycle_after_exit` uses two enters, enough for a call after the
first exit and a second block after it.

### TxBuild

State: `wallet` (the imported `Wallet`), `msg` (the last message built),
`tx` (the transaction dict from `create_transaction`), `signed` (the
signatures produced, each with its sign bytes, what it covers and what
was requested), `raised` (the last exception).

Python values are records: `Str`, `Bytes`, `List` and `Dict`, where a
dict is a sequence of key/value pairs in insertion order. `Dumps(x,
sortKeys)` is `json.dumps`: it keeps the insertion order, or sorts the
keys by code point (`KeyOrder`) when `sort_keys=True`, and `HasBytes`
says when it raises `TypeError`. `str()`, base64, SHA-256, RIPEMD-160,
bech32 and ECDSA are tagged tuples: distinct inputs give distinct
outputs, which is all the properties need.

| Action | Code (`transaction.py`) |
|---|---|
| `ImportWallet` | `Wallet.from_private_key` 57-86: a valid key gives the wallet, a bad one raises `ValueError` |
| `FromMnemonic` | `Wallet.from_mnemonic` 47-55: raises `NotImplementedError` |
| `BuildDeploymentMsg`, `BuildBidMsg`, `BuildLeaseMsg` | `create_deployment_msg` / `create_bid_msg` / `create_lease_msg` 116-189, with `_sdl_to_groups` 311-348 |
| `AssembleTransaction` | `create_transaction` 191-243: body, one `signer_info` with the sequence, fee `int(float(price) * gas_limit)` |
| `SignTransaction` | `sign_transaction` 245-279: the sign doc, `json.dumps(..., sort_keys=True)`, the signature appended to `signatures` |

The constant `SignDocEncodes` selects the sign doc as in `TxPipeline`.

| Run | Expect | Checks | What it shows |
|---|---|---|---|
| `txbuild_safety` | pass | `SignBytesBindTx` | Two signatures over equal bytes always cover the same chain id, account number, sequence and messages. Dropping `chain_id`, `auth_info_bytes` or `account_number` from the sign doc breaks it. 135k states. |
| `fee_rounding` | violation | `FeeAsSpecified` | With gas limit 200001 the fee is 5000 uakt, where the ceil of 5000.025 is 5001. |
| `canonical_version` | violation | `CanonicalSignBytes` | Two deployments from the same SDL, given with its keys in different orders, sign different bytes: the `version` field is `json.dumps(sdl)` without `sort_keys`. |

Bounds: one valid and one bad key, and two signatures. `txbuild_safety`
draws from two chain ids (`ChainIds`), two account numbers and two
sequences, so that two signed transactions can differ in each field of
the sign doc: chain, account, auth info (through the sequence) and body
(through the message kind). It takes one key order of each caller dict,
and one nonce, because the nonce is not part of the signed bytes.
`canonical_version` takes every caller dict (SDL, order id) in two key
orders and one chain and sequence, so that the key order of the
input is the only difference between two requests. Gas 200000 is the code's default; 200001 is the least gas
limit at which truncation and ceil differ for price 0.025.

### TxSubmission and the refinement

`TxSubmission` has the calls' `status`, `attempt` and `result` and the
sets `inflight` and `committed` of submissions. `Finish` may report `ok`
only for a committed submission and `rejected` only for one that is
neither committed nor in flight. Its fairness, weak fairness on `Finish`
for each call, is what `TxPipeline`'s fairness on the await completions
delivers, so `ImplementsSubmission` also checks that every call
finishes.

### SyncApi

One thread uses the synchronous API. `AkashClient` (`client.py`) sends
one blocking `requests.get` per method. `SyncGrpcWrapper`
(`grpc_client.py` 236-279) runs each coroutine of its `AkashGrpcClient`
with `run_until_complete` on a loop of its own. The client is
`G == INSTANCE GrpcChannel WITH Workers <- Calls`, with one worker per
wrapper call, so the channel, the stubs and `health_check` are exactly
`GrpcChannel`'s.

State: `GrpcChannel`'s variables, `loop` (`self.loop`), `running` (the
coroutine `run_until_complete` is running, or `NoCall`) and `rest` (the
last `AkashClient` answer).

| Action | Code |
|---|---|
| `RestQuery` | the six `get_*` methods of `AkashClient`: paths and parameters, then `_make_rest_request` |
| `RestHealthCheck` | `AkashClient.health_check`: `True` unless the request raised |
| `RestAnswers`, `MockAnswer` | `_make_rest_request`: data, or `AkashClientError`; without `requests`, the stand-in's placeholder |
| `QueryDeployments` ... `HealthCheck` (via `RunAsync`) | the wrapper methods: create the loop if there is none, then the coroutine's first step (`G!QueryBids(w)`, `G!HealthStart(w)`, ...) |
| `Close` | `close()`: `if self.loop`, the client's `close()` |
| `Resume` | the loop resumes the coroutine at its await (`G!HealthReady`, `G!HealthAborted`) |
| `Return` | `run_until_complete` returns; after `close()` the loop is closed and set to `None` |

While a coroutine runs, the thread makes no other call, so only that
worker's steps of `G` are enabled. Fairness is weak fairness on `Resume`
and `Return` for each call. `run_until_complete` keeps running its loop
until the coroutine finishes, so the coroutine resumes whenever its
await can complete.

| Run | Expect | Checks | What it shows |
|---|---|---|---|
| `sync_health_hang` | violation | `SyncCallsReturn` | With the gRPC endpoint unreachable, a wrapper `health_check()` never gives the thread control back. Nothing can close the channel, because the thread is blocked. `AkashClient.health_check` instead returns `False` after its timeout. |

Bounds: three wrapper calls, so that a call after `close()` runs on a
new loop. With `ServerReachable = TRUE` the same property holds (3.6k
states), so the hang is exactly the unreachable endpoint. With
`RequestsAvailable = FALSE`, every `AkashClient` query returns the
stand-in's placeholder and `health_check` returns `True`. That case is
in the model, but no run is spent on it.

The run stops when the thread is blocked or has made its calls, so
deadlock is not checked: the property is what reports the blocked thread.

## 4. Not modelled

- The generated stubs, the package exports and the examples.
- Wallet key derivation: pure calls into `ecdsa`, `hashlib` and `bech32`,
  none of which is in this repository.
- The message contents: they are abstracted to the fields the chain
  checks.
- The multi-message and multi-signer cases: the code never builds them.
- The paths and query parameters `AkashClient` builds: no property
  depends on them. They are dropped, as `get_deployments` drops a falsy
  `dseq`, `owner` or `state`, while `get_bids` and `get_leases` drop only
  `None`. A `dseq` of 0 is no chain's deployment sequence.
- `requests`' timeout bounds each socket read rather than the whole
  request, so a node that trickles its answer can hold `AkashClient`
  longer than `timeout`. The model takes each request as one step.
- Signature determinism: the nonce is a nondeterministic choice in
  `SignTransaction`, so two signatures over the same bytes differ, but no
  run is spent on it, because the chain does not require deterministic
  signatures.
- Amount validation: `AmountText` keeps the caller's string as given, and
  no property checks it.
- `max_retries <= 0` making `query_deployments` return `None`: this is
  in `QueryDeployments`, but no run checks it, because it needs only
  one step of one coroutine.
- Larger instances of `TxPipeline`: with three coroutines, or with two
  caller retries, `pipeline_safety` does not finish within five minutes
  (two retries reach more than 1.3 million distinct states in six
  minutes). Two coroutines with one retry already cover every
  interleaving that two of them can produce: both reading one sequence, a
  late commit after a timeout, and a retry that races its own first
  submission.
- `create_bid` and `create_lease` after their first await: they run the
  same steps as `create_deployment` and differ only in which message
  they build and in the default `gas_limit`. `AccountInfoReturns` stands
  for all three, and `TxBuild` models the three messages and the gas.
- `create_async_client` and `create_grpc_client` only call the
  constructor. In particular `create_async_client` ("Create and
  initialize") does not enter the client, so every method of the client
  it returns raises "not properly initialized" until the caller uses
  `async with`. That is `ClientLifecycle`'s `Init` with calls made
  outside the block.
- Two tasks entering one `AkashAsyncClient`, or one task re-entering it
  inside its own block: `__aenter__` overwrites `_exit_stack`. The model's
  caller is one task that enters only from outside the block. A second
  task would need a per-task phase and a violation run of its own.
