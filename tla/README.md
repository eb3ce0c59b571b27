# TLA+ models of the skycastle graph store and the OpenBao AWS login

Most of these modules model the part of the repository that builds and
stores the action/artifact dependency graph. That is the Go package
`graph`, the `skycastle schedule` command that drives it from a Starlark
workflow, and the FoundationDB transactions they run.

A second, independent group models the two OpenBao AWS IAM logins:
- the token fetcher `src/code/openbao/auth/aws/main.go`, which logs in and
  writes the token to `/run/openbao/token`;
- the agent auth method `src/command/agentproxyshared/auth/aws/aws.go`.

The rest of `src/` (the RocksDB shim, the kind-cluster YAML generator,
the UI webpack config) is listed at the end.

## 1. Inventory

### Components and their state

| Component | Source | State | Operations |
|---|---|---|---|
| Key/Value Codec | `graph/action.go`, `actionInput.go` (also holds the producer key), `artifactConsumer.go`, `errors.go` (also holds the output key), `unnamed/part_003` | none (pure) | `Encode`/`Decode` of the six key kinds (tuple-packed under the subspaces `action`, `artifact`, `input`, `output`, `producer`, `consumer`) and of the gob values; `actionInputRange`, `actionOutputRange` and `artifactConsumerRange` prefix ranges |
| Entity Store | `graph/graph.go`, `unnamed/part_005` | action and artifact subspaces | `AddAction`, `Action`, `Actions`, `AddArtifact`, `GetArtifact` |
| Edge Index Store | `unnamed/part_005`, `unnamed/part_004` | input, output, producer and consumer subspaces | `AddInput` (input edge and consumer entry in one transaction), `AddOutput` (artifact, output edge and producer entry in one transaction), producer/consumer/inputs/outputs resolution |
| Graph Navigation Layer | `unnamed/part_002` (artifact cursor), `unnamed/part_004` (action cursor) | a cursor's decoded key and value | `Producer()`, `Consumers()`, `Inputs()`, `Outputs()`: each is its own read transaction |
| Script-to-Graph Compiler | `unnamed/part_001` (main.go) | the Starlark globals (each call's `outputs` dict) | `Schedule` (its checks before the cluster is opened, clearDatabase, then ExecFile), the `action`, `file` and `dir` builtins |
| Transaction Discipline | every `db.Transact` / `db.ReadTransact` | FoundationDB | a closure runs, commits, and on a retryable error (conflict, `commit_unknown_result`) runs again |
| OpenBao token fetcher | `openbao/auth/aws/main.go` | the file `/run/openbao/token` (content, group, mode) | `main`: LoadDefaultConfig, `getImdsCredentials`, `getSigV4Headers`, `authenticate`, then OpenFile (`O_TRUNC`), WriteString, Fchown to group 999; any error is `log.Fatalf` |
| Agent AWS auth method | `agentproxyshared/auth/aws/aws.go` | the `awsMethod` fields | `NewAWSAuthMethod` (reads the config map), `Authenticate` (`loadConfig`, `retrieveImdsCredentials`, `resolveStsEndpoint`, then signing), plus the no-op `NewCreds`, `CredSuccess` and `Shutdown` |

### How they interact

The compiler calls the Graph API. Each API call is one FoundationDB
transaction, and the store is the only shared state. `action()` runs
several transactions in order:
1. `g.AddAction`.
2. For each input, in dict order: a `g.GetArtifact` read, then an
   `action.AddInput` write. The write's error is ignored (part_001:255).
3. For each output: `action.AddOutput`. It returns the id that goes into
   the `outputs` dict.

Later calls pass these ids as inputs. Before running the script, every run
clears the whole key space with `clearDatabase`, and ignores that error
too (part_001:154). Cursors hold ids read in earlier transactions. Nothing
re-checks them when they are used.

The two OpenBao programs share no state with the graph or with each
other. Both build the same login: a signed `sts:GetCallerIdentity`
request whose url, body and headers travel to OpenBao, JSON and base64
encoded, for OpenBao to replay against STS. The fetcher's token file is
read by other processes in group 999, and nothing in the repository
limits the fetcher to one run per boot.

### What is hard

- **Concurrent builds.** Nothing stops two `skycastle schedule` processes
  from running against one cluster. One process's clear can land between
  the other's transactions. Its later blind writes then produce edges whose
  entities are gone.
- **Retries that repeat work.** `db.Transact` reruns the closure after
  `commit_unknown_result`, even if the first commit took effect. The
  closures call `uuid.NewV7()` inside, so a rerun creates a second record.
- **Partial failure.** One `action()` call is not atomic, and any error
  leaves the committed part behind. One error (AddInput's) is dropped.
- **Numeric edge.** The output kind is converted from int64 to a byte
  before it is validated.
- **Order.** Scans return keys in ascending id order, and `Inputs()` and
  `Outputs()` keep the last key per name. The id handed to the script
  must be the one that wins. `uuid.NewV7` orders the ids of one process
  only: its clock (`lastV7time`) lives in the process, so between two
  concurrent builds id order is clock order, not creation order.
- **Zero values on the wire.** gob leaves out fields that hold their zero
  value (`""`, `ArtifactKindFile`), and Decode leaves the fields it does
  not receive as they were. The scans decode every value into a fresh
  struct, which is what makes this safe.
- **A file updated in place.** The token fetcher truncates the token file,
  then writes it, then hands it to group 999. A reader, a rerun, a failure
  or a reboot can come between any two of these steps.
- **A wait with no end.** The token fetcher's login uses an HTTP client
  with no timeout and a context with no deadline, and Schedule's
  transactions have no timeout either. A server that never answers holds
  the process forever.
- **A login that must verify elsewhere.** Only STS, through OpenBao, checks
  that the signed headers, the region and the body hash survive the
  header-map conversion.

### What makes each component correct

- Edge Index Store: the consumer index mirrors the input edges, and the
  producer index mirrors the output edges. Every artifact has exactly one
  producer. No edge names a missing entity.
- Entity Store: one record per call (exactly-once); a scan lists one
  process's actions in the order it created them.
- Codec: every key decodes to the fields it was encoded from and nothing
  else decodes; every value reads back as written.
- Compiler: a script that completes has all its declared edges. Every
  returned id resolves to its producer under its name. Invalid kinds are
  rejected.
- Navigation: reads never meet a dangling reference.
- Token fetcher: a reader sees only a token OpenBao issued. Exit status 0
  means the token is in place. The login is one STS accepts. A run only
  ever hangs waiting for OpenBao's answer.
- Agent auth method: a config is accepted exactly when it is well typed,
  and every login it builds is one STS accepts.

## 2. Modules

| Module | Models | Correspondence |
|---|---|---|
| `GraphStore` | package `graph`'s transactions | `db` is a record with one field per subspace. Keys are the packed tuples and values are the stored fields. Each write transaction (`AddActionTx`, `AddArtifactTx`, `AddInputTx`, `AddOutputTx`, `ClearDatabase`) is a function from database to database. Each read transaction (`GetAction`, `GetArtifact`, `ListActions`, `ResolveProducer`, `ResolveConsumers`, `ResolveInputs`, `ResolveOutputs`) is a function of one snapshot that returns `Ok(v)` or `Err(e)`. |
| `Compiler` | `Schedule` and the `action()` builtin | `Clients` are concurrent `skycastle schedule` processes. `pc` walks the code: `start` (`Prepare`: the file, environment, clean-repo and path checks, any of which exits 1), `clear`, `stmt`, `input` (GetArtifact), `wire` (AddInput), `output` (AddOutput), `done`/`failed`. Each step is one transaction. `Transact` applies a closure once, twice (`commit_unknown_result`), or not at all (non-retryable error). `acts` and `env` hold what the script got back. `clock[c]` is process `c`'s NewV7 clock (see below). `FileBuiltin`/`DirBuiltin` are `file()`/`dir()`. |
| `GraphAbstract` | the store's promise (spec sections 3 and 4.3) | a graph of actions and artifacts with atomic `CreateAction`, `Consume`, `Produce` and `Wipe`. Edges join existing entities, and an artifact gets its one producer when it is created. |
| `Codec` | the key codec: each key type's `Encode`/`Decode` and the three prefix ranges | a key is a byte sequence. A uuid is `UuidLen` bytes over `ByteVals` (16 bytes in the code). The FoundationDB tuple layer is written out as operators: type codes, the `0x00` escape and terminator, `Subspace.Unpack`'s prefix check. `DecodeIds` is the shared shape of the six Decode methods (tuple length, `[]byte` element type, `UnmarshalBinary` length, first failure returned). The value codecs are `GobEncode`/`GobDecode`: a gob stream is the struct's type and a (field delta, value) pair per non-zero field, and decoding sets only the fields received. `ScanValues` is the scan loops' decode into a fresh struct per key. |
| `Navigation` | the cursors (`part_002`, `part_004`) and `Graph.Actions` | readers run alongside `Compiler`'s processes. `ReadActions`, `ReadOutputs`/`ReadInputs` (`FollowEdge`) and `ReadProducer`/`ReadConsumers` (`Observe`) are each one read transaction on the current `db`. |
| `MCCodec` | the codec harness | `key` is any key a range read can return: every tuple of up to 3 elements (ids, a short `[]byte`, a string, int 0, nil) under any subspace, truncated encodings and an unknown type code. One step decodes it as one key type or tests it against one scan range; another encodes two values of one value type (each field zero or not) and reads them back as a scan does. |
| `MCNavigation` | one build plus readers | extends `Navigation` and `MCCompiler`. |
| `AwsLogin` | the login both OpenBao programs build | a header is a function from canonical names to value sequences. `HeaderAdd`/`HeaderSet` are `http.Header.Add`/`Set`. `SignHTTP` is the SDK signer reduced to the headers it adds; its `Authorization` record names the region, service, signed headers, payload hash and host. `HeaderMap` is the header-map loop (0 values dropped, 1 a string, more a list). `Replay` and `StsAccepts` are what OpenBao and STS do with the login; they are outside the repository and serve as the reference. |
| `TokenFetch` | `main.go` | `pc` walks `main`: `config`, `creds`, `sign`, `auth`, `await`, `open`, `write`, `chown`, then `exit0`, or `fatal` from any step. `PostLogin` sends the login (`client.Do` up to the wire) and `LoginAnswer` is OpenBao's answer, which may never come. `file` is the token file. `OpenToken` creates it with group root and mode 0640, or empties an existing one and keeps its group. `WriteToken` writes, and `ChownToken` sets group 999. `Start` reruns the program up to `RunsPerBoot` times per boot, and `Reboot` empties `/run`. `ReadToken` is a group-999 reader. `sent` is the login payload, and `issued` holds the tokens OpenBao returned. |
| `AwsAgent` | `aws.go` | operators: `NewAWSAuthMethod(conf)` returns `Ok(method)` or `Err(msg)`. `Authenticate(j, env)` returns the login path, header and payload, or the first error of `loadConfig`, `retrieveImdsCredentials` and `resolveStsEndpoint`. `ResolveStsEndpoint` models the SDK's STS rules: with `use_global_endpoint` and a legacy-global region, the endpoint is `sts.amazonaws.com`, signed for us-east-1. |
| `MCTokenFetch`, `MCAwsAgent` | instances | `MCAwsAgent` enumerates every config map over the four keys (absent, well typed or mistyped) and a nil config. It runs `NewAWSAuthMethod`, then `Authenticate` in every environment: config load failure, IMDS region present or not, credentials or not. |
| `MCCompiler` | workflows for TLC | `Example` is the repository's example workflow (four calls, `final_greet` consuming `emphasize`'s output, which consumes `save_greeting`'s). `Greeting` is its first two calls, with a `dir()` output on `greet`. `BadArgs`, `MalformedId`, `AbsentId` and `BadKind` end in each of `action()`'s validation errors. `WideKind` declares kind 256. |

Abstractions:
- A uuid is a natural number. Each process has its own NewV7 clock:
  process `c`'s k-th next id is `(clock[c] + k - 1) * |Clients| + Rank[c]`.
  Ids are unique and increase within a process. Between processes, one
  that has taken more ids is ahead of one that has taken fewer, whatever
  the real order. This is one way unsynchronised clocks can run, and it is
  enough to separate what the code relies on (per-process order) from what
  it does not get (creation order across processes). With one process the
  ids are consecutive.
- Labels, names and commands are small sets of strings. The command is
  dropped, because no property tells commands apart.
- In `GraphStore`, keys and values are not byte strings. `Codec` checks
  separately that the byte keys behave as the tuples `GraphStore` uses.
- `Compiler`'s `InitialDBs` is what the cluster holds when the processes
  start. It is either empty or the graph a finished `Greeting` build left
  (`PreviousBuild`), whose ids are older than any new NewV7.
- In the OpenBao modules, a hash, JSON document or base64 string is a
  record that keeps what it was made from, so decoding it is exact. Hosts
  are records of a name and the region STS expects a signature for.
  Group ids and file modes are the numbers in the code (999, 0640 = 416).

## 3. Runs

| Run | Expect | Bounds | What it shows |
|---|---|---|---|
| `concurrent` | pass | 2 processes with their own NewV7 clocks, each running `Example`, `Greeting` or `BadKind` and possibly failing its checks before the clear, 1 store error, 1 unknown commit, 14 ids, weak fairness per process, no symmetry (the clocks' `Rank` tells the processes apart); about 442k states, one minute | `IndexesAgree`, `ProducedArtifactsComplete`: across any interleaving of two builds, clears, a failure and a duplicated commit, the reverse indexes never diverge from the edges and no artifact lacks its producer. `Termination`: under `FairSpec` every process exits. |
| `single` | pass | 1 process, every workflow (the whole example included), 2 errors, no unknown commit | `EdgesReferenceEntities`: no dangling edge. `GraphSpec`: the database's forward relations implement `GraphAbstract` (refinement mapping `actions <- db.action`, `consumes <- db.input`, ...). An unknown commit creates two records in one step, so it is left to `unknown_commit`. |
| `codec` | pass | `ByteVals = {0, 255}` (the escaped byte and an ordinary one), `UuidLen = 2`, tuples up to 3 elements; about 95k states | `DecodeInvertsEncode`: each key type's Decode accepts a key exactly when its Encode produces it, and re-encoding the decoded fields gives the key back. This is the spec's round-trip law, plus rejection of every other shape. `RangeSelectsOwnKeys`: of all written keys, each scan range holds exactly the keys of its subspace whose first id is the given one. `ValuesRoundTrip`: each value type's two values, read back in one scan, are the values written, zero fields included. `TypeOK`: decoded ids are uuids. About 294k states. |
| `navigation` | pass | 1 build over every workflow, 1 reader, 1 error, 1 unknown commit; about 60k states | `NavigationAgrees`: `Producer()` of an artifact reached through `Outputs()` of `a` is `a`, and `Consumers()` of an artifact reached through `Inputs()` of `a` succeeds and lists `a`. The two reads are separate snapshots with the build's later transactions between them. `ScriptOutputsResolve`: every id the script got back resolves to its producer and, through `Outputs()`, under its name. This holds even when the AddOutput closure ran twice, because the later NewV7 wins the scan. |
| `token_boot` | pass | one run per boot, 2 reboots, a failure possible at every step, 2 regions, 2 tokens; about 840 states | `ReaderSeesIssuedToken`: a group-999 reader never reads an empty or unissued token. `ExitZeroLeavesToken`: exit status 0 means the run's token is in the file with group 999. `LoginCarriesSignedRequest`: OpenBao's replay of every login is a request STS accepts. `RunEndsOrAwaitsLogin`: under `FairSpec`, every run exits, dies in a reboot, or waits forever on the login POST; no other step can hold a run. |
| `agent_auth` | pass | 180 config maps plus a nil config, regions `eu-west-2` (legacy global), `af-south-1` and none, `use_global_endpoint` absent, false or mistyped, every environment; 400 states | `ConfigRead`: `NewAWSAuthMethod` accepts exactly the well-typed configs and keeps each value, or the zero value when absent. `LoginAccepted`: every login `Authenticate` returns replays to a request STS accepts, at the method's mount path, with the configured role. |
| `wipe_race` | violation | 2 processes, no failures | `EdgesReferenceEntities` fails. Process 2 clears after process 1's AddAction, then process 1's AddOutput writes an output edge and producer entry for the deleted action. |
| `unknown_commit` | violation | 1 process, 1 unknown commit | `OneRecordPerCall` fails: one `action()` call, two action records. |
| `dropped_input` | violation | 1 process, 1 store error | `CompletedScriptWired` fails: AddInput fails, the script completes, the input is missing. |
| `kind_truncation` | violation | `WideKind` | `DeclaredKindsStored` fails: kind 256 is stored as File. |
| `stale_graph` | violation | 1 `Greeting` process on the previous build's graph, 1 store error | `WipeThenBuild` fails: the clear fails, its error is dropped, and the completed build leaves the old `save` action and artifact beside its own. |
| `token_rerun` | violation | 2 runs in one boot, 1 token | `ReaderSeesIssuedToken` fails: the second run's OpenFile truncates the group-999 file in place, and the reader reads it empty before WriteString. |

The codec bounds work because `0` is the one byte value the tuple layer
treats specially, so `{0, 255}` reaches every escape case: an escaped
`0x00`, a `0xFF` that follows a `0x00`, and a terminator. Two bytes per
uuid are enough to put a `0` inside an id. Three elements are one more than
the largest arity, which a tuple-length check that accepts longer tuples
needs. The navigation run has one build because a second build's clear
between two reads is an inconsistency the spec allows (section 4.4).

The other bounds are enough for these reasons:
- Every hazard above needs at most two processes.
- It needs at most one failure or one unknown commit, placed anywhere.
- It needs at most two calls, one producing and one consuming. The
  consuming call is the one that exercises the GetArtifact/AddInput gap.
  The passing runs also take the whole four-call example, whose chain of
  outputs into inputs is two such pairs.
- Per-process order needs two calls of one process with the other
  process's ids between them. Two processes each running up to the whole
  example give that, and also two four-call chains interleaved.
- The value codec needs each field zero and non-zero, and a zero field
  after a non-zero one in the same scan.
- Ids never run out: `MaxId` covers every call of both processes plus
  the reruns.

Every write is blind (no transaction reads before it writes), so
FoundationDB never reports a conflict. The only retries are the
`commit_unknown_result` reruns. This is why scenario D of the spec, two
concurrent AddOutputs, cannot conflict.

The OpenBao bounds: one run per boot is the case the code handles, and
two reboots show that a fresh `/run` after a failed run is safe. Two runs
in one boot are enough for the rerun window. The agent's configs cover
each key absent, well typed and mistyped, so every type check and every
zero value is reached.

**Fairness.** `FairSpec` asserts weak fairness of each process's `Step`.
Each `skycastle schedule` is its own OS process. It runs one goroutine
that waits on no other process, and FoundationDB answers every
transaction with a commit or an error. So a process that can take a step
eventually does. `Termination` holds with failures and unknown commits
anywhere. `MaxId` is chosen so that no process ever waits for an id,
which would be an artefact of the bound. For the token fetcher, `FairSpec`
asserts weak fairness of `RunSteps`, the steps the running process takes
itself. OpenBao's answer (`LoginAnswer`) gets no fairness: the login
uses `&http.Client{}` with no `Timeout` and `context.Background()`, so
nothing in the program ends the wait if the server or the network never
answers. `Start`, `Reboot` and the reader are other actors and get none
either.

Each property of a passing run has a mutant in `PROJECT.json`:
- a swapped consumer key;
- a clear that misses subspaces;
- a missing nil check;
- the first rerun's id returned;
- a missing artifact Set;
- a missing kind switch;
- a loose tuple-length check;
- a missing uuid length check;
- swapped decoded fields;
- an output range or outputs scan copied from the input one;
- an input loop that does not advance;
- one decode target shared by a scan's values;
- the status code not checked;
- a transport error of the login retried;
- the token file created 0644;
- WriteString's error not checked;
- the signer's result not used;
- the role not type-checked;
- a login signed for us-east-1 whatever the region.

TLC finds each mutant's property violated.

## 4. Findings

1. **Concurrent builds corrupt the graph** (`wipe_race`). Each build
   wipes the key space, and AddInput and AddOutput write blindly with
   cursors from earlier transactions. The spec assumes a dangling edge
   means a write path was bypassed, but here it does not.
2. **commit_unknown_result duplicates records** (`unknown_commit`). NewV7
   runs inside the retried closures (part_005:264 and 323).
3. **AddInput errors are dropped** (`dropped_input`, part_001:255).
4. **The output kind is truncated to a byte before validation**
   (`kind_truncation`, part_001:291).
5. **A failed wipe is ignored** (`stale_graph`, part_001:154). The build
   then runs on top of the previous graph, against the wipe-then-build
   semantics of spec section 6.
6. **The token file is rewritten in place** (`token_rerun`, main.go:208).
   A second run in the same boot empties the group-999 file before it
   writes the new token. A reader in that window reads an empty token. A
   failure in that window replaces a valid token with an empty file.
   Writing a temporary file and renaming it would close the window.

One more disagreement is recorded as a hazard, not a finding, because it
depends on the SDK's endpoint rules, which are not in the repository. With
`use_global_endpoint = true` and a legacy-global region, `aws.go` sends
the login to `sts.amazonaws.com` but signs for the configured region
(aws.go:123). Substituting `AllGlobalValues` for `GlobalValues` in
`MCAwsAgent.cfg` shows `LoginAccepted` violated.

## 5. Plan

Done:
- `GraphStore`, `Compiler`, `GraphAbstract` and `MCCompiler`: the
  transactions, the compiler, concurrency, failures, a previous graph at
  start, and termination under fairness.
- `Codec`/`MCCodec`: the key and value codecs.
- Per-process NewV7 clocks, and Schedule's checks before the clear.
- `Navigation`/`MCNavigation`: readers during a build.
- `AwsLogin`, `TokenFetch`/`MCTokenFetch` and `AwsAgent`/`MCAwsAgent`: the
  OpenBao logins, and a login OpenBao never answers.

Next, in order:
1. **Navigation, continued**: readers holding cursors from a previous
   build, now that `InitialDBs` makes one reachable.
   `actionOutputsTransaction` does not check that the action exists, so
   `Outputs()` of a wiped action returns an empty map, where the spec's
   error policy (section 7) expects NotFound.
2. **GraphAPI**: arbitrary Graph API callers, including standalone
   `AddArtifact` (an artifact with no producer) and stale cursors. This
   makes the Entity Store component complete.
3. **Codec, continued**: the byte order of encodings against id order,
   which is what `EdgeMap`'s "later key wins" relies on.
4. **Token fetcher, continued**: two overlapping runs, if whatever
   starts the program can start a second run while a login hangs, and
   a write split into two.

## 6. Not modelled

- The RocksDB shim (`configerator*`): a separate tool that shares no state
  with the graph.
- In the OpenBao programs: the AWS SDK and HTTP stack (config loading,
  IMDS, the signer's canonical request, TLS) beyond the outcomes and
  headers the code depends on; and the JSON and base64 byte
  encodings, kept as exact records. `NewCreds`, `CredSuccess` and
  `Shutdown` are no-ops.
- The CLI (cobra) and what `RepoVersion` and the path handling compute:
  I/O before the database is opened. Their outcome, exit 1 before the
  clear, is `Prepare`.
- `Graph.Action` and `Graph.AddArtifact`: nothing in the repository calls
  them (the compiler creates artifacts only through `AddOutput`).
- A transaction that never returns. `Schedule` opens the cluster with
  `fdb.MustOpenDefault` and sets no transaction timeout or retry limit,
  and no operation takes a deadline (the spec's Cancellation/timeout
  rule, section 4). The model's `Transact` always returns, so
  `Termination` assumes a cluster that answers. This is listed as a
  hazard at part_001:153.
- The spec's claim that ids sort in creation order across processes
  (sections 2 and 5): it depends on the hosts' clocks, not on this code.
  The per-process order is not a property either: it is what the model's
  `NewV7` assumes of `uuid.NewV7`, so checking it would restate the model.
- `part_006` (kind cluster YAML) and `part_000` (webpack config): no
  state machine.
- The tuple layer's and gob's byte formats beyond what the code depends
  on: the tuple layer's type codes and escapes are written out; a gob
  field value is atomic.
