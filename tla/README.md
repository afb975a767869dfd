# TLA+ models of the VIC provider

This directory holds TLA+ models of the VIC provider of virtual-kubelet
(`src/providers/vic`), TLC configurations that model-check them, and TLAPS
proofs.

## The system

The system has five parts; every module is listed under "Modules".

| Part | Source | What it does |
|---|---|---|
| Isolation proxy | `src/providers/vic/proxy/image_store.go` 167-651 | Builds one container on the VIC port layer. It threads an opaque handle through remote calls, each of which adds one capability and returns a new handle. |
| Image store | `image_store.go` 31-123 | `Get` looks an image up in a process-wide cache. On a miss with `actuate` set, it pulls the image through the docker persona (`PullImage`, an HTTP POST with a 60 s timeout) and looks it up again. |
| Pod proxy | `src/providers/vic/pod_proxy.go` 20-90 | `CreatePod` translates each container of a pod and calls `createContainer`, one after another. It logs errors and returns nil. |
| Config translation | `pod_proxy.go` 95-321 | Converts a Kubernetes container spec to a docker create config. It merges the image's defaults (Cmd, Entrypoint, WorkingDir, User, Volumes, the PATH/TERM/env merge). `validateCreateConfig` normalises CPU and memory. |
| Config loader | `src/unnamed/part_000` | Reads a YAML file and one environment variable at start-up. |

How the parts interact:
- The pod proxy uses the image store and the config translation.
- The isolation proxy is called by a driver, in the order spec section 4.1 fixes:
  1. `CreateHandle`
  2. `AddImageToHandle`
  3. `CreateHandleTask`, which calls `Tasks.Join` then `Tasks.Bind`
  4. `AddHandleToScope`
  5. `AddLoggingToHandle`
  6. `AddInteractionToHandle`
  7. `CommitHandle`
- The driver is not in the repository. The pipeline order is modelled from the spec, and every step is modelled from the code.
- Attempts to create different containers may run concurrently (spec section 5). They share only the remote port layer.

### Inventory

**Isolation proxy.**
- State lives on the port layer:
  - the pending definition each handle names;
  - the endpoints reserved on scopes;
  - the committed containers.
- The proxy itself holds only the handle each call chain carries.
- Operations: the seven pipeline methods, `Handle` (a handle for an existing container) and `SetState`.
- Hard behaviours:
  - every remote call may fail;
  - every remote call may be applied by the server while its response is lost (deadline or transport error);
  - join payloads carry the handle in an `interface{}` field that is type-asserted;
  - `AddHandleToScope` has a rollback that never runs;
  - `IsolationContainerConfigToTask` panics when `Cmd` and `Entrypoint` are both empty.
- Properties:
  - handles are well formed;
  - committed containers are complete;
  - calls follow the pipeline order;
  - the rollback contract (violated);
  - no scope call without ports (violated);
  - no panic (violated).

**Image store.**
- State: the process-wide image cache, the port layer's images, and each caller's pull at the persona.
- Operations: `Get` and `PullImage`; `GetImages` only reads the cache.
- Hard behaviours:
  - `Get` returns `(nil, nil)` on a failed or timed-out pull and on an uncached image without `actuate`;
  - a pull can time out while the persona completes it later;
  - the persona may answer 200 and report the pull's failure inside the streamed body, which `PullImage` never inspects;
  - a 200 whose body cannot be read (the client timeout firing while the pull streams) is an error `Get` drops.

**Pod proxy.**
- State: the container the loop is at, and what it logged.
- Operations: `CreatePod` and `createContainer`.
- Hard behaviour: errors are logged and swallowed; `CreatePod` returns nil.
- Its image store is of type `VicImageStore` of package `vic`, which the repository does not define; it is modelled by the spec section 6 contract (a config or an error).

**Config translation.**
- This part is pure functions.
- Hard behaviours:
  - `TERM` and duplicate image variables are appended twice, because `containerEnv` is never updated;
  - the container's `Env` and `Args` are dropped by `KubeSpecToDockerCreateSpec`;
  - the CPU default and minimum differ;
  - the memory conversion, floor and alignment have boundary cases.

**Config loader.**
- This part is I/O only. It is not modelled.

## Modules

### `IsolationProxy.tla`: the handle pipeline

Constants:
- `Attempts`: the concurrent container-creation attempts.
- `MaxHandles`: a bound on the handles the port layer issues.
- `Malformed`: a payload whose `Handle` is not a string.

Variables:
- Proxy side: `stage` (which pipeline call an attempt makes next), `handle`, `config` (the three facts about an `IsolationContainerConfig` the code branches on), `calls` (the remote calls made, in order) and `crashed`.
- Port-layer side: `nextHandle`, `hdef`, `endpoints`, `committed` and `cdef`.

A handle is a natural number, and `NoHandle = 0` stands for the empty string `""`.

Each pipeline method is one action. Each action covers:
- the host UUID lookup that may fail before any call;
- the remote call, which succeeds, fails, or is applied with its response lost;
- the `.(string)` assertion of the payload;
- the handle returned.

The error paths return at once, as the code does. `Handle` and `SetState` are not modelled yet.

The port layer is modelled by its contract:
- a successful join issues a fresh handle whose definition is the old one plus the capability;
- `Commit` makes the definition of the handle the container's.

### `IsolationProxyProofs.tla`, `IsolationProxyCallsProofs.tla` and `IsolationProxyRefinementProofs.tla`: TLAPS proofs

They hold the proofs for `IsolationProxy`; see "What is proved" below.

### `MC_IsolationProxy.tla` and its configurations

`MC_IsolationProxy.tla` sets two attempts as model values, `MaxHandles = 14`, and symmetry over the attempts.

### `ContainerCreation.tla`: what the isolation proxy promises

The abstract specification: each attempt is `running` until it reports `succeeded` or `failed`, and its container comes into existence (`created`) in one atomic step, at most once, and only while the attempt runs (`Create`); `Fail` ends an attempt without a container. `Create` may report failure: a commit applied with its answer lost.

`IsolationProxy` maps onto it: `Status` gives `succeeded` at stage `done`, `failed` at `failed`, `running` otherwise, and `created` is the port layer's `committed`. `CreationRefined == Creation!Spec` is checked by TLC and proved by TLAPS.

### `CreateConfig.tla`: the configuration translation

Pure operators, one per function of `pod_proxy.go`: `KubeSpecToDockerCreateSpec`, `setCreateConfigOptions`, `setEnvFromImageConfig`, `setPathFromImageConfig` and `validateCreateConfig` (with `RequestedCPUs`, `NormalizedCPUs`, `FlooredMemoryMB`, `AlignMemory`). An environment entry `"k=v"` is the record `[key, val]`; `containerEnv` is the set of keys `KeysOf`. Go's truncating division is `GoQuo`. The loop that appends the image entries whose key is not in `containerEnv` is `UnsetImageEnv`:
- `Kept` is the set of positions of `imgEnv` the loop appends;
- `KeptRank(I, i)` is the place of position `i` among them;
- the `j`-th entry appended is the kept entry of rank `j`.

This is the filter `SelectSeq` would give. `MC_PodProxy` checks that on every image environment and key set of its runs (`ASSUME UnsetImageEnvIsFilter`). `SelectSeq` itself is not used: tlapm cannot expand it, so nothing could be proved about it. No recursion is used, so the module stays provable.

### `ResourceValidation.tla`: `validateCreateConfig` as an action

One call of `validateCreateConfig` on a host config (`request`), which it rewrites in place or refuses. The code never calls the function, so its inputs are every host config of the type it reads, as spec section 8 quantifies. `HostConfigsAssumption` says the constant holds host configs.

### `PodProxy.tla`: `CreatePod`

`CreateContainer` is one iteration of the loop: the spec is translated, the image store's `Get` fails (the error is logged) or the image's defaults are merged (`configs` records the config `createContainer` builds, which the code only logs). `CreatePodReturn` returns nil after the loop.

Two assumptions give the constants the Go types: `PodsAssumption` (a pod is a sequence of `ContainerSpec`, a `v1.Container` with the fields the translation reads) and `ImageConfigsAssumption` (the image store holds `ImageConfig`s). An `Env` is a sequence of `EnvEntry` records.

`PodProxyProofs.tla` holds its proofs; see "What is proved" below.

### `ImageStore.tla`: `Get` and `PullImage`

Concurrent callers (`Getters`). `Get` is split at its one wait, the POST to the persona:
- `GetLookup`: the cache lookup, then a hit, `(nil, nil)` without `actuate`, or the POST;
- `PullAnswered`: a 200 whose body is read to the end leads to the second lookup; any other status, and a 200 whose body cannot be read (a transport error, or the 60 s timeout firing while the pull streams), returns `(nil, nil)` (the error is dropped);
- `PullTimeout`: the 60 s client timeout or a transport error before an answer, `(nil, nil)`;
- `Relookup`: the config, or `(nil, err)`.

`PersonaAnswer` is the persona, another process. It answers 200 once the pull has started streaming; the image may then be stored, or the pull may fail inside the stream. `PullImage` only logs the body, so the two 200s look the same to `Get`. Or the persona answers an error status. It may answer after the caller gave up, or never. Whether the process cache learns of an image the persona pulled is decided by the `cache` package outside the repository, so both are allowed.

## Runs

| Run | Config | Expect | Shows |
|---|---|---|---|
| `ip_pipeline` | `MC_IsolationProxy.cfg` | pass | `TypeOK`, `CommittedComplete`, `CallsFollowPipeline`, and `CreationRefined` hold over every interleaving of two attempts. |
| `ip_scope_rollback` | `MC_IsolationProxy_scope_rollback.cfg` | violation | A failed `Scopes.AddContainer` is never rolled back (`ScopeRollbackAttempted`). |
| `ip_scope_without_ports` | `MC_IsolationProxy_scope_without_ports.cfg` | violation | A config without ports is still joined to the `default` scope (`NoScopeCallWithoutPorts`). |
| `ip_task_without_command` | `MC_IsolationProxy_task_without_command.cfg` | violation | Empty `Cmd` and `Entrypoint` panic the process (`NoPanic`). |
| `rv_resources` | `MC_ResourceValidation.cfg` | pass | `ResourcesNormalized`: an accepted config has at least `MinCPUs` and an aligned memory size at least the floor and the request. |
| `rv_cpu_floor` | `MC_ResourceValidation_cpu_floor.cfg` | violation | A CPU count of 0 or less becomes `DefaultCPUs` (2), and an unparsable CPU set is an error, not `MinCPUs` (`CPUFloorAtMinimum`). |
| `pp_create_pod` | `MC_PodProxy.cfg` | pass | `MergedAsSpecified` (the spec section 4.2 env policy, command and working directory), `OnePathEntry`, and `FailuresLogged` (once `CreatePod` returns nil, every container was configured or its failure logged, never both). |
| `pp_term_twice` | `MC_PodProxy_term_twice.cfg` | violation | A tty with an image `TERM`, or an image variable listed twice, gives a key twice (`EnvKeysUnique`). |
| `pp_env_dropped` | `MC_PodProxy_env_dropped.cfg` | violation | The pod's own environment never reaches the config (`KubeEnvKept`). |
| `is_get` | `MC_ImageStore.cfg` | pass | `GetErrorOnlyAfterPull`: the only error `Get` reports is the second lookup's miss, after a 200 read in full (whether or not the pull stored the image); `GetsTerminate`: every `Get` that posted a pull returns. |
| `is_nil_nil` | `MC_ImageStore_nil_nil.cfg` | violation | `Get` returns neither a config nor an error (`GetReturnsImageOrError`). |

Each property of a passing run is broken by a mutant of the code:
- `TypeOK` by a payload used without its assertion;
- `CommittedComplete` by `AddHandleToScope` returning the handle it was given;
- `CallsFollowPipeline` by a missing `return` after a `Tasks.Join` error;
- `CreationRefined` by a commit whose lost answer leaves the attempt at the commit step, to commit again;
- `ResourcesNormalized` by rounding memory down instead of up;
- `MergedAsSpecified` by `TERM=xterm` appended after the image's variables;
- `OnePathEntry` by `containerEnv` built before the `PATH` entry is added;
- `FailuresLogged` by a `createContainer` error dropped without logging;
- `GetErrorOnlyAfterPull` by a missing status check on the persona's answer;
- `GetsTerminate` by an HTTP client without a timeout.

`TypeOK` is checked only for `IsolationProxy`, where a plausible bug (an unasserted payload) breaks it. `ResourceValidation`'s `TypeOK` is part of the proof's inductive invariant.

**Bounds.**
- Isolation proxy: two attempts are enough for every interleaving of two call chains on the shared port layer. A third adds no new kind of interaction, because attempts share only the port layer and every call touches only the attempt's own handle. One attempt issues at most 7 handles, so `MaxHandles = 14` never blocks a step. Symmetry over attempts is sound, because no definition tells two attempts apart.
- Resource validation: CPU counts -1, 0, 1, 4; CPU sets unset, `"0"`, `"3"`, `"-2"` and one Atoi rejects; 13 memory sizes at every boundary (negative, 0, below 1 MiB, below, at and just above 512 MiB, aligned and unaligned). The theorem covers every other value.
- Pod proxy: pods of two containers (so a failure is followed by another container); 24 container specs (command, working directory, tty, environment empty or setting `HOME` or `TERM`) against 30 image configs (no command, a `Cmd` or an `Entrypoint`; working directory or not; image environments with no entry, a `PATH`, a `TERM`, a variable listed twice, two `PATH`s and a `TERM`). Every branch of the merge is reached. The theorems cover pods of any length and environments of any length and content.
- Image store: two callers and two references, every initial cache content; both callers may ask for the same reference.

**Deadlock.** Deadlock checking is off where every actor ends: attempts in `done` or `failed`, `Get` calls in `done`, the pod loop after `CreatePodReturn`, the one call of `validateCreateConfig`.

**Fairness.**
- `IsolationProxy`: none, and no liveness property. Every remote call is made with `NewXParamsWithContext(ctx)` and no deadline of its own, and `CommitHandle` sends no wait time when `waitTime <= 0`. Whether a call whose answer never comes returns depends on the caller's context, which the repository does not bound, so the model cannot assume that an attempt keeps taking steps (hazard at `image_store.go:492`).
- `ImageStore`: weak fairness on reading the answer, on the client's timeout (`http.Client{Timeout: 60 * time.Second}`) and on the second lookup. None on the persona, which may never answer, nor on when callers call `Get`.

## What is proved

`IsolationProxyProofs.tla` proves two theorems. All hold for every set of attempts and every `MaxHandles`:
- `TypeCorrect == Spec => []TypeOK`
- `CommittedCompleteThm == Spec => []CommittedComplete`

Neither invariant is inductive by itself. `CommittedComplete` says nothing about the handles an attempt holds before it commits. The strengthening is `IInv == TypeOK /\ HandleInv /\ CommittedComplete`, which TLC also checked as an invariant. `HandleInv` says that an attempt at a live stage holds a handle already issued, and that the handle's definition contains every capability the earlier stages joined (`CapsAt(stage)`).

The proof goes as follows:
1. `InitIInv` proves that `Init` establishes `IInv`.
2. One lemma per action proves that the action preserves `IInv`. `JoinStepIInv` covers the three single-join methods at once.
3. `NextIInv` combines these lemmas.
4. The theorems follow by `PTL`.

The lemmas `CallType`, `MakeCallsType`, `IssueType`, `IssueTwoType` and `TwoCallsType` state what the helpers preserve.

`IsolationProxyCallsProofs.tla` proves `CallsFollowPipelineThm == Spec => []CallsFollowPipeline`, for every set of attempts and every `MaxHandles`. The property is not inductive: it does not say how many calls a running attempt has made, so it cannot tell that the next call is the next one of `PipelineOps`. The strengthening `CInv` says two things:
- every attempt's calls are a prefix of `PipelineOps`, and all but the last succeeded;
- an attempt that has not failed made exactly the calls of the stages before its own (`CallsAt`), all successful.

TLC checked `CInv` as an invariant of the `ip_pipeline` instance before the proof. The proof rests on these lemmas:
- `Extend`: appending the next pipeline calls to a successful prefix gives a prefix, proved from `ConcatProperties` of the `SequenceTheorems` library.
- `StepCInv`: a step that appends such calls and moves the stage keeps `CInv`.
- `OneCallCInv` and `NoCallCInv`: the specialisations for one call and for no call.
- One lemma per method.

`IsolationProxyRefinementProofs.tla` proves `Refinement == Spec => CreationRefined`: the pipeline implements `ContainerCreation`, for every set of attempts and every `MaxHandles`.
1. `StepShape`: every step of an attempt starts at a running stage, moves only that attempt's stage, and commits only its own container, in a step that ends it.
2. `CommittedEnded` (only ended attempts have a committed container) is the extra invariant: without it a step of a running attempt could not be shown to leave `created` alone for `Create`'s `a \notin created`. `InvariantsHold` proves `Spec => [](IInv /\ CommittedEnded)`.
3. `InitRefined` and `NextRefined`: initial states map to initial states, and every step maps to `Create`, `Fail` or a stutter.

`ResourceValidationProofs.tla` proves `ResourcesNormalizedThm == Spec => []ResourcesNormalized` for every host config, assuming only `HostConfigsAssumption`. The lemmas follow the code's stages: `GoQuoType` (the conversion to MiB), `FlooredBounds` (default and floor), `AlignBounds` (rounding up), `MemoryNormalized`, `CPUsNormalized`. The invariant is strengthened to `RInv`, which adds that the host config is the request until the call, and the request validated without error after it.

`ImageStoreProofs.tla` proves `GetErrorOnlyAfterPullThm == Spec => []GetErrorOnlyAfterPull` for every set of callers and references. The property alone is not inductive: `GInv` adds that a `Get` at the second lookup has had a 200 answer, and the types of the per-caller variables. `ReturnedShape` states what ending a `Get` changes; one step of `NextGInv` per action.

`PodProxyProofs.tla` proves three theorems for every pod and image store allowed by `PodsAssumption` and `ImageConfigsAssumption`:
- `OnePathEntryThm == Spec => []OnePathEntry`;
- `MergedAsSpecifiedThm == Spec => []MergedAsSpecified`;
- `FailuresLoggedThm == Spec => []FailuresLogged`.

None of the properties is inductive: none says what a configured container's config was built from, nor what the loop has done to the containers before `next`. The strengthening `IInv` adds:
- the types;
- `next` within the pod;
- every entry of `configs` is `NoConfig` or `Built(i)`, the config `setCreateConfigOptions` builds from container `i`'s spec and its image's config;
- each container before `next` is configured or logged, and not both; each container from `next` on is untouched;
- `returned` only after the last container.

TLC checked `IInv` on the states of `pp_create_pod` before the proof. The rest is about the operators, in layers:
1. `LeastNat`: every non-empty set of naturals has a least element. It is proved from `WFMin` and `NatLessThanWellFounded` of `WellFoundedInduction`, which take no operator parameter. It stands in for induction, in a minimal-counterexample argument.
2. The rank lemmas, from `FiniteSetTheorems`:
   - `RankRange` and `RankMonotone`: the rank is strictly increasing;
   - `RankInjective`;
   - `RankOnto`: an injection between sets of equal size is onto (`FS_Injection`).
3. `FirstWithAt`, `FirstPosition` and `FirstWithKey`: the first entry with a key.
4. `UnsetEntries`, `UnsetKeys` and `UnsetFirst`: the loop appends the image's entries whose key is not in `containerEnv`, in the image's order. Its first entry with a key is the image's first entry with that key.
5. `MergedEnvShape`: `KubeSpecToDockerCreateSpec` leaves `Env` empty, so the merged environment is always `Prelude(tty, s) \o UnsetImageEnv(s, {"PATH"})`. `Prelude` is the PATH entry, then `TERM=xterm` with a tty.
6. `MergedPathPositions`, `MergedKeys` and `MergedLookup` give the two properties of the merge. `FailuresLogged` follows from `IInv` directly.

**Only model-checked.**
- Every liveness property (`GetsTerminate`), because TLAPS does not handle liveness under fairness or `ENABLED`.

## Not modelled

- The config loader: file and environment I/O.
- `Handle` and `SetState` of the isolation proxy: nothing in the repository calls them, and no driver fixes when they run.
- `GetImages` and `NewImageStore`: a read of the cache and its initialisation.
- Message texts, logging and error wrapping; the HTTP formatting of the pull.
- The `v.client == nil` guards: the client is fixed when the proxy is built, and `NewIsolationProxy` refuses a nil one.
- The content of task, image and logging parameters beyond what the control flow branches on; CPU and memory limits in `PodProxy` (they matter only to `validateCreateConfig`, which nothing calls).
