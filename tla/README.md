# Verification of Metisa Sandbox

TLA+ modules about `metisa_sandbox` and the programs it puts into containers,
with the TLC configurations that check them on small instances and TLAPS proofs
of what matters most for every instance.  Paths below are relative to the
repository; Python packages lie under `src/`.

## The system

`metisa_sandbox` runs a Python workload in a hardened Docker container.  A
`metisa.toml` declares capabilities; each of them brings a network, a sidecar
container, or both.  One host process creates networks and containers, starts
them one after the other, hands each its secrets, starts the workload with
`docker start --attach`, waits, and removes everything again.  Inside the
workload container a bootstrap waits for the secrets, restricts itself with
Landlock, runs security probes and becomes the workload.

| Component | State | Operations | Talks to | What is hard |
|---|---|---|---|---|
| Sandbox manager (`metisa_sandbox/_sandbox_manager.py`, `_sandbox_container.py`, `_sandbox_network.py`) | `all_containers`, `is_created`/`is_started` of each container, `is_created` of each network, clean-up errors | the try body: create, connect, record, start, health, provision, attach, await; the finally block: copy logs, save state, stop, remove, remove networks, report, clean files | Docker, file system | a call that fails between its effect and its bookkeeping; a clean-up that fails half way; the workload starts asynchronously; interrupts |
| Docker wrappers (`metisa_sandbox/_docker`) | none of their own; the daemon's containers and networks | one per `docker` command, health polling (600 s), provisioning (10 s) | daemon | timeouts, lost results, removal of a running container or a used network |
| Set-up plan (the manager's try body and `<sidecar>_sidecar/<name>_manager.py`) | none: a function of the capabilities | order of sidecars, networks of each | manager | combinations of 20 capabilities |
| Validator (`metisa_common/_specification_validator.py`) | none | capability rules, domain and address syntax | CLI | what it accepts but the plan cannot set up, for want of a network or of a table; numeric edges of addresses |
| Workload start (`metisa_landlock/bootstrap.py`, `metisa_runner/cli.py`, `metisa_probes/runner.py`, `metisa_common/secrets_receiver.py`, `secrets_helper.py`) | the key file on tmpfs, Landlock state, probe verdict | poll for the key, restrict, probe, execute; read, validate, publish the key | host via `docker exec` | two processes and a file; a timeout that kills the client and not the receiver |
| MCP server (`metisa_mcp_server`) | none between requests; one event loop | authenticate, validate arguments, call a back end, screen its result; screen user input | guards, documents, Docling, embeddings, Jina, Starlark, HAProxy | a result of several parts, a guard that fails half way, a tool that holds the loop longer than its client waits |
| LLM broker (`metisa_llm_broker`) | model aliases, the provider's key | validate, route to a local model or through Squid, map the outcome to a status | LLM servers, Squid | a bounded thread pool shared by answers of ten minutes and health checks; many ways to fail, each of which must not look like an answer |
| Prompt guard (`metisa_prompt_guard`) | two models, a lock each | classify a text in overlapping windows of words and of tokens, moderate | — | window arithmetic, exceptions under a lock |
| Entity guard (`metisa_entity_guard`) | models, two locks | find entities, anonymize | — | overlapping entities, which Presidio resolves |
| Embeddings (`metisa_embeddings`) | Qdrant collections, a manifest, an in-process lock | ingest a document once, search | Docling, Qdrant | a failure in the middle of an ingestion, requests that go on after their client has left |
| Agent memory (`metisa_agent_memory`) | two Postgres tables | create, read, update, delete per account | Postgres | concurrent statements on a row, a commit whose outcome is lost, isolation of accounts |
| Docling, documents, Jina reader, code execution, Qdrant, Postgres, OpenTelemetry, Squid, HAProxy sidecars | third-party servers with a configuration | — | — | Postgres is shared by all runs of a host |
| Probes (`metisa_probes/_container`, `_kernel`, `_python`) | none | test the container from inside | kernel, sidecars | they derive from the specification what the manager derives on its own: the two may disagree; one control may hide the lack of another |
| Python start-up guards (`metisa_sandbox/metisa_container/sitecustomize.py`) | the role of the process, handed on through the environment | deny imports, spawns, sockets | interpreter | the role of a child process, the scope in which the probes may spawn |
| CLI, image builds, specification parser | none | sequential | — | — |

The hazards this leads to are listed, each at its line, in `PROJECT.json`.

## Modules

| Module | Models | Run or proofs |
|---|---|---|
| `Capabilities` | the capability rules of the validator, the tables some container needs, the requirement flags | through `SetupPlan` |
| `SetupPlan` | the try body of a run as data: capabilities and the tables given with them are mapped to a sequence of calls | through the two below |
| `SandboxLifecycle` | one run: executes a plan while calls fail, containers exit and the user interrupts; the whole clean-up | `lifecycle`, `set_up_residue`, `skip_containers`; `SandboxLifecycleProofs` |
| `SandboxRun` | validator, plan and lifecycle composed, for every capability set and its tables | through `ProbedSandbox`; `SandboxRunProofs` |
| `ProbedSandbox` | the same sandbox as its network, MCP and LLM probes see it from inside | `sandbox_run`, `direct_localnet`; `SandboxRunProofs` |
| `StartupSequence` | what a workload container promises: secrets, Landlock, probes, workload | through `WorkloadBoot` |
| `WorkloadBoot` | host, secrets receiver and first process of the container around the key file; implements `StartupSequence` | `boot_failed_provisioning`, and through the next; `BootProofs` |
| `ConfinedBoot` | the same start with the controls of the container, the roles of its Python interpreters and the probe groups that look for the controls; implements `WorkloadBoot` | `boot`; `BootProofs` |
| `DocumentSearch` | a document search from the MCP server's tool down to Qdrant | `document_search`; `DocumentSearchProofs` |
| `MemoryRequests` | a request to the agent memory and what its SQL statement does to a table | through the two below |
| `MemoryService` | what the agent memory promises: an atomic table | through `AgentMemory` |
| `AgentMemory` | handler threads and their transactions, over several runs; implements `MemoryService` | `agent_memory`; `AgentMemoryProofs` |
| `PhraseChecks` | the three heuristic checks on a window of words | through `PromptGuard` |
| `PromptGuard` | the prompt guard's handler threads, windows, locks and answers | `prompt_guard`; `PromptGuardProofs` |
| `McpServer` | authentication, event loop, tools and screening of the MCP server | `mcp_server`; `McpServerProofs` |
| `LlmBroker` | the broker's endpoints, thread pool, routing and mapping of outcomes | `llm_broker`; `LlmBrokerProofs` |

`MC...` modules give the constants of a module their values for TLC.

### SandboxLifecycle

`plan` and `at` are the try body and its next statement; `pc` says which part of
the function runs.  `listed`, `created`, `started`, `netCreated` are the host's
bookkeeping (`all_containers`, `is_created`, `is_started`,
`SandboxNetwork.is_created`), `docker`, `attached`, `networks`, `published` what
the daemon has, `staged`, `secrets`, `scratch` what lies on the host's disk.  The
two sides are kept apart because the errors are in the distance between them: a
container may exist that the host has not recorded, run although `is_started` is
False, or be gone although it is True.

One action stands for one call with its effect.  A call may raise without an
effect (`SetUpRaises`: always when it cannot succeed, else it counts as a fault)
or after it (`Interrupt`).  The clean-up takes the containers in the order of
`all_containers` and the networks in theirs.  `CopyLogFiles` stands for the
copying of log files, whose errors are collected and do not stop anything;
`SaveStateRaises` for the state file, whose error is not caught.

The daemon starts the workload in a step of its own (`AttachedStart`), because
`start_attached_docker_container` returns before the container runs.

`foreign` are the names that a container of another run bears, among those that are the
same in every run (`FixedName`: the Postgres container's, so that two servers cannot
open one volume).  The other run may be under way, or its host may have been killed and
its container left behind; `OtherRun` creates and removes it at any time.  Docker takes
a name once (`Exists`), and the clean-up goes by names.  A container left behind keeps
its name until somebody removes it by hand, and no run with agent memory succeeds before.

### SetupPlan and SandboxRun

A specification is represented by its capability set and by which tables stand beside
it (`given`, a set of the nine `Table`s that the creation of some container insists on).
The validator looks at the capabilities alone.  A `create_<sidecar>_container` function
whose table is absent raises `RuntimeError` before it has staged or created anything:
in the plan this is the call "refuse" (`Without`), which `CanSucceed` never lets
succeed.  Where the code asks differs: most functions begin with the question, Squid and
HAProxy ask when they compute the tag of their image, Docling and Embeddings ask for the
embedding model, which both read from `[docling]`, and Documents wants a directory that
exists on the host besides its table.  Other tables (`[llm_server]`, `[jina_reader]`,
`[code_execution]`, `[embeddings]`, `[otel_collector]`) may be absent.  What a table
contains (domains, environment variables) decides no call, except for the list of LLM
servers, which is a constant.  Options of `docker create` are left out, except the
networks.

`SandboxRun` lets no call fail for a reason outside the specification: what fails there
is a gap in what the validator accepts.  Reasons that lie in the host (a model file, a
Dockerfile or a secret it lacks) and in Docker are faults, and `SandboxLifecycle` lets
them strike any call.

### ProbedSandbox

The probes read `metisa.toml` and test what the container can reach; the plan was
made from the same file by other code.  `ProbedSandbox` lets the probes run in
the sandbox that `SandboxRun` has set up.  `tables` are the parts of the file that a
probe reads besides the capabilities (allowed domains, backend ports, tools,
resources, models), `answers` says whether `example.com` and the sidecars answer in
time, and `slip` is one place in which the sandbox differs from its plan: the
networks of a container, or the proxy variables of the workload.  Each probe is an
operator that looks at `Wired`, `Resolves` and `Fetch`, hence at the networks and
containers as they are; each group is a step, and the groups come in the runner's
order.  `RefusedByItsProbes` is the list of valid specifications whose probes fail
in the sandbox the manager builds for them.

### WorkloadBoot

`boot` is the container's first process, `receiver` the process that
`docker exec` starts, `host` the manager from `wait_until_container_running` on.
The key is "none", "partial" or "complete"; encryption is left out.  The
container's exit kills the receiver, the host's timeout kills its client only.
Rules and probes are represented by their verdict here.  `HostIsKilled` is the end of
the manager's process at any moment; the container stays.

### ConfinedBoot

`controls` are the hardening measures in place in a container, named by what puts
them there: arguments of `docker create`, mounts, contents of the image, the guards
of `sitecustomize`, and what Docker does unasked.  A container may lack some of them
(`Shortfalls`), because a daemon ignores an argument or an image is stale.  A probe is
represented by the set of controls each of which lets it pass on its own
(`{"source_ro", "landlock"}`: a write to the source is denied by either), and is
evaluated in the process and role that runs it (`InForce`).  `role`, `exported` and
`prober` are `_RUNTIME_ROLE` of the first process and of the probes, and the variable
that hands a role on.  The network, MCP and LLM groups pass here; they are in
`ProbedSandbox`.

Three controls can be missing without any probe noticing (`Unnoticed`): the
read-only mount of the source and `no-new-privileges`, both of which Landlock
doubles for the processes it binds, and the tmpfs of the secrets, which no probe
looks at.  The spawn guard lets a workload start its browser by the prefixes
`/ms-playwright/` and `/playwright/driver/`; they are the command "browser".

### DocumentSearch

A call is a tool call of the workload.  `tool` is its function in the MCP server,
which waits 240 s for an answer; `thread` is the handler thread of the
embeddings sidecar, which goes on after the tool has given up: that is how
several threads meet at `_INGESTION_LOCK` although the MCP server calls one tool
at a time.  `points` and `manifests` are the two Qdrant collections.  An upsert
that raises may still be applied, now, in part, or later (`lateWrites`,
`lateManifests`).  `searched`, `conversions` and `failures` exist for the
properties only.  Vectors are left out: a search is represented by the points it
ranks.

### MemoryRequests, MemoryService and AgentMemory

`MemoryRequests` has the checks of a request in their order (`RefusalStatus`), the
SQL statements as operators on a table, and the answer.  `AgentMemory` executes a
statement (`Execute`) and commits it in separate steps, because the handlers of
one sidecar run side by side: a statement that writes an existing row waits for
another transaction that has written it, then looks again.  The database
outlives the runs, so `run` counts them; a token that names an earlier run, or is
older than an hour, is refused.  A connection may fail at every step, also while
it commits; the end of a run kills its threads.  `MemoryService` is the same
table without threads, transactions and connections.

### PhraseChecks and PromptGuard

A word stands for the class of spellings a check maps to one standard word.  The
three phrase checks are modelled in full, with their replacements and dropped
words; normalization of a word (encodings, diacritics, scrambled letters) is
represented by its result.  Dropping and replacing words is said of positions
(`Compacted`: the words at the positions that stay) where the code builds lists; its
left-to-right loop replaces every occurrence of a phrase, since no two overlap.
`path`, `text`, `windows` are a request: the models are
represented by what they find in each window of tokens.  `start` and `window`
are the two loops, `lock` one lock per model.  The code filters words with
`if normalize_word:` (`metisa_prompt_guard/_helper.py:29`), which tests the function
and is always true, so that words without letters keep their place in a window:
the model has them as "".

### McpServer

`loop` is the call whose tool holds the event loop, `stage`, `parts`, `at`, `reasons`
are the local variables of that tool.  The tools of a kind share their actions:
those that fetch text and screen it, those that fetch and do not screen, those
that are nothing but a guard, and `screen_user_input`.  A text is represented by
what is true of it: blank, injected, labelled or none of these.  A guard may fail
(`GuardFails`), or report its own exception as a finding (`Finds`).  The client may
leave at any time; the tool goes on.  `cleared` records what the guards have found
clean for a call and exists for the properties only.  Authentication and the start
of the tool are one step.  `ResultsAreScreened` is about results.  An error of a tool
that quotes its back end (`QuotingTools`) carries a body that no guard has seen; the
model has these replies (`FetchFails`), and no document promises that they are screened.

### LlmBroker

A call is an HTTP request.  `_health` and `_v1_models` answer on the event loop; what
is sent on, and the health check of a model, waits in `queue` for one of the
`Threads` of `run_in_threadpool`.  `exchange` is what a thread has sent and to whom,
`portions` how much of the answer it has read.  A model's server may refuse the
connection, answer with any status and any body, fall silent (each socket operation
has a time-out of its own, so that only the operation ends) or never stop sending
(only the limit on the size ends that).  `http.client` is idealized: a server that sends
one "100 Continue" after the other, or trailer lines without end, keeps it reading where
the broker's limit does not apply, and such a server is not in the model.  A body is represented by what the checks
distinguish.  A client that leaves while its call is in the pool changes nothing
else and is left out; one that leaves while it sends is `Leave`.

The model shows what follows from the order of the checks and from what is not
caught: an online alias other than `gpt-4o` is accepted, listed and answered with
500; so is a request to the provider without `OPENAI_API_KEY`; JSON nested too deeply
raises `RecursionError`, which no clause expects, and gives 500 in a request and in an
answer; and a local model that is named `gpt-4o` is sent the provider's key.  No
document says otherwise, so that these are no findings; `KeyGoesToItsProvider` names the
last one as its exception.

## Runs and bounds

| Run | Instance | Shows |
|---|---|---|
| `lifecycle` | four plans: no network; Squid; Postgres with agent memory; LLM broker with its guards and two local models.  3 faults; the workload and some sidecars may exit.  Another run may hold, take or free the name of the Postgres container.  277,000 states | safety and liveness of a run and its clean-up |
| `set_up_residue`, `skip_containers` | one fault, no interrupt | what the documentation promises and the code does not keep |
| `sandbox_run` | all 2928 valid sets of the 16 deciding capabilities, with any of their tables where they need three or fewer, else with all; one LLM server; for a selection of them contents of tables, silence and slips.  1,143,000 states | plan, networks, reachability, which specifications have gaps, and plan against probes |
| `direct_localnet` | the same | a documented promise of a probe that a valid specification cannot keep |
| `boot` | the 21 probe groups of the runner; containers that lack nothing, any one control, or one of three pairs.  98,000 states | the start of the workload, what the probes let pass |
| `boot_failed_provisioning` | two probe groups | a documented promise that is not kept |
| `document_search` | three calls; a report of two chunks and a scan without text; 2 faults | manifests are true, answers are of whole documents, no needless conversion, the lock is handed on |
| `agent_memory` | three out of ten kinds of requests in two runs by two accounts; 3 identifiers; 1 fault.  428,000 states | refinement of the atomic table, isolation of accounts |
| `prompt_guard` | every text of up to 5 words over the vocabulary of one check, beside a blank request; a few requests at both threads at once; windows of 4 words that share 2.  658,000 states | which phrases are found, what answers mean, locks |
| `mcp_server` | two calls of 15 kinds; documents of up to two parts; 2 faults.  102,000 states | screening of results and inputs, every call is answered |
| `llm_broker` | two calls of 20 kinds, one thread, answers of two portions; three catalogs; the statuses 200, 204, 401, 429.  118,000 states | what is sent to whom, what passes for an answer, every call ends |

`MaxFaults` bounds the failed calls of one behaviour.  In `lifecycle` three faults
are one in the set-up and two in the clean-up, for instance a failed call, a failed
stop and a failed removal; one fault suffices for the documented promises, which is
why they are checked with one and without interrupts: the counterexample is the
plain failure of a single call.  In `document_search` two faults are a failed
ingestion and a failure of its repetition, and the third call meets both.  In
`agent_memory` one failing connection can hit each of the interleaved
transactions at each step.  In `prompt_guard` a text of five words has two windows
and a seam, with a window shorter than the others at the end; the phrases have two
or three words, the most a seam of two is meant to keep together, and the theorems
hold for 30 and 20, as in the code.  In `mcp_server` a second call is what waits
behind the first.  In `llm_broker` one thread is enough for a call to wait behind another;
two portions distinguish an answer that is within the limit, at it and beyond it; of the
statuses one is a success, one a success that is not 200, one is passed on and one is not; the
catalogs are the sample agent's, one without the key, and one whose local model bears
the provider's name.  In `boot` a pair of missing controls is what could hide one
control behind another: two that a check or Landlock doubles, or a guard with the module that
installs it; the theorem holds for all sets.  A probe may also fail without reason, once, in a container that lacks
nothing: what follows such a failure does not depend on the container.
`boot_failed_provisioning` runs `WorkloadBoot` alone with two groups, because its
question ends before the probes.  In `sandbox_run` a set-up ends at the first table that
is missing, so that one missing table beside others that are given is the case that
matters; each of the nine is missing in some specification.  The theorems hold for every
bound.

The type invariants `TypeOK` of the modules with proofs, and `EverySpanIsChecked` of
`PromptGuard`, are proved and not repeated in the configurations.
`CHECK_DEADLOCK` stays on everywhere; a finished behaviour stutters explicitly.

## Fairness

- `lifecycle`: weak fairness of the set-up, the clean-up and the return of
  `process.wait`, because every docker call of the host returns or has a deadline,
  and of the attached client, which ends when its container has ended.  Nothing is
  assumed of the containers: none has to exit or become healthy.
- `boot`: the host, the receiver and the programs of the start keep running and time
  passes; the workload itself may run for ever.
- `document_search`: some handler thread makes a step when one can.  Docling and
  Qdrant answer, fail or run into the client's time-out, and a free lock is given to
  somebody; which of the waiting threads gets it is not assumed.
- `agent_memory`: each handler thread goes on when it can.  Postgres queues the
  transactions that wait for a row.
- `prompt_guard`: some handler makes a step when one can; a model returns or raises.
- `mcp_server`: the event loop takes up a request it has read, and a running tool's
  next remote call is answered, fails or times out.  Clients need not send, and may
  leave.
- `llm_broker`: a free thread takes up the first call that waits, and each thread goes
  on, because every socket operation returns or times out.  Nothing is assumed of
  clients, and a server may send for ever.

## Proofs

`SandboxLifecycleProofs` proves, for all containers, networks, plans and numbers
of faults:

- `TypeCorrect`: types, the call index within the plan, the cursor within its list.
- `TrackedResidue`: `TrackedResidueIsReported`, which is not inductive.  The
  invariant `ResidueInv` adds what the clean-up has established so far: every
  recorded container before the cursor is gone or has an error, no network is
  recorded beyond the cursor without one, and errors have reached the terminal
  once the report is past.  It needs that the removal's two outcomes exclude each
  other and that the host records nothing any more once it cleans up.
- `WorkloadLast`: `WorkloadStartsLast`.  The invariant `StartInv` says that every
  health check and provisioning the plan has passed has its effect, that the
  attach is the only way for the workload's container to run, and that it can be
  pending only after the plan has passed it.

- `OthersLeftAlone`: `OtherRunsAreLeftAlone`.  The invariant `OwnInv` says that what a
  passed `docker create` has made, and what the host has recorded, exists until the
  clean-up comes to it; while it exists no other run can take its name, and the
  clean-up acts on recorded containers alone, once each.

- `LeaksAreConfined`: `LeakIsConfined`.  The invariant `LeakInv` attributes everything to
  a call: the calls behind the call index have had their effect, what exists at the
  daemon or on the disk was put there by one of them or by the last one, and the clean-up
  is behind what it has deleted.  The shape of the plan then leaves only the failed call,
  or the batch of LLM servers around it, between a creation and its record.
- `FaultFreeRunsAreClean`: `FaultFreeRunIsClean`.  The invariant `FaultFreeInv` says that
  without faults nothing stands in the way of a removal: a container with a stop behind
  it does not run, and no error is on record.
- `StagedFilesOutlive`: the action property `FilesOutliveContainers`, from `ResidueInv`.

They rest on the assumptions of the constants: `ContainersAssumption` and
`OrdersAssumption` (the lists name every container and network, no container twice) and
`PlansAssumption` (the shape of a plan).

`SandboxRunProofs` discharges these assumptions for the plans the manager really follows,
and proves the properties of `SandboxRun` and `ProbedSandbox`.  Its theorems hold for every
capability set the validator accepts, every list of LLM servers, all tables and all slips;
`sandbox_run` has one LLM server and a selection of the others.

- `EveryPlanIsWellFormed`: `SetupSequence` is a concatenation of sixteen parts, and what
  has to hold of a call speaks of calls before and behind it.  A part is `Good` when
  it is orderly by itself (every call has its prerequisites in the part), makes exactly the
  calls one container needs, and none of them twice; a `Block` is a part as far as the
  capabilities want it; `Front` is what holds of a beginning of the plan, the networks
  first.  Each is shown to survive the concatenation with a part that concerns other
  containers, so that the plan is built up container by container without induction.
- `RunIsALifecycle`: `SandboxRun` implements `SandboxLifecycle` with these plans, so that the
  theorems above hold of every valid specification.
- `WorkloadConfinement`, `SetUpSucceeds`, `CalledServicesAreReachable` and
  `LaunchedSandboxIsComplete` from the inductive invariant `StateFollowsCalls`: what exists at
  the daemon, what was seen healthy and what has its key is what the calls behind the call
  index have made, neither more nor less.  Together with the plan's shape it says what a
  call finds: none fails but for a missing network or table (`CallsSucceed`), and when the
  attached start is behind, every wanted container is complete (`WhenLaunched`).  That a
  missing table stops every set-up before the workload is a matter of order: no "refuse"
  lies behind the call index, and a plan holds one, in front of the calls of its
  container and hence of the workload's (`RefusalFirst`), exactly when a table is missing
  (`MissingTables`).
- `ProbesOnlyLook`, `ProbesEnforceDeclaration` and `PlanAndProbesAgree` from `VerdictsStand`: a
  verdict given is what its group would find now, because the key of the workload comes with the last
  call of the plan (`KeyComesLast`) and nothing that a probe looks at changes behind it.
  What the probes must find in a complete sandbox is then a calculation with networks
  (`ResolvedAsPlanned`), and so is the list of specifications they refuse.

`SlipAssumption` says that no container bears one of the two names `ProbedSandbox` uses
for slips without a container, `LlmServersAssumption` that LLM servers differ from one another and
from the other containers, as `llm_server_` and the parser's check of aliases make sure.

The proofs changed the models in three places.  `NetworkMissing` counted `llm_server`
even when no model is declared; the code's loop then creates nothing, and nothing is
missing.  `Fetch` had overlapping cases, which TLC takes in their order and logic in any.
And the shape of plans had to say more: that creations are recorded at once, that connected networks
were made, and that LLM servers are listed.

`BootProofs` proves, for every number of probe groups:

- `BootTypes`; `KeyIsWhole`, `WorkloadGuarded` and `HostAgrees` from one inductive
  invariant `BootInv`: the key is linked only after it was written and never
  disappears, each stage of the first process remembers what the earlier ones
  established, and a receiver runs only in a container that runs.
- `BootImplementsSequence`: every step of host, receiver and first process is, under
  the mapping `stage`, a step of `StartupSequence` or invisible.

and, for `ConfinedBoot` and every family of missing controls:

- `ConfinedImplementsBoot`: controls and roles only restrict the start, so that the
  theorems above hold of it as well.
- `RunsConfined` and `CannotStartPython` from two invariants.  `RoleInv` says which role
  an interpreter has at each stage, so that a probe is evaluated in the role and process
  that the code gives it.  `CheckInv` says that the groups before `probeAt` that have not failed pass
  now.  The workload starts after all groups have passed; since every control outside
  `Unnoticed` is the only way to pass some check, no other control is missing.

`DocumentSearchProofs` proves its three safety properties for all calls, documents
and chunks from `SearchInv`: who ingests holds the lock and is alone; a manifest,
written or still on its way, is preceded by all the points; a conversion is in use,
has led to a manifest, or its ingestion has failed.

`AgentMemoryProofs` proves `AnswersOwn`, `NamespacesSeparate` and the refinement
`MemoryIsAtomic` for all requests, accounts and runs from `MemoryInv`: a slot holds one
request; at most one transaction writes a row, and what it will write and answer is
what the statement would do to the committed table at this very moment, which is
why the effect can be placed at the commit; results and answers carry rows of
the token's account only.  A read has its effect when it executes.

`PromptGuardProofs` has two parts.  The first is about `PhraseChecks` alone and ends in
`ChecksMeetReference`: for a text of any length, the three checks, which drop and
replace words and then compare neighbours, find exactly what the reference says of
positions of the text itself.  It needs no induction over the words: the number of
members of a set of positions up to a given one is an injection into
`1..Cardinality(S)`, hence onto it (`PositionsAreOrdered`), so that words beside each
other after compaction are those with no kept position between them (`Neighbours`);
and a replacement takes away only what follows its own "change" (`TargetPositions`),
so that it adds this word and neither joins nor separates the others.

The second part proves, for all window sizes and texts, `SpansAreChecked` (every span
of one word more than the overlap lies in a checked window), `AnswersAreTrue`,
`OneInferencePerModel`, `FoundStandsInText` and `ShortAttemptsFound` from `GuardInv`: every span
that begins before the next window lies in a checked one, which begins within the
text; the token windows before the current one were clean (or their labels are kept);
a lock is taken exactly while one thread is between windows; and what was found stands
in the text.  A window says of its positions what the text says of them
(`SaysOfPart`), and a longer stretch says no less (`SaysMore`): with
`ChecksMeetReference` a short attempt is found in the window that holds its span.

`McpServerProofs` proves `ScreenedResults` and `CleanInputs` for all requests, texts and
answers of back ends from `McpInv`: the parts before the cursor of a running tool are
blank or were found clean, no reason against an input means that the guards asked
so far cleared it, and every reply so far satisfies both properties.

`LlmBrokerProofs` proves `FaithfulExchanges` for all requests, catalogs, statuses and
numbers of threads from `BrokerInv`: `QueueInv` says that a call waits once and is
marked so, `CallInv` what each stage of a call has established (only what was
accepted waits; its thread opens only what it can route and has a key for; it sends
only after opening; it reads only after a 200), and both survive the steps of other
calls.

The assumptions are the types of the constants and, where needed, that names
differ (`NamesAssumption`: no row is a missing row; `ChunksAssumption` of
`PromptGuard`: windows overlap by less than their size, and no label of the moderation
model is one of the three indicators).  Each is evaluated by TLC
in the runs of its module.

Only model-checked are the liveness properties, which need fairness and `ENABLED`.  Every
invariant and action property of the passing runs is a theorem.

## Where code and documentation differ

- A failed creation in a batch of LLM servers leaves the earlier ones behind, a
  container whose `network connect` fails is left behind, and so are staged source
  and secrets when the set-up fails before `set_created` (`set_up_residue`).
- An error while saving one container's state leaves all later containers and the
  networks in place and the collected errors unprinted (`skip_containers`).
- A receiver that fails to unlink its temporary file reports failed provisioning
  after the key is in place; the workload may start until the host stops it
  (`boot_failed_provisioning`).
- A workload with `localnet` and no MCP server, but with agent memory or the LLM broker,
  is accepted; HAProxy is put on the backend network, where the workload cannot
  resolve it, and its own probes refuse to start it (`direct_localnet`).

`ProbesAgreeWithPlan` shows that the probes accept every other sandbox built as planned, except
for these valid specifications: direct internet access without `example.com` among
the allowed domains or with `example.invalid` among them; a Jina reader without its tool or
without `example.com`; a backend on HAProxy's health port 8404; a broker that names a
local model which no server has.

`SetUpFailsOnlyForGapsInSpecification` is exact about what the validator leaves to the
author of a specification (`README.md:198-200`): a valid one comes to the start of its
workload unless a container belongs on a network that no capability asks for, or needs a
table that is not given; then the set-up raises, with other sidecars up, and cleans up.

`LeakIsConfined` states how far the first one goes: nothing else is ever left
behind without a report.

## Plan

Done first, because everything else depends on it: the life of a run, its plan, the
start of the workload.  Then the sidecars whose state or concurrency can go wrong:
document search, agent memory, prompt guard, MCP server, LLM broker; and the
container as it sees itself: probes, controls and roles of processes.  Next, in this
order:

1. Rules of the validator about domains and addresses against what HAProxy and Squid are
   configured with; the rights `metisa_landlock` grants per path.
2. What each guard of `sitecustomize` denies: the paths an import may come from, the
   audit events that stand for a socket.
3. Start of Docker and the image builds of the command line.

Abstract specifications still worth stating: what a run promises (`SandboxLifecycle`
against a three-state run that leaves nothing unreported), and a screened channel
that `McpServer` implements.  Theorems planned next: these two refinements.

## Not modelled

- Generated and third-party programs: Dockerfiles, configurations of Squid, HAProxy,
  Qdrant, Postgres, the collector, llama.cpp.  They appear as services that answer,
  fail or time out.
- Neural networks, vectors and document conversion: represented by their results.
- Probes of declared environment variables, of screened input and the diagnostic
  one.  How a probe finds out (paths, system calls, error texts) is left out; what makes
  it pass is modelled.
- What no probe looks at: whether a workload that shares the backend network with the
  broker can reach Squid through it, and whether addresses are reachable that no alias
  names.  The models decide reachability by networks and aliases.
- The entity guard: the code around Presidio is a lock and a filter of names; which of two
  overlapping entities wins is decided in the library.  `McpServer` has its answers and
  failures.
- The options of `docker create` apart from networks, the text of commands, outputs
  and terminal messages: nothing modelled depends on them.
- The specification parser: a field-by-field reading of a file.
- Syntax of HTTP, JSON schemas, URLs and file names: one outcome, accepted or
  refused.
