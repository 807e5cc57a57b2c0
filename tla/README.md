# GovMesh, specified

TLA+ modules, TLC configurations and TLAPS proofs for GovMesh: a control plane that
hands tasks to node agents on the machines of an office, with an audit chain and a store
of its checkpoints, a registry of nodes behind tokens, a review queue, a skill registry,
a quarantine gateway, a registry of local models and a local RAG index with masking. `PROJECT.json` is the index: components, runs, mutants, the
lines each definition stands for, findings, hazards, theorems.

Check a run with `tlc -config <run>.cfg MC<module>`, a proof with `tlapm <module>Proofs.tla`.

## The system

Everything is Python. Three FastAPI programs (control plane, quarantine gateway, admin
UI) and a command-line agent share library packages. Handlers are plain `def`
functions, so FastAPI runs them on a pool of threads, and **nothing in the repository
takes a lock**. Each handler is: read something, compute a copy, store the copy, append
an audit event. The steps of two handlers interleave; that is where most of what can go
wrong here comes from. The rest comes from files that are appended to or rewritten in
place, and from programs that end in between.

| Component (source) | State | Operations | Talks to | Hard part | What makes it correct |
|---|---|---|---|---|---|
| Audit chain (`govmesh_common/audit.py`) | a JSONL file; a signing key per process | append, list, verify, head, export/verify checkpoint | called by every handler | two appends on two threads; an event that comes twice; half-written lines; a changed key | links resolve, forks only where appends overlap, nothing acknowledged is lost, `verify()` fails only for a reason |
| Task queue (`control_plane/app.py`, `repository.py`) | SQLite table `tasks`, one transaction per call | create, next, result, retry | audit chain, agents | stale copies of rows; retry budget; kill between save and audit | one agent per task, budget kept, audit tells the truth |
| Node agent (`node_agent/cli.py`) | the task in hand (memory) | loop: ask, execute, post | task queue over HTTP, 5 s timeout | lost answers, death, failing tasks | no task lost, a healthy task is executed in the end |
| Nodes (`control_plane/app.py`, `repository.py`) | SQLite table `nodes` | register, heartbeat, list by pages | audit chain, access control | overlapping heartbeats; a list that grows while it is read | heartbeats are kept, pages miss nobody who stays in the list, audit tells the truth |
| Review queue (`govmesh_review/queue.py`) | a JSONL file, last line of an id counts | create, decide, list | control plane, audit chain | overlapping decisions; half-written lines | decided once; answered is stored |
| Skill registry (`govmesh_common/skill_registry.py`) | three dictionaries in memory | draft, review, approve, reject, deploy, execute-check | control plane, audit chain | check-then-set in `deploy`; a call that raises half way; restart | only approved skills execute |
| Quarantine gateway (`quarantine_gateway/app.py`) | two dictionaries in memory, files | upload, scan, sanitize, approve, reject | inspection, CDR, audit chain | long scans on stale copies; approve against reject | nothing with findings is registered |
| Model registry (`govmesh_runtime/model_registry.py`) | a JSON file shared by programs | register, approve, list, get | local provider | rewrite in place; lost update | an approval covers the registered bytes |
| Local provider (`govmesh_runtime/providers.py`) | the record it was built from | build, generate | registry, model file, executable | file replaced after its check | only approved bytes are started |
| RAG index (`govmesh_rag/*`) | a list, or an SQLite table, of chunks | index, query | scanner, embeddings | cuts inside a finding; mask offsets; crash half way; search cut before filtering | nothing found leaks, nothing else is lost |
| Policy scanner (`govmesh_policy/scanner.py`) | none | scan, mask, alert | RAG, CDR, agent, gateway | nested spans | masks cover findings |
| Checkpoint store (`govmesh_common/checkpoint_store.py`) | a JSONL hash chain | append, verify, latest | exports of the audit chain | two programs that export at once; the chain grows meanwhile | checkpoints stay true of the chain, the store verifies and advances |
| Tokens, proxy identity (`api_auth.py`, `proxy_signature.py`) | none (environment) | read policy, authenticate, sign, verify | every handler | one token under two names, several ways in at once, clock skew | the role asked for is the role had |
| Grounding (`govmesh_runtime/grounding.py`) | none | verify | generation | thresholds | an answer without evidence needs review |
| Inspection, CDR (`govmesh_quarantine/inspection.py`, `cdr.py`) | none | inspect, sanitize | gateway | limits of an archive, end of the sample | what is registered after a scan keeps to the limits |
| External scanners (`govmesh_quarantine/external.py`) | none | run | tests only | a scanner that fails | a failure is not a clean result |
| Admin UI, benchmark, scripts | reports | read-only or run by hand | control plane | none | none |

## Modules

Each module is read beside the source it models; `map` in `PROJECT.json` has the lines.

| Module | Models | State in the code | Actions in the code |
|---|---|---|---|
| `AuditLog` | abstract: what the chain promises | `entries` = the file's events, `contended` = appends have overlapped | `Add`, `Contend` |
| `TaskBoard` | abstract: what the task routes promise | `board` = the rows, `contended` = requests have overlapped | `Submit`, `HandOut`, `Finish`, `Retry`, `Undo`, `Contend` |
| `ReviewRegister` | abstract: what the review queue promises | `latest`, `writes` = state of a review and how often it was written | `Open`, `Settle`, `Contend` |
| `AuditChain` | `AuditChain` | `log` = the lines, `torn` = a damaged line comes after them, `unended` = the last of them lacks its newline, `pending` = an `append()` between its read and its write, `key` = `signing_key` | `ReadLastHash` (up to line 50) and `WriteLine`/`FailWrite`/`TearWrite` are `append()`; `Restart` |
| `TaskQueue` | task handlers and `SQLiteRepository` | `tasks` = the table; `frame[h]` = the handler on thread `h`, between two repository calls; `trail` = the last audit event of a task | `CreateTask`, `SelectNext`, `ReceiveResult`, `ReceiveRetry`, `RereadForRetry`, `SaveTask`, `AppendAudit`; `FailRequest` (a call that raises), `Restart` |
| `WorkerFleet` | agents composed with `TaskQueue` | `agent[n]` = where node `n`'s loop stands | `Ask`, `Post`, `Respond` (the answer, with the handler's last step), `FailResponse`, `Die`, `Start`, `ServerRestart`, `Submit`, `Requeue`, `TakeUnnamed` (a request for a task that names no node) |
| `CheckpointStore` | `CheckpointStore`, composed with `AuditChain` | `store` = the lines, `storeTorn` = a damaged line after them, `hand[x]` = a program between export, link and write | `Export`, then `LinkToLast` and `StoreLine`/`TearStore` are `append()`; `End`; and all of `AuditChain`'s |
| `AccessControl` | `ApiAuthPolicy`, proxy identities | none: operators | `Startable`, `TokenRoles`, `Vouched`, `Identity`, `Admits` |
| `NodeRegistry` | node handlers, behind `AccessControl` | `nodes` = the table, `frame[h]` = the request on thread `h`, between two repository calls, `trail` = the last event about a node, `running` = the environment the server was started with, `reader` = a client between two pages | `Register`, `ReadForHeartbeat`, `SaveNode`, `AppendAudit`, `FailRequest`, `ReadPage` (of all nodes or those of one status), `Tick`, `Restart` |
| `Inspection` | `inspect_file`, outcome of `sanitize_file` | none: operators | `Findings` and its parts |
| `Quarantine` | the gateway's handlers, with `Inspection` | `records`, `registry` = its dictionaries | one action per request, then `PutRecord`, `ChangeRegistry`, `AppendAudit`/`FailAudit`; `Restart` |
| `SkillRegistry` | `GovSkillRegistry` and its handlers | `skills`, `versions`, `approvals` = its dictionaries; `trail` = the decisions in the audit file, which outlives them | one action per request, then `SetSkill`, `SetVersion` or `MissVersion`, `RecordDecision`, `AppendAudit`/`FailAudit`; `Restart` |
| `ReviewQueue` | `ReviewQueue` and its handlers | `file` = the lines | `Create`, `Decide`, then `AppendLine`/`FailAppend`/`TearAppend`, `Answer`/`FailAudit`; `Restart` |
| `ModelRegistry` | `ModelRegistry` | `file` = the JSON file, also truncated or garbled; `disk` = model files | `Create`, `Register`, `Approve` up to the write; `OpenFile`, `FillFile` are `write_text()`; `End` |
| `ModelGate` | the provider composed with `ModelRegistry` | `provider[r]` = what a runtime was built from | `Load`, `Check`, `Start`, `Drop`, `Swap` |
| `Chunker` | `KoreanTextChunker` | none: operators | `ChunkText`, `ChunkParagraph`, `HardSplit` |
| `Masking` | `scan_text`, `_find`, `mask_text` | none: operators | `FoundIn`, `MaskText`, `ScanText` |
| `RagIndex` | `LocalRAGService` and both vector stores, with `Chunker` and `Masking` | `store` = the chunks, `job` = an `index_document()` in progress | `Begin`, `AddChunk`, `Finish`, `Query`, `Restart` |
| `MC*` | finite instances | | |
| `AuditChainProofs` (chain and checkpoint store), `TaskQueueProofs`, `NodeRegistryProofs`, `QuarantineProofs`, `SkillRegistryProofs`, `ModelGateProofs`, `ReviewQueueProofs`, `RagIndexProofs` | theorems | | |

Operators marked *mutant* in a comment are plausible mistakes in the definition that
follows them; no specification uses them. With one put in place of its original,
TLC refutes the property `PROJECT.json` names.

### What is abstracted

- **Atomicity.** One read of a file or a table, one SQLite transaction, one `write()` to
  a file opened for appending and one assignment to a dictionary are atomic. Between two
  of them any other thread, and the end of the process, may come.
- **Digests** are injective in what they cover: the digest of an event and its link *is*
  the sequence of the events up to it, so that one event appended twice to one line has
  one digest, as in the code. A file's digest is named by its content. An HMAC is the
  record of what it was made from.
- **Audit trail.** In the modules other than `AuditChain` and `CheckpointStore` the trail
  keeps the last event about a thing (the set of decisions, for skills): the properties ask
  no more. An `append()` that raises is an action: `FailRequest`, `FailAudit`.
- **Identities** that the code issues are fresh: uuid4 never repeats. After a restart,
  imports, which were only in memory, are new ones, so the constants that name them may be
  used again. The one identity a client can choose is that of an event it posts to
  `POST /audit/events`: nothing stops it from posting one twice, and `AuditChain` lets
  every append, of any thread, be of any event, also of one that is in the file already.
- **Lines.** A cut exactly before the newline leaves a line that can be read until the
  next append is joined to it; `AuditChain` has both kinds of cut, `CheckpointStore` and
  `ReviewQueue` every cut as a damaged line. These two read with `splitlines()`
  (`checkpoint_store.py:41`, `queue.py:114`), which also breaks at U+0085, U+2028 and
  U+2029: a text that holds one of them is stored as a line that cannot be read, which is
  a `torn` file without a crash, and no text of the instances does.
- **Ranking** of tasks is the task's number (priority, then id: both fixed at creation);
  ranking of chunks is any order.
- **Text** is a sequence of numbered characters; where a regular expression matches or
  cuts comes with the text. Two kinds of finding with one span are one.
  `DocumentsAssumption` says what every text is like: no sentence is empty or starts or
  ends with white space (`part.strip()`, `if part.strip()`), and no finding does. White
  space inside a sentence is as long as it is in the text; between two sentences it is
  one `Space`, as `_chunk_paragraph` joins them, though a paragraph short enough to be
  kept whole keeps it as it was. A finding is a piece of the text and may reach over the
  empty line between two paragraphs (`\s*`, `\s+` of `scanner.py:85,91`); between two
  sentences of one paragraph none does, because none of the patterns asks for white space
  behind a character that ends a sentence (`chunker.py:32`). Two characters of a paragraph
  that are no white space have different names, which is what lets a property say that
  *this* character is masked or kept.
- **Files** that are uploaded are what the inspection looks at: a suffix, the entries of
  an archive with their sizes, and where in the file each signature ends.
- **Heartbeats** carry three numbers that are updated alike; one stands for all. Time is
  a clock of few ticks, and the skew allowed to a proxy is a constant.
- **Access.** `NodeRegistry` asks `AccessControl` whether any client of the instance is
  admitted to a route; the modules of other handlers start from a request that was.
- `approved` and `license_review_status` of a model record are set together, and are one
  field. The hash of the llama.cpp executable is left out.

### History variables

They record what happened and guard nothing that the code does not: `overlapped` (two
requests were in progress at once; `crossed` for two exporting programs, `contended` for
the nodes this happened to), `unaudited` (the tasks or nodes whose last saved change has
no event, because its request raised or ended before it; the next event about one takes
it out again), `halfDone` (a call raised half way), `cutShort` (a program ended inside
`write_text`), `asked`, `answered`, `acked` (how often each event's append returned),
`latest`, `issued` (the skill ids uuid4 has given out) and `left` of a reader (the nodes
that have gone out of the list it reads). "Without overlap" in a property means: in every behaviour up
to the first moment two requests were in progress. The rest of the behaviour is still
explored, for the properties that do not say it.

## Runs

| Run | Bounds | Distinct states | Question |
|---|---|---|---|
| `CheckpointStore` | 2 threads, 2 events that may be appended again and again, a key or none, no append begins at a file of 2 lines; 2 exporting programs, 2 exports | 1 221 000 | What holds of the chain and of the store of its checkpoints however appends and exports interleave, fail and tear; do both implement `AuditLog`? |
| `AuditChain_fork` | 2 threads, 3 lines | violated | Does `verify()` always answer true of an untouched file? No (finding) |
| `WorkerFleet` | 2 tasks (the last always fails), 2 threads, 2 agents | 25 000 | With no failures of agents: is work lost, duplicated, undone, finished? |
| `WorkerFleet_chaos` | 1 task, 2 threads, 2 agents that die, clients that name no node, requests that raise, server restarts, operator retries, budget 1 | 921 000 | Budget, audit, second assignments: does the table implement `TaskBoard`? Can a task fail for no reason of its own? |
| `WorkerFleet_poison` | 2 tasks (the first always fails), 1 agent | violated | Is a failing task bypassed? No (finding) |
| `NodeRegistry` | 2 nodes, one of which sends heartbeats, 2 threads, requests that raise, pages of 1 of all nodes or of the registered ones, 2 times, 3 deployments of this server; for the properties of access, 2 tokens under the first 3 variables in every way, with and without an allow list and a proxy | 1 850 000 | Are heartbeats kept and audited, whom can a list read by pages miss, and is everybody admitted entitled? |
| `Quarantine` | 1 import of any of 10 files at the limits of the inspection, 2 threads, audits that raise, restarts | 459 000 | What may reach the registry of approved imports? |
| `Quarantine_unscanned` | 1 import, 1 thread | violated | Is everything registered scanned? No (finding) |
| `SkillRegistry` | 2 skills, 2 threads, no decision begins with 2 on record, audits that raise, restarts | 869 000 | What stands behind a skill that may execute, and behind the audit file? |
| `ReviewQueue` | 2 reviews, 2 threads, torn writes, audits that raise | 607 000 | Are decisions single and durable; does the file implement `ReviewRegister`? |
| `ModelGate` | 2 models, 2 programs, 1 path, 2 contents, 3 providers, 1 runtime | 981 000 | What does an approval cover, what is started, what is lost? |
| `RagIndex` | texts of up to 11 characters, chunks of 4, overlap 2, masks of 2, 2 jobs | 296 000 | Is anything leaked or lost on the way from text to answer? |

Type invariants are proved, not run, except in `RagIndex`, where `TypeOK` also bounds the
length of every chunk.

Why these bounds. Every race here needs two requests on one thing, and a third adds no
new pair of steps; two threads show each of them, and the violated runs and the mutants
show that the instances are large enough to go wrong. Retries are asked for past the
budget, events past a fork and its repair, exports across appends, files replaced twice.
Two tasks are needed only where the order of tasks matters, two reviews where a line of
one may hide another's, two nodes where one moves another to a later page, two skills
because a second one can be drafted after a restart has forgotten the first, while the
audit file still tells of it. Imports never refer to each other: one is enough. The files of `Quarantine` stand at
each limit and one step beyond it. In `RagIndex` the lengths keep the proportions of the
code (overlap < chunk, mask < chunk, finding on either side of overlap + 1 and of the
mask) in texts just long enough for several cuts. The sharp boundary
`Len(f) <= OverlapChars + 1` was found by TLC: a finding longer than that can fall
between two pieces. Where a theorem states the property too, no bound matters.

Deadlock is checked except in `WorkerFleet` and `WorkerFleet_poison`, where every task
may have ended.

The exemption that `OwnLinesNeverFork` makes for one event appended by two threads at once
needs four lines; the theorem covers it, and the chain without the store was explored with
that many (1 060 000 states) before it was proved.

Symmetry is used over threads, programs, events, nodes of the fleet, models, contents and
the values of heartbeats in runs that check safety only; `WorkerFleet` checks liveness and uses none.

### Fairness

`FleetSpec` assumes weak fairness of each handler thread's next step (`Save`, `Reread`,
`Respond`) and of each agent's `Ask` and `Post`: the operating system runs a thread that
can go on, and the agent's loop never stops by itself. `Start` is not fair: an agent that
ended is started by the next logon or boot (`scripts/install_windows_service.ps1`), or by
nobody. Operators (`Submit`, `Requeue`) and failures (`Die`, `FailResponse`,
`ServerRestart`) are not fair either. Under it `HealthyTasksFinish` holds when
no agent is lost and no failing task ranks before the healthy one; each of the two
conditions is needed (`WorkerFleet_poison`, and *a dead agent* below). The other
specifications state safety and have no fairness: nothing in them has to happen.

## Proofs

TLAPS proves, for all values of the constants under the named assumptions
(`ConstantsAssumption` and its like, which TLC evaluates on each run):

- `AuditChainProofs`
  - `TypeCorrect`, `LinksAlwaysResolve`, `ForksNeedTwoThreads`. None of the three is
    inductive: a thread between its read and its write holds a link that only later
    becomes part of the file. `IInv` adds that lines hold the digest of their own content
    (`Hashed`), and that what a thread holds links to a stored line it has not linked to
    before (`PendingLinks`), unless two threads have put one event in one place, and the
    last hash has thereby come back (`Twins`). That it comes back in no other way
    (`LastHashIsFresh`) is where injectivity is used.
  - `AckedIsReadable`: an event is in the file at least as often as its append returned,
    unless a line is damaged, by the number of its lines (`LinesAfterAppend`).
  - `SerialChainVerifies`: with `Serial` (until appends overlap at most one thread holds
    a line and its link is the current last hash, and every line links to the one
    before it) on top of `IInv`.
  - `ChainImplementsLog`: initial states and steps of `AuditChain` map to those of
    `AuditLog`, for any number of threads. `FailWrite`, restarts and a `TearWrite` that
    damages its line are stutters; one that cuts only the newline adds a line.
- `AuditChainProofs`, of `CheckpointStore`
  - `StoreKeepsChain`: behaviours with exports are behaviours of the chain, so that
    all of the above holds of them. `StoreTypeCorrect`.
  - `CheckpointsStayTrue`: `AllOnChain` says of every copy of a checkpoint (just exported,
    linked, stored) that it names a prefix of the chain, and `HandLinks` where the line
    in a program's hand links to. `verify_checkpoint()` raises on a damaged chain, accepts
    a checkpoint while its prefix is the whole chain and its key the present one, and
    refuses it afterwards.
  - `SerialStoreAdvances`: `OneAtATime` says that one program is exporting, that its
    checkpoint is beyond all that are stored, and that its link is the last line.
  - `StoreKeepsPromise`: the store, too, implements `AuditLog`.
- `TaskQueueProofs`
  - `TypeCorrect`, `BudgetKept`. The budget is inductive once it is said of the rows in the
    threads' hands too, which are saved whole over whatever the table then holds, and
    with it that rows are never deleted (`RereadExists`).
  - `AuditIsFaithful`, `AssignedOnce`: until requests overlap, `SerialFrames` says what the
    one request in progress holds is made from the present row, and `Trailed` that the
    last event describes the row, or is the one to come, of every task that is not in
    `unaudited`. An assignment asked for without a node says nothing of the node
    (`NamesAsker`): the row keeps the one it had.
  - `QueueImplementsBoard`: every save is one atomic request of `TaskBoard`, on the
    table as it is at the save, and all other steps are stutters or contentions.
    `SavesMatch` says that what is about to be saved is the outcome of the request on the
    present row, and the task handed out still the first in line. Once requests have
    overlapped a save is an `Undo`, of which the board says only what is true: no task is
    deleted and none served beyond its retries. With `FleetKeepsQueue` this holds of the
    agents too.
  - `FleetKeepsQueue`: behaviours of agents are behaviours of the queue.
  - `FailuresHaveReasons`: failures of agents and server allowed (`FailuresAreFinal`).
  - `NoTaskIsLost`, for agents and servers that do not fail: `Minded` names for every
    assigned row, and every row about to be, the agent or the request that minds it.
    `HolderIsNamed`, `ResultIsLast`: without operator's retries either, `Matched` ties
    each agent's task, each waiting request and the row to one another.
- `NodeRegistryProofs`
  - `TypeCorrect`, `AuditedAsSaved`, `KeepsHeartbeats`: `Accounted` says that a node with two
    requests is in `contended`, and `Fresh`, `Current` and `Described` compare what each
    request holds with the row, and the row with the last event, for every other node.
  - `PagesAreComplete`, for the list of all nodes and those of one status: who was in it
    before, has a place (`Place`, the number of listed nodes before it) on an earlier page
    and is not behind a node that has left (`Undisturbed`) has been seen (`SeenBefore`).
    Its place only grows, when nodes register or come into the status (`PlacesStay`),
    and a page that is not full is the last: `FullPage`, a fact about any finite set of
    numbers, proved by the least node whose place is beyond the page.
  - `EntitledAlways`, `TokensAlways`: for any environment, request and time.
- `QuarantineProofs`: `TypeCorrect`, `RegistryStaysClean`, `RegistersHarmless`,
  `ApprovedIsRegistered`, `FindingsBar`. What the registry may hold is inductive only when
  it also speaks of the copies on their way there (`IInv`); that no finding means within
  the limits follows from the operators of `Inspection`. The last two hold while requests
  do not overlap: `Serial` says there is one request and how far it has come, `Agrees`
  what each stage has already settled; without `Serial` the two are false, which is the
  hazard.
- `SkillRegistryProofs`: `TypeCorrect`, `AuditedIsRecorded`, `ApprovedBefore`, by what every
  request holds (`DecisionsRecorded`, `ApprovalBehind`). The audit file survives a restart
  and the records do not, so that `TrailInv` has to say what becomes of the skills a
  restart has forgotten (`Lost`): no request can bring one back.
  `SerialExecution`, where `Settled`
  and `UnderWay` say how far apart status, version and last decision may be.
- `ModelGateProofs`
  - `TypeCorrect`, `RecordsAreOfRegistrations`, `StartsAreOfRegistrations`. Each follows
    once every listing a program holds, the file holds or a provider was started from is
    said to be faithful to what was registered and asked (`FileFaithful`,
    `FramesFaithful`, `ProvidersFaithful`): a listing travels through all three before
    anyone acts on it.
  - `AnswersAreInFile`, `LoadedStaysApproved`: until calls overlap or a write is cut short,
    what the one program in a call will write has all that was answered, all that
    runtimes were built from (`Current`) and every approval of the file it replaces
    (`Keeps`), since a runtime may be built from that file until it is opened.
- `ReviewQueueProofs`: `TypeCorrect`, `ThreadsDecideOnce`, `AnswersAreStored`,
  `SerialDecidesOnce`, `QueueImplementsRegister`. `decide` looks at the last line about a review only; that this
  says whether any line decides it needs the order of the lines: the one that opens a
  review is the first about it (`OpenFirst`), since nothing else can be about it until it
  is written (`FreshAlone`). `Serial` adds that without overlap nobody decides between a
  request's read and its write. For the register the last line about a review must exist
  and be its state: `HasLast`, an invariant because lines are only added one by one, and
  `OpenedBefore`, that nobody is about to decide what was never opened. `writes` counts
  lines, so that a second decision is a step of the register even if it repeats the first.

- `RagIndexProofs`, for any documents, sizes of chunk, overlap and mask, and both stores
  - *What the operators compute.* `MaskText` is a fold over spans, `HardSplit` and
    `FlattenSeq` are recursive functions and `ChunkParagraph` folds over sentences. A
    recursive definition is a `CHOOSE`, so each proof first shows that a solution exists
    (`RecursionExists`, from ranks that fall), then unfolds it step by step: induction is
    on sets of numbers with 0 and successors (`NatInduct`) or on subsets of a finite set
    (`SubsetInduct`), themselves proved from the well-foundedness of `<`.
  - `MaskIsExact`: covering the spans from the last to the first leaves exactly the
    characters that stand in none, unless a mask shifts a longer span; `Intact` says so
    of the text before any span that is still to come, and of what can be read behind it.
    With it `FindingsAreMasked`.
  - `HardSplitPieces`: pieces are neither empty nor too long, and everything short that
    stands in the text stands in one of them (`Pieces`, `MoreSlices`: two slices that
    overlap have it all). `ParagraphChunks`, `DocumentChunks` carry this through packing
    and over the paragraphs. With it `TypeCorrect`, `ShortFindingsAreSeen` and, for
    windows of one character, that every character of a document is in the text of a
    stored chunk: one half of `TheRestIsKept`. The other half, that a chunk keeps all that
    is in none of its findings, is `MaskIsExact` again, chunk by chunk.
  - `LatestReplaces`, `ContextsStayClean`, `AnswersAreFull`: `IInv` says that every stored
    chunk was made of a chunk of its document (`Made`), how far the job has come
    (`JobAt`, `Present`), that SQLite has one chunk of each number (`OneOfEach`), and of
    which search an answer is (`Answers`). That an answer is full is a count of the hits
    that are left out.

Every safety property of the runs that pass is thus a theorem, the four refinements
(`ImplementsLog`, `StoreImplementsLog`, `ImplementsBoard`, `ImplementsRegister`) included. `HealthyTasksFinish` is
liveness, and model-checked for its instance. TLC explored more than 160 000 states of
`IInv` of `RagIndexProofs` before its proof, and checks the constants' assumptions on
every run.

## Where the code and its documents disagree

Three disagreements are runs that TLC refutes:

1. **The chain forks** (`AuditChain_fork`). Two overlapping appends link to one
   predecessor and `verify()` is false for good.
2. **A failing task starves the queue** (`WorkerFleet_poison`). The agent never sets
   `retry`, so the count stays 0, the budget is never used up and the first task of the
   ranking is served for ever.
3. **Registered without a scan** (`Quarantine_unscanned`). `approve` refuses the status
   `uploaded` only, and `reject` moves an import out of it.

Others met while modelling; the properties above are stated so as to leave room for them:

- `control_plane/app.py:157`: two overlapping requests are given the same task
  (`tests/test_control_plane.py:40` expects one assignment); hence *without overlap* in
  `HolderMatchesRow` and `contended` in `TaskBoard`.
- `control_plane/app.py:163-164`: a kill between save and event, or an `append()` that
  raises, leaves a change without one (`docs/SECURITY_MODEL.md:45`); hence `unaudited`.
- `control_plane/app.py:160-168`: a request for a task that names no node leaves the
  node of an earlier assignment in the row, and its event says `node_id: null`; hence the
  condition in `Describes`.
- `control_plane/app.py:201-211`: `POST /audit/events` keeps the client's `event_id` and
  `created_at`; sent twice, one event is in the chain twice, and by two requests at once
  even under one digest. Hence counts in `AckedReadable`, and the exemption in
  `OwnLinesNeverFork`.
- `repository.py:81-83`: the list is filtered by status before it is cut into pages. A
  heartbeat that changes a status between two pages takes its node out of the list, those
  behind it move up, and the next page misses one. Hence `left` in `PagesMissNobody`.
- `skill_registry.py:10-13`: after a restart the decisions that the audit file tells of
  are on record nowhere; hence `Known(s)` in `AuditedDecisionIsRecorded`.
- `repository.py:135`: an exhausted task at the head of the ranking makes `next_task()`
  answer None, whatever stands behind it (`docs/USER_REQUIREMENTS.md:64`).
- *A dead agent*: an assignment has no lease; the task stays `assigned`.
- `quarantine_gateway/app.py:142`: overlapping approve and reject leave a rejected record
  in the registry; `skill_registry.py:47-49`: a rejection between `deploy`'s check and its
  assignment is lost (`docs/DEVELOPMENT_STATUS.md:66`).
- `skill_registry.py:74`: any status may follow any other, so a draft can be approved
  without a requested review (`docs/RISK_REGISTER.md`, R-008).
- `skill_registry.py:76`: the status is set before the version is looked up; the call
  that raises leaves half of its change.
- `govmesh_review/queue.py:91`: overlapping decisions are both stored. Line 92:
  `needs_more_info` is final.
- `model_registry.py:57,100`: lost updates, and a file that is empty or no JSON while, and
  after, it is being written.
- `scanner.py:142`: a mask of at least four characters over a shorter finding moves
  the text behind it; a longer span that encloses it is then cut at the wrong end, and
  its last characters stay. `Shifts` names the case.
- `chunker.py:54`: a finding longer than overlap + 1 characters can be cut so that no
  piece holds it whole, and of a shorter one a fragment may stand unmasked in the
  neighbouring piece.
- `scanner.py:85,91`: `\s*` and `\s+` match across an empty line, at which `chunker.py:22`
  cuts before anything is scanned: "system", an empty line and "prompt" are a finding of
  the document and of none of its chunks. Hence `WithinSentence` in
  `ShortFindingsAreFound`.
- `rag/service.py:33`: a shorter new version of a document leaves the last chunks of the
  old one in the store; two files of one name share their ids. `vector_store.py:55`: a
  context shows the first 240 characters of a chunk of up to 420.

## Not modelled

- *External scanners*: a subprocess whose digest is checked before it is run. The gateway
  does not call it and it keeps no state; the same check before a start is in `ModelGate`.
- *Grounding and policy-gated generation*: a pure predicate of one answer and its contexts,
  by regular expressions and shares of common words. It keeps no state, and what it
  promises is its own definition.
- *Embeddings* (floating-point vectors: `RagIndex` allows any ranking), *policy evaluation*
  and the *benchmark runner* (sequential reports; the control plane stores a benchmark
  under a fresh id and never changes it), the *admin UI* (reads counts) and the *scripts*
  (packaging and installation).
- Of what is modelled: the text of sanitized copies, payloads, prompts and results; the
  risk levels and the alert of the scanner; the digest of the llama.cpp executable, checked
  just as the model file's; uploads that are refused; what an agent's task computes.

## Plan

Written in this order, the most consequential first: `AuditChain`, `TaskQueue`,
`WorkerFleet`; the gates (`Quarantine`, `SkillRegistry`, `ReviewQueue`, `ModelGate`); the data
path (`Chunker`, `Masking`, `RagIndex`); then what lies around them (`NodeRegistry` with
`AccessControl`, `Inspection` inside `Quarantine`, `CheckpointStore` around `AuditChain`).
New components joined an existing instance where they interact with it.

Left: atomic abstractions of the gates and of `NodeRegistry` in the manner of `TaskBoard`.
