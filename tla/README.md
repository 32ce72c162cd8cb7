# Formal model of contract-kit

`contract-kit` keeps *contracts* (YAML documents that describe the public Rust
API and selected code fragments of a source tree) next to a project. The
`conkit` command line generates, checks, archives and compares them; the
library crates `conkit-signature` and `conkit-sketch` hold the domain logic.
This directory models the parts of the program whose correctness depends on an
order of events or on a combinatorial algorithm, checks them with TLC on small
instances and proves the most important facts with TLAPS for every instance.

## 1. Inventory

Paths are relative to `src/`.

| Component | State it keeps | Operations | Interacts through |
|---|---|---|---|
| Ownership reconciliation (`conkit/catalog/reconciliation.rs`, `ownership.rs`) | `generated-files.json` (journal: state, generation, before, after), `generation.lock`, the documents of the contracts root | recovery probe, lock, recover, preflight, reserve, mutate, verify, commit, roll back | the file system, shared by every process and the user |
| Atomic contract publication (`conkit/catalog/store.rs`) | one temporary file, a state `Writing/Prepared/Published/Aborted` | create, write, prepare, rename, abort, drop | the file system |
| Archive publication (`conkit/archive/publication.rs`) | one temporary file, a state `Open/Closed/Cleaned` | name choice, create, write, hard-link, clean up, drop | the file system |
| Application cancellation (`conkit/context.rs`) | a flag, a registered waker | request (signal handler), race (executor), checkpoint | shared memory, executor |
| Work pool (`conkit-signature/work.rs`, `conkit-sketch/work.rs`) | two semaphores, a one-shot channel, a cancellation probe per operation | execute, worker closure, drop of the future | Rayon threads, executor |
| Catalog reading (`conkit/catalog.rs`, `catalog/source.rs`, `store.rs`) | read budgets: traversal entries, files, total bytes, bytes per file | begin, visit, preflight, read | file system |
| Compiler extraction (`conkit/compiler*`) | a child process, bounded output buffers, a temporary target directory | run Cargo with timeouts, probe, stage, extract | child processes, cancellation flag |
| Contract documents (`conkit/contracts*`) | aggregate extraction, YAML usage budget | load, merge, validate, split by family | the two domain kits |
| Check, generate, archive, diff commands (`conkit/command/*`) | none of their own | sequences of the above | all of the above |
| Signature source graph (`conkit-signature/languages/rust/parser/source_graph.rs`, `symbol_table.rs`, ...) | modules, files, symbols of the crates under analysis | module discovery, `#[path]`, imports, visibility | in memory |
| Signature conversion, YAML rendering and editing | documents | convert, render, propose identities and labels, edit losslessly | in memory |
| Signature inventory and comparison (`inventory.rs`, `api.rs`) | inventories | compare, check, diff | in memory |
| Rustdoc backend (`languages/rust/rustdoc`) | rustdoc index | traverse modules and re-exports | in memory |
| Sketch kit (`conkit-sketch/*`) | contract documents, sketches, match budgets, seeds | check: resolve, group, match; generate: admit seeds, edit, compare; diff | called by the commands; in memory, cancelable at every loop |

What is hard, by component:

* **Reconciliation** - several commands and a user act on one directory;
  commands are killed or fail between any two file-system steps; what one
  leaves behind the next has to reconcile. Correct means: no foreign byte is
  replaced, the settled ledger agrees with the disk, an interrupted update is
  always recoverable, the journal always loads, and nothing waits forever.
* **Publications** - a crash, a cancellation or a failing system call between
  create, write, rename or link and cleanup. Correct means all-or-nothing, no
  clobbering, nothing left behind that is not reported.
* **Cancellation** - a signal between the executor's check of the flag and its
  parking. Correct means no lost wake-up, no lock held while waking.
* **Work pool** - permits travel from a future into a worker closure; a future
  may be dropped at any await. Correct means permits are never lost, capacity
  is free when completion is observed, no operation is abandoned.
* **Compiler process** - timeouts race exit, output and cancellation.
* **Sketch kit** - budgets that run over all sketches and files, line
  terminators, overlapping occurrences, an editor of somebody else's YAML.
  Correct means each answer equals one defined over the inputs alone, or is an
  error: never a shortened search, never an edit of anything but the targeted
  code.
* **Signature kit algorithms** (module discovery, symbol resolution,
  inventories, identity proposals) - correct means equal to a short reference
  definition.

## 2. Plan

The order in which the project was built, the most important behaviour first.

1. `OwnershipReconciliation` and the abstract `OwnershipPromise`, with the mapping
   between them in `MCOwnership`; every safety property and the refinement proved.
2. `ContractPublication` with `ContractReading` beside it, and
   `ArchivePublication`, all proved.
3. `WorkPool` and `CancellationRace`, both with proofs.
4. `CargoProcess`, proved, and around it one compiler extraction:
   `CargoSelection`, `CompilerExtraction`, and its hand-over to the signature kit,
   `RustdocArtifact`; `MCCargoProcess` composes them.
5. The domain kits against reference definitions over their inputs. Sketch kit:
   `SketchResolution`, `SketchCheck`, `SketchRefresh`, `ScalarEditor`, `SketchDiff`.
   Signature kit: `SourceGraph`, `InventoryCollection`, `ContractDocuments`,
   `SignatureInventory`, `DocumentRefresh`, `SignatureOperation`,
   `RustdocProjection`. Budgets of both: `ResourceBudgets`.
6. What an item says: `RustTypes`, `ItemDeclarations`, `ItemStatements`, and the
   compiler's view of it, `RustdocDeclarations`.
7. The commands as sequences of all this: `ContractLayout`, `ContractCommands` and,
   below them, `CatalogPaths`.
8. Parts of the sequential components, proved: four parts of the extraction,
   resolution, check, generation and diff of the sketch kit, and the commands as
   sequences; for what is defined by folds, `FoldProofs`. Left to prove: what section 5
   lists as only model-checked. Left to model: see section 7.

## 3. Modules

Each module's header comment names its source; `PROJECT.json` maps every
definition to its lines.

### Ownership of generated documents

`OwnershipReconciliation` models any number of generate commands (`Process`), a
user, and the files of one contracts root. `disk` is the bytes at each document
name, `manifest` the journal `.conkit/generated-files.json`, `lock` the holder of
`generation.lock`. A command goes through the phases `probe` (recovery probe
without the lock), `relock` and `load`, `read` (the baseline without the lock),
`lock`, `load`, `scan`, `unreserve` (recovery), `reread` (the comparison with the
baseline), `preflight`, `reserve`, `mutate`, `verify`, and back to `idle`; `rollback`
is entered from `reserve`. Each phase works through its documents one file-system
step at a time, so another command, a user's edit, a kill or a failure comes
between any two. Reserving is two steps, the exclusive creation and the filling
of the file. What the domain kits generate is any member of `Plans`.

A document stands for its SHA-256 digest (no collisions). `MaxGeneration` stands
for `u64::MAX`. `Fail` covers I/O errors, exhausted budgets and cancellation
alike, since they leave the code by the same early returns; a journal write
whose rename succeeded and whose directory synchronization failed
(`BeginUnsynced`) is an outcome of its own. A kill ends a process, not the
machine. A user replaces files; hard links between documents
(`HostIdentities`) are not modelled.

`OwnershipPromise` says what an owner of the contracts root may rely on: documents
move from the old catalog to the new one or back, one at a time, only while an
update is pending, and a settled ledger is what is on disk.
`MCOwnership` maps the journal and the disk to it (`LedgerOwned`, `LedgerNext`,
`DocumentAt`); what is no document, a marker for instance, is nothing to the owner.

### Publication and reading of files

`ContractPublication` is the atomic replacement of `store.rs`: temporary, write,
synchronize, rename, synchronize the directory, with abort, drop and the removal
of abandoned manifest temporaries under the lock. Here the machine may lose
power: what was not synchronized may be torn (`safe`, `destSafe`) and an
unsynchronized rename undone (`durable`).

`ContractReading` is a command that reads the root meanwhile, without a lock: it
lists the directory in one step (in any order of names; the code sorts), opens
one entry after the other and reads each in pieces from its handle, while entries
appear, grow, are renamed and vanish. Temporaries are entries like any other:
they cost the reader budget, may be gone when it opens them, and are dropped from
the catalog only by their name.

`ArchivePublication` is the creation of an archive under the first free name by
hard link, in a directory several commands share; commands of two process
namespaces may have one process identifier.

### Threads and signals

`WorkPool` is `AsyncWorkPool::execute`, which both kits hold: a future takes an
admission permit or is refused, waits for a running permit, hands both to a
closure, and may be dropped at either await. A thread that waits inside a nested
parallel loop takes up other queued jobs, so each thread has a stack. The
semaphores, the channel and Rayon are external; each operation is used once and
its job ends.

`CancellationRace` is the race of a command with a cancellation request: the poll
(flag, registration, flag again), the executor that parks between polls and may
change its waker, and the signal handler that sets the flag, takes the waker
under the mutex and wakes after releasing it. With `Inline` the waker polls the
race inside `wake`. Steps are sequentially consistent, which the mutex and the
Release/Acquire pair on the flag provide here.

`CargoProcess` is one child of a compiler extraction: the monitoring loop, the
two reader threads with their shared output budget, and the cleanup of a failure
(kill the group, else the leader; poll, then wait only for what was killed; join
the readers only if they have finished). The child writes, exits or hangs as it
likes, `holder` is a process outside the group that keeps a pipe open, and bytes are
counted in units. The deadline, the cleanup deadline and the cancellation are
flags raised at any moment. The temporary-tree scan passes or fails as it likes.

### Compiler extraction

`CargoSelection` decides what a command may extract, given what the contracts
declare and what the command line asks for, and which package and target of
Cargo's metadata that means. `CompilerExtraction` is the extraction: metadata,
identity, configuration, the rustdoc probe with its captured arguments, metadata
again, rustdoc, the comparison of every source with the snapshot the command has
read, and the translation of spans. A user edits or removes a source between any
two steps. Each Cargo process is what `OutcomeIsTruthful` promises of it: complete
output or an error. The translation of spans, inclusive character columns to byte
ranges in `conkit` and back in `conkit-signature`, is done on texts of characters
with a width. `RustdocArtifact` is what the signature kit checks before it believes
any of it, and `MCCargoProcess` states that the two sides fit.

### Signature kit

`SourceGraph` walks the `mod` items from the crate roots, depth first, loading
files on demand, and holds the symbol table with its frames of imports under way;
`InventoryCollection` registers, resolves owners and merges
implementation blocks into the projection. `ContractDocuments` reads and validates
contract documents under the budget of the operation; `SignatureInventory`
compares, checks and diffs; `DocumentRefresh` renders new documents and edits
existing ones. `SignatureOperation` composes graph, collection, documents and
inventory into the operations the commands call, with one budget for all.
`RustdocProjection` is the other backend: the walk of public modules, exports
through chains and circles of globs, and the implementations.

Parsing (`syn`, YAML) is external: a source is a sequence of items, a document what
it says. In the modules above, an item is its kind, name, owner and shape; two items
are equal if their shapes are. A digest is what is digested.

Four modules open the shape. `RustTypes` has the types: what a source spells, what
the kit compares, the text it writes, how that is read back, and what the compiler
backend makes of a rustdoc type, through layers of aliases with their bindings and
binders. `ItemDeclarations` converts items, their members, attributes and
visibilities; `ItemStatements` writes each as a statement and reads a statement
back by trying the untagged forms in the code's order. `RustdocDeclarations` starts
from the rustdoc item of the same declaration, and the two backends are compared
after erasing what rustdoc does not tell: patterns of parameters, derives and `cfg`,
the order of attributes, `mut` of a by-value receiver, and the name of an
`extern crate` that is renamed. Texts of expressions and macros are tokens.

### Sketch kit

`SketchResolution` has the line arithmetic, normalization of line endings and of one
final terminator and the comparison of a snippet with a source at one start. It reads parsed documents entry by entry and then links each sketch
to the one signature entry that names it; it stops at the first error or limit,
as every early return of `contracts` does. Two modules build on it.
`SketchCheck` matches the resolved sketches, group by group and start by start,
while two counters run over the whole check and diagnostics are admitted against
two more budgets. `SketchRefresh` admits the seeds of a generate request one by one
and edits the targeted files. There the YAML editor is left open: it may refuse
a file or render any of several wrong texts of any one of its documents, and what
counts is the comparison after it. `ScalarEditor` is the editor itself on one file:
the ranges it cuts out, the presentation of the new scalar (plain, quoted, block,
with indentation and chomping), line endings and the comments that must survive,
with the reparse that follows. `SketchDiff` merges two resolved catalogs and
encodes the digest as the sequence of fields that is hashed.

Both kits are sequential, so their nondeterminism is their input: documents,
sources, limits and seeds are chosen in `Init` of the MC modules and never change, and
a cancellation may come in any loop. `ResourceBudgets` has the meters of both
kits, the catalogs, the counts of Rust items, YAML streams read raw and replayed
with their aliases, arrays of diagnostics, returned and scratch bytes; one refusal
ends the operation. The invariants compare each final answer with
a definition over the inputs that shares no step with the actions. Bytes of a
diagnostic are counted in units, and paths, labels and types are valid tokens.

### Commands

`ContractLayout` is how a command reads the documents it was given: file by file on
one YAML budget, header by header, with the union of the sources and the merging
of the extractions. `ContractCommands` runs check, generate, archive and diff one
after the other over one root, source tree, archive and report. A command reads
everything on one ledger, asks the kits, and touches the disk last; what a kit
answers, and whether Cargo, a write or a print succeeds, is a choice, because the
modules above say what may happen. Kept abstract here: after a refresh, the
existing documents keep their headers and sizes; a publication that fails leaves
the contracts as they were (`OwnershipReconciliation` says when it does not); the
recovery of an interrupted update only costs the reading of the manifest; a
crate's kind is part of its id. Which of two errors is reported is modelled only
where the order of the checks decides it.

`CatalogPaths` is what lies below: the resolution of the roots, their
disjointness, the retained handles, the walks, and every file opened, created,
renamed or removed. The disk is a set of nodes with entries and links, a handle is
a node, and somebody else changes one entry between any two system calls.

## 4. Runs

A run whose subject is chosen at the start holds several machines that do not
interact; each behaviour runs one of them.

| Run | Instance | What it shows |
|---|---|---|
| `interleaved_commands` | 2 processes, 2 names, 2 documents, 2 generations, one kill, one failure | types; a pending update is always recoverable but for a torn or edited file; a generation number names one update; the protocol implements `OwnershipPromise` |
| `edited_root` | 2 processes, 3 names of which 2 are case variants, one user edit, one kill | the settled ledger agrees with the disk, no foreign byte is replaced, no update starts from a stale catalog, the journal always loads |
| `progress` | 2 processes, 1 name, one edit, one kill; or a command, 2 wakers, 3 signals, inline wake-ups; fairness | every command ends; an interrupted update is resolved by later commands; no lost wake-up, no waker left, a completed command wins, a request ends the race |
| `replacement` | 2 writers, 2 temporary names, 2 failures, 2 crashes, manifest and document, a reader with every budget | all or nothing even after a power loss, truthful results, no live temporary removed and none piling up; what is read is whole and paid for |
| `commands` | 2 archive commands with one process identifier, 3 failures, one kill, fairness; or one of some 500 cases of a root, a source tree, an archive, budgets and up to three commands; or one command on one of some 30 disks with links, roots spelled in twenty ways and one foreign change; or 3 operations of a kit with one active and one pending, 1 of another, on one thread, with fairness | no archive incomplete or replaced, answers truthful, every command ends; a command says what is true of the disk and of the other commands (`CommandIsExact`); nothing outside the roots is read, made or removed (`PathsAreConfined`); permits conserved, no undue refusal, nobody abandoned, every operation ends |
| `cargo_process` | a limit of one unit, three units written, 2 failing calls, fairness; or an extraction with small metadata, probes, documents and texts and one edit of a source; or one declaration of each kind in both backends | success is complete, a stop is reported, leftovers are noted, the main thread ends; an artifact describes the snapshot, the signature kit accepts it and says of it what it would say of the source (`ExtractionIsUsable`) |
| `sketch_kit` | pairs of documents that pair up or fail to, 5 snippets against 9 sources alone and after another, each of 10 limits at 0 to 6, refreshes of 2 or 3 documents by up to 3 seeds, every presentation of a code by every small value, all pairs of small catalogs, budgets of 3 over two slots | sketches are resolved exactly if they pair up with signatures, verdicts, evidence and budgets are exact, a refresh changes the seeded codes and nothing else, the diff and the digest agree, meters charge what was used and no more |
| `signature_kit` | crates with up to two modules in every file layout, path attributes, shared files, tight bounds; import chains and circles; split implementation blocks; pairs of inventories; documents alone, refreshed and checked against their source; rustdoc documents with globs in circles, private and re-exported modules; items of every kind with their types, attributes and visibilities | graph, projection, reading, comparison, refresh, whole operations and the compiler projection are exact; what is written is read back as it was converted, but for exactly the losses of finding 4 (`StatementsAreExact`) |
| `stranded_marker` | 1 process, one failure | finding 1 |
| `torn_reservation` | 1 process, one kill | finding 2 |
| `alias_substitution` | aliases with up to two parameters and a binder, applied to parameters and to each other | finding 3 |
| `lossy_dialect` | the items, statements and types of `signature_kit` | finding 4 |

Bounds. Two actors are enough for every race here: the lock, the flag and each
name relate two of them, and a third only repeats one of the roles; the kit with
three operations needs one active, one pending and one refused. These three are alike, so they are
numbered in the order they are submitted, which leaves out no run but for names. Two names let a
kill fall between two documents; a third gives the two case variants their
company. Failures and kills are bounded at the number that lets a failure happen
inside the handling of another (`ArchivePublication` needs three to fail, to fail
while withdrawing, and to fail while cleaning up). Generations are bounded at two:
a first update, an update of it, and the overflow after that. Texts of the sketch
kit have up to seven bytes, which is room for every position of a terminator, for
overlapping occurrences and for a snippet longer than its source; two sketches
share a budget and a file or do not. Module graphs have three levels, enough for
a file that includes itself through another, and for the projection to stop above
a module it does not need. Two or three documents are enough for two headers to
agree and a third to disagree; three commands for one to establish contracts, one
to check and one to refresh them. Numeric limits run through every value around
what the case costs. One foreign change is enough for paths: every property there
relates one check with one use.

Deadlock is checked in every run but `progress`, `sketch_kit`, `signature_kit`,
`alias_substitution` and `lossy_dialect`, where all may be over. The type invariant is checked
in `interleaved_commands` and, as the part `CommandTypeOK` of `CommandIsExact`, in
`commands`; the types of the other proved modules are part of the
invariants of section 5, and elsewhere the exactness properties fix the values.

### Fairness

* `progress`: a process that can take a step of a command takes it, and
  commands keep being started. The second is an assumption about the user; only
  `InterruptedUpdateResolves` needs it. The executor polls woken tasks and started
  handlers run; a command need never complete and no signal need arrive.
* `commands`: each racing archive command takes its next step; kills and failures
  are bounded and never fair. The executor polls futures that can go on, threads run
  and jobs are finite; nothing makes a caller submit or drop an operation. The
  sequences of commands and the paths are checked for safety only.
* `cargo_process`: threads run, both deadlines arrive, a killed child dies. A
  child need not exit by itself and nobody need let go of a pipe. The extraction
  is checked for safety only.

## 5. Proofs

The theorems hold for every number of processes, names, documents, wakers,
operations, threads, budgets, failures and kills; their only assumptions are the
named ASSUMEs of the modules (types of the constants, distinct sentinels, a finite
set of names), which the runs evaluate. The properties named below
are proved for all these values; TLC checks the same formulas, and checked each
inductive invariant before it was proved.

* `OwnershipProofs`: `TypeCorrect` and `JournalLoads`. Types alone are not inductive:
  what is saved comes from `before`, `after` and `recovered` of the holder. `Inv`
  adds that exactly the holder of the lock is in a locked phase and that the
  ledgers it works on are portable and of one transition.
  `NoForeignByteReplaced` and `OneUpdatePerGeneration`: `WriteInv`
  ties the holder's cursor to the journal: while it reserves, mutates or rolls
  back the journal is its own update, and every expectation it acts on is a
  digest of the journal or its own marker.
  Then `SettledLedgerIsTrue`, `PendingUpdateResolvable` and
  `BaselineIsCurrent`. `DiskInv` says what is at each path, wherever no user was last:
  under a settled journal what it owns; under a pending one the old document, the
  new one or the update's own marker; and, since the holder settles a journal path
  by path, what it has established for the paths it has passed (`DiskKnown`), in
  each phase of recovery, reservation, mutation, verification and rollback. A kill
  keeps the first two parts, which is why they speak of nobody's cursor. The
  baseline invariant says that what the holder has compared under the lock is still
  there but for later edits; no other command can write meanwhile.
  `ProtocolKeepsPromise` follows in the same module, step by step: every action of the
  protocol, under `MaxEdits = 0`, is a step of `OwnershipPromise` or invisible. The
  promise excuses no path, so `DiskInv` is sharpened (`ExactInv`): nobody has touched
  the root, what the ledger owns is there in full, and in each phase every path still
  to be replaced or removed is owned by the old catalog, every path to be reserved
  is new, and what only the old catalog owns is going to be removed. The hypothesis is the promise's own
  scope, and `interleaved_commands` checks it with the same.
* `ContractPublicationProofs`: `NeverTorn`, `Truthful` and `Accounted`. The invariant says
  what each writer knows (`Known`): the state of its temporary at each phase and who
  holds the lock. For a manifest, `SweepInv` adds how far a writer has swept the names:
  behind its cursor there is no temporary but its own. For the reader, `ReadExact`
  and `ReaderDisturbsNobody`: the reader shares the disk and changes none of it, so
  all of the above holds beside it. `ReadInv` relates an open handle to the file it
  was opened on, the piece read so far to a prefix of that file, and the ledger to
  the catalog. The bytes charged are stated as the cardinality of the set of byte
  positions in the catalog, which needs no sum by recursion.
* `CommandProofs`: `Truthful` and `NothingClobbered` of archive publication. `Holding` says which entry
  of the directory is whose in each phase, with names that differ by process
  namespace, `Answered` what an answer promises of the directory, `Complete` that
  only complete files stand under archive names.
  Of the commands over one contracts root: `DiskTouchedLast`, for any kits, limits and
  queue of commands. The property speaks of the end of a command; what carries it there
  is which phases a verb can be in (`Roles`: only an archive encodes, a diff writes
  nothing, a command under way has no result) and that a check has a verdict before it
  reports (`Judged`), so that every step before the commit leaves the disk as the
  command found it.
  `CommandExact`, the whole of `CommandIsExact`, has an invariant of two
  parts. `Course` says in each phase how far the command has come: what it has gathered, what
  a rebuilt extraction agrees with, which kits are still to be asked, and which
  beginning of the list of everything it reads has been paid for (`PaidFor`; paying for
  one list and then for another is paying for both, `ChargedExactly`). `Settled` is what
  holds between commands as well: everything has its type, what generate has just
  established is a complete root that the next check can select a target from
  (`Established`), and an archive written here is one a diff can decode
  (`WellPacked`). An archive that is there from the beginning is foreign or, by
  hypothesis, packed that way: the code cannot tell an archive of its own from another
  that is marked as one. The initial state is otherwise any of its type.
  `LoadedExactly` is the part about layouts, for documents of any shape: a layout is
  accepted exactly if each file is sound by itself and all of them together are within
  the ceilings, and then its extraction is the union of what the documents declare, each
  crate once, or a conflict exactly if they disagree. Each fold of the model is unrolled
  there on its own, since no theorem can be about any operator.
* `CargoProcessProofs`: `Truthful`, of the process. A reader thread tells what it saw by flags
  (`ReaderTold`), the main thread acts on what it read of them before (`MainKnows`),
  and the error it reports was raised by somebody (`Reported`).
  Of the extraction: `SnapshotDocumented`, `ProbeAccepted`, `CrateDeclared` and
  `BudgetsKept`, four of the five parts of `ExtractionIsExact`, for any answers of
  Cargo and rustdoc and any number of edits. The first rests on this: versions never
  return, so a source that is as it was (`files[p] = 0`) has been documented as it was, and
  the files compared so far stay right however they are edited afterwards
  (`SourcesKnown`). The others keep what a step has checked until the handover;
  the mappings stay within their limit because the position of a
  candidate in the list is what is compared with it. `ExtractionBounds` assumes that
  what a command has read before is within the same budget.
* `SketchProofs`: `ResolutionPairs`, for catalogs of any documents. Nothing of what the
  property says is in the state while documents are read, so the invariant speaks of
  the entries before the cursor (`Passed`): they are right (`RightSoFar`), counted and
  kept (`Kept`), and what is left of links and declarations is what has not been
  linked (`Matched`). That each sketch takes its only possible partner needs that links
  are removed when taken. `DiffSemantic`: two
  cursors over catalogs in the order of their ids are abreast, so that what one side has
  behind its cursor and the other has not is nowhere on the other side. The digest
  then tells catalogs apart (`DigestTells`): every field is framed by its length, so no
  encoded contract begins another (`EncodedApart`), and sequences of such encodings are
  told apart by what they concatenate to. Equal digests are equal encodings: SHA-256 is
  taken to have no collisions.
  `GenerationReplacesSeeds`, the whole of `RefreshIsExact`: resolution gives every sketch
  one declaration, each admitted seed is for a sketch of its own (`SeedsAdmitted`), the files
  done hold their documents with the seeded codes replaced, and the counts are
  the cardinalities of sets of entries, so at the end every seed has been
  counted once. The editor may write anything: the final comparison with the document
  it should give is what makes a written file right.
  `CheckExact`, the whole of `CheckIsExact`, compares a machine over lines with a search
  over bytes. Two facts about data come first. The normalized lines of a text, each with
  its terminator, are the text that is searched (`FramedIs`), and so an occurrence of one
  framed text in the other begins where a line ends and is a start at which all lines
  agree (`OccurrencesAreHits`). What a sketch costs is stated as a set of line
  pairs, so that the shared counters are compared with cardinalities of disjoint unions
  (`OneSketchMore`) and a budget that runs out in the middle of a snippet has been
  exceeded by a subset of what the check needs (`PartsAreAffordable`). The invariant
  `CheckInv` says at each step what the finished sketches have been reported as
  (`ReportedSoFar`), what has been charged for them and for the first starts of the
  present one (`Charged`), and what its scan has seen so far: the occurrences before the
  cursor, or the earliest of the best starts (`HitsSoFar`, `BestSoFar`). Snippets and
  sources are any sequences of any bytes. A source that is refused is over its budget.
  Of the bytes of diagnostics it is only shown that they never shorten a report, not
  that an error for them was due.
* `FoldProofs`: induction over data, stated of sets instead of predicates (`Induction`),
  and what it gives: the recursive function behind a fold exists and steps as it is
  defined to (`Iterated`, `IteratedOverSubsets`), concatenating a sequence of sequences
  appends one after the other (`Flattened`, `FlattenAppended`), folding over a sequence
  with one more element is one more step (`FoldAppended`), a finite set of numbers has a
  greatest member (`Greatest`), and members of which none begins another
  can be read back from the concatenation (`FlattenedApart`).
* `DocumentProofs`: `AdmittedDocuments`, that is the whole of `AdmittedIsConsistent`, for documents of any
  shape and any number of files and catalogs. Half of it is about one document: no
  error among the decoding, identity and linking errors makes it `Consistent` (`DocumentAdmitted`).
  Two equal identities would be a declaration twice, whose occurrence grows
  (`OccurrenceGrows`), or blocks of one owner with one descriptor. The other half
  counts: signatures and items are sets of places, so the bounds are compared with the
  cardinality of disjoint unions (`PlacesJoined`, `PlacesGrown`) and no sum by recursion is
  needed. The invariant adds that items are finite, which holds because the rank of
  a block among different descriptors is onto (`EveryPlace`), and that every catalog
  but the last is finished. `IsRequest` is what the YAML layer guarantees of its
  input; the run checks it of each of its requests.
  `EditExact` is `EditIsExact` of `ScalarEditor`, for a file of any size: the pieces
  of the new file are the old one's in order and without a gap, a scalar that is
  written has been read back where it stands, and a right serializer never leads to a
  refusal of codes that can be replaced apart. The invariant says of each stage what is
  known of the codes found, the scalars rendered and the pieces laid; that the codes are
  in order is counted (`EditTyped` says what the syntax tree guarantees).
* `AsyncProofs`: `Conserved`, `Answered`, `Refused` for the pool, `WakeupDelivered` and
  `ResultKept` for the race. Permits are conserved because every action moves an
  operation into or out of exactly one holder set together with the counter; the
  invariant lists the reachable pairs of future and job. The race's invariant
  relates the position of the poll, the registered waker and the handler's steps: a
  parked task either has its waker registered with the flag unset, or the handler
  is on its way to wake it.

Only model-checked:

* all liveness properties (`CommandsEnd`, `InterruptedUpdateResolves`,
  `PublicationEnds`, `OperationsEnd`, `RequestEndsRace`, `ProcessEnds`), which the
  prover cannot express;
* of `EditIsLossless` that the style is kept (`StyleIsKept`), `SpansAreExact` and the rest of the two kits: their answers are compared
  with definitions over inputs of any shape. Half of these are recursive operators, which
  the prover does not take; for the others every recursive function needs its own
  induction in the way of `FoldProofs`, which is done for the check and the diff of
  sketches and for the commands;
* `PathsAreConfined`, which quantifies over paths resolved by recursion through links.

## 6. Findings and observations

1. **A failing command can strand its reservation markers.**
   `conkit/ARCHITECTURE.md:314-316` says that rollback keeps an exhausted or canceled
   operation from stranding markers. Rollback runs only when a reservation
   fails; a failure in the loop that writes the documents
   (`reconciliation.rs:685`) returns at once. The next command removes the markers,
   so nothing is lost. Run `stranded_marker`.
2. **A kill inside a reservation makes the update unrecoverable.** The marker file
   is created and then filled (`path.rs:805`). If the process dies in between,
   recovery finds a file that is neither the old nor the new document nor the
   marker and refuses until it is deleted by hand. Run `torn_reservation`.

3. **Alias arguments are lowered in the wrong layer.** The compiler backend enters
   an alias before it lowers the arguments of its application (`rustdoc/types.rs:590`)
   and binds each parameter before the next argument is lowered. With
   `type Pair<A, B> = (A, B)`, `Pair<B, A>` in an item with generics `A` and `B` becomes
   `(B, B)`; `W<W<u8>>` is refused as a cycle; a binder of the target captures an
   argument's lifetime. `conkit-signature/ARCHITECTURE.md:373` promises substitution.
   Run `alias_substitution`.
4. **The dialect is not lossless.** `conkit-signature/ARCHITECTURE.md:239-242` demands that
   generated documents parse back to the same inventory for every field and all kinds of
   items. The run `lossy_dialect` shows an enum variant's field named `type`, written
   `type: T` and read as a field without a name (`LooksUnnamed`, `yaml/input/member.rs:412`).
   `LossesAreThese` and `TypesAreExact`, parts of `StatementsAreExact`, say what is lost
   and, as equivalences, that nothing else is: the names of such fields; the statement of
   an owner with a block in another module whose member is visible in a module that is no
   ancestor of the owner's, which reading refuses (`OutOfPlace`,
   `yaml/input/metadata.rs:547`); and the text of rustdoc's `&(dyn A + B)`, written without
   its parentheses (`BareSum`, `yaml/type_text.rs:107-160`), which reading refuses.

Two more disagreements have no run: the example of `README.md:435` says
`visibility: public(crate)`, which the reader refuses (`VisibilityReads`); and an ABI literally
called "extern", which the runs do not use, reads back unnamed, another loss of finding 4.

Behaviour worth knowing that, as far as was read, no document contradicts; the
properties are stated with these exceptions.

* Commands: a check of sketches does not ask for the extraction and so accepts
  contracts whose documents disagree about it. `generate` reads the manifest, the
  contracts, the sources (twice with a compiler), and manifest, contracts and
  outputs again on one ledger. `diff` charges the current contracts, the compressed
  archive and its entries on one ledger and the YAML of both sides on one budget,
  so contracts of more than half of it can be archived and never compared.
* Source graph: when a sketch is resolved, only the modules it needs are walked. An
  implementation in an ancestor module whose owner is declared in a module that is
  not walked makes the resolution fail, although the complete graph resolves it.
* Inventory: a check does not compare the `file` of a signature. An added entry of a
  renamed signature is called a change of the source when its old label still names
  another group of the same shape. A refresh in which a linked signature moves to
  another file is refused by its own reparse.
* Extraction: a source that is changed and restored before the comparison, and a
  manifest that changes between the two metadata runs, are not noticed. A span is
  resolved against the manifest's directory and silently dropped if that fails. An
  artifact is refused by the kit when the spelled path of a span does not end with
  the catalog's name of the file, or when the crate root is not in the catalog.
* Paths: a contracts path that climbs out of a directory that does not exist yet
  (`gone/../con`) is resolved by its words, found disjoint from the sources, and, once
  `gone` has been made, opened through whatever link `con` is (`ClimbsBack`).
* Statements: `#[deprecated = "x"]` and an empty list of attribute arguments are refused.
  A foreign `safe fn` and a plain one are the same; the name of a hand-written foreign
  module is not compared with its ABI. The round trip of documents in `RefreshIsLossless`
  takes the text of a statement as its shape, so the losses of finding 4 are outside it.
* Types: if rustdoc names the fields of a tuple struct "0" and "1", the compiler
  backend refuses the struct, since it drops such names of variants only; every tuple struct
  is an exception of `ExtractionIsUsable` for this reason (`Incomplete`).
* Budgets: the evidence of a check starts at two bytes without asking the ceiling;
  after a refused write the sketch kit's buffer refuses every other, the signature
  kit's only refuses to be finished.
* Scalar editor: a comment at exactly the column of the body's mapping after a block
  scalar stays in the range that is replaced; whether it is lost depends on where the
  YAML library ends the node. A kept final line break followed by blank lines, or an
  inline value glued to a comment, is refused by the reparse.
* Rustdoc: globs are expected after the other re-exports, as rustdoc lists them;
  listed first, two colliding globs are refused although the module's own item
  shadows both. Re-exports of one name in two namespaces with different paths are
  refused. A type re-exported from a private module gives a re-export entry only,
  without its declaration and implementations.

## 7. Not modelled

* Argument parsing, terminal output and wording (`args.rs`, `output.rs`, `error.rs`):
  pure input and output.
* The text of expressions, patterns, macros and literals in items: tokens.
* Parsers and codecs: YAML events, `syn`, JSON, gzip.
* The syntax of portable names (`windows_names.rs`) and host identities (hard links
  between documents): names are distinct files.
* Request constructors, diagnostics and the wording of reports.

Much of each source file is tests, and request and error types carry much of the
rest, so the map covers about a sixth of all lines.
