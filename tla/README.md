# A TLA+ model of outlint

Outlint is a linter for the outline of Markdown documents: a YAML schema is
loaded and normalised, a Markdown file is parsed into a section tree, and a
validator reports where the document departs from the schema. A `search`
subcommand keeps an on-disk full-text index that several processes share, a
`read` subcommand prints the node a document path addresses, and an npm wrapper
downloads and caches the platform binary.

All paths below are relative to the repository; `validator/` stands for
`crates/outlint-core/src/validator/`.

## 1. Inventory

| Component | State it keeps | Operations | What is hard | What makes it correct |
|---|---|---|---|---|
| Ordered assignment (`validator/sequence.rs`, edges from `content.rs`) | cost rows, a monotone deque, endpoints, a recovery table | `assign` = `accept`, rebuilding, `recover` | window and boundary arithmetic, ties, a walk over equal costs | returns the canonical assignment; never fails; terminates |
| Validation walk (`validator/engine.rs`, `value_order.rs`, `prepare.rs`) | pending diagnostics, bound scopes, capture states | one recursive walk per document | headings taken by one step and seen by the next; several titles; skipped levels; hidden diagnostics | each heading judged once; silent exactly on conforming documents |
| Constraints and frontmatter captures (`constraints.rs`, `frontmatter_values.rs`, core `locator/`) | none | three-valued evaluation over bound scopes, queries of the frontmatter | suppressed values through connectives, no short circuit, the cost of a query | suppression never turns into a verdict; the cost is never underestimated |
| Search index (`crates/outlint-search/src/store.rs`, CLI `search.rs`) | a directory shared by processes, tantivy's lock file | open or rebuild, walk, plan, refresh, commit, search | concurrent processes, renames, crashes, stale walks, changing files | a search shows the current files; nothing one process wrote is undone by an older one; a broken index is rebuilt |
| Search units and results (`units.rs`, `index.rs`, `result.rs`) | none | split a document, pick the smallest matching units | nesting of units, slices parsed out of their context | no word is lost or moved; every hit is a smallest match |
| Check commands (`crates/outlint-cli/src/app.rs`) | inputs, schema groups, results, errors | `check`, `schema` | one of several inputs failing; schemas that change between two phases | an absent result is explained; exit 0 means all valid; results in argument order |
| Loading from files (`schema_loading.rs`, core `loader/frontmatter_schema.rs`) | a queue, visited URIs, cached texts | discovery, linked JSON Schemas | reference cycles, URIs that `$id`s make, aliases by symbolic links, files that change | one text per file, a whole graph, an end unless URIs grow |
| Schema loader (core `loader/`, `schema.rs`) | errors so far, registered names, the scopes being built | YAML to a normalised schema with bound constraints | several faults at once, what one fault makes unknowable, names passed up through lists | every independent fault reported, none that is only inherited; names and locators denote one thing |
| Markdown parser (core `markdown/`) | builders for open blocks | event stream to sections, preambles, comments | boundaries of blocks and comments | every block has one owner |
| YAML, frontmatter, typed values, matchers, slugs | none | text to values | spelling rules | (data) |
| Document paths and `read` (core `document_path/`, `document_read/`, `locator/`) | none | enumerate, resolve, read | ambiguous and repeated names | resolution inverts enumeration |
| Diagnostics and rendering (CLI `diagnostics.rs`, `render/`, `args.rs`) | none | sort, render | total order | (layout) |
| npm wrapper (`npm/outlint/install.js`, `bin.js`) | a cache directory shared by processes | download, verify, install, run | concurrent first runs, failures halfway | what is installed was verified |

How they interact: the check commands read files, call the loader (which calls
the preload of linked JSON Schemas back), and hand each document with its
prepared schema to the validation walk; the walk calls the assignment engine
once per ordered scope, preamble and list, and the constraints once per scope.
Search only shares the Markdown parser with them. Components call each other
synchronously; the only state shared by processes is the search index, the
files, and the npm cache.

The hazards of this code, each at its line and with the properties that watch
it, are in `PROJECT.json` under `hazards`.

## 2. Plan

The modules were written in this order: the assignment engine (most verdicts
depend on it), the search index (a component shared by processes), the
validation walk, the check commands with the JSON Schema preload; then what the
walk had left out (`Constraints`, `FrontmatterValues`, `JsonPath`), the scan of
a document and what is built on it (`CommonMark`, `MarkdownBody`,
`DocumentPaths`, `DocumentRead`, `SearchUnits`, `Documents`), the schema loader
(`SchemaRules`, `SchemaContent`, `SchemaBinder`, `SchemaLoader`), and the npm
wrapper (`NpmInstall`). The proofs are about the assignment engine with its
refinement, the search index, the check commands, the npm wrapper and the
validation walk, and the runs are one for each question.

What is left, in order: the path syntax as the inverse of its rendering; the
rules of YAML scalars, if they can be had without a character-level model.

## 3. Modules

| Module | Models | Notes |
|---|---|---|
| `SequenceInput` | what the engine is given | every prepared edge matrix the three adapters of `content.rs` can produce |
| `Assignments` | what the engine promises | the canonical assignment of a problem, by enumeration |
| `SequenceVerdict` | abstract specification | pending, then the verdict in one step |
| `Sequence` | `sequence.rs` | one action per loop iteration |
| `SequenceRefinement` | the refinement | `Sequence` implements `SequenceVerdict` |
| `SequenceProofs` | theorems | safety for all sizes |
| `VerdictProofs` | theorems | the refinement for all sizes |
| `SearchIndex` | `store.rs`, CLI `search.rs` | one action per file-system step |
| `SearchIndexProofs` | theorems | types, locks, and what rebuilds leave |
| `SearchExactProofs` | theorems | undisturbed searches, and refreshes of one index at the same time |
| `JsonValues` | JSON values as `frontmatter_values.rs` reads them | members, children and JSON pointers |
| `JsonPath` | `locator/jsonpath.rs` | spelling, cost and meaning of queries; recursive, for TLC only |
| `FrontmatterValues` | `frontmatter_values.rs` | captures and reads of the frontmatter |
| `Constraints` | `validator/constraints.rs` | truth values and connectives |
| `Validator` | `engine.rs`, `value_order.rs` | the call stack as an agenda of tasks; uses `Assignments`, `Constraints` and `FrontmatterValues` |
| `WalkLemmas` | theorems | what the operators of the walk compute |
| `ValidatorProofs` | theorems | safety for any document and schema |
| `ValidatorVerdict` | what a clean report means | conformance stated without the walk; recursive, for TLC only |
| `CommonMark` | the event parser (external) | a document as the events and positions the parser emits |
| `MarkdownBody` | `markdown/body.rs` | one action per kind of event, then the nesting of sections |
| `DocumentPaths` | `document_path/` | enumeration and resolution of paths |
| `DocumentRead` | `document_read/mod.rs` | listing, content to a depth, candidates and suggestions |
| `SearchUnits` | `units.rs`, `Store::search` | units of a document and which of them are hits |
| `Documents` | the composition | the scan, then a request: a path as a user may spell it |
| `SchemaRules`, `SchemaContent`, `SchemaBinder` | `loader/rules.rs`, `content.rs`, `constraints.rs` | the operators of the loader, by file |
| `SchemaLoader` | `loader/mod.rs`, `shape.rs` | the order of the loader: shape, frontmatter, content, rules, constraints |
| `SchemaVerdict` | what loading promises | names, locators and faults read off the source schema, without the loader |
| `SchemaPreload` | `preload_linked_json_schema` | per queue entry, looking its file up and reading it |
| `CheckCommand` | `app.rs`, `schema_loading.rs` | extends `SchemaPreload`; one action per input or group of a phase |
| `CheckCommandProofs` | theorems | preloads, exit statuses and what becomes of each argument, for any command line, files, links and references |
| `NpmInstall` | `install.js`, `bin.js` | one action per request, answer and file-system call of each run |
| `NpmInstallProofs` | theorems | safety for any number of runs |

The `MC` modules hold the instances.

### Assignment engine

`column` and `node` are the loop counters, `suffix` and `current` the two rows
of costs, `deque` the queue of candidate endpoints with their keys,
`endpoints` the table the partition is rebuilt from, `table` the recovery
costs. `PushEndpoint` pops any number of worse candidates from the back and
`SettleNode` any number of unreachable ones from the front: the inner `while`
loops, as one choice of how many that the guards make unique. `run_end` and
`hi` are replaced by what they mean (`Reaches`). Every failing lookup
or subtraction of the code leads to `pc = "exhausted"`, except the failure to
allocate a table, which is left to the walk (`Validator!Exhaust`). Costs are
natural numbers: they count nodes, far from the limits of `u64`.

`Assignments` states the order between assignments that the tie-breaks
produce. It is the specification the exhaustive oracles in the tests of
`sequence.rs` compare with (`count_order`, `oracle_accept`, `oracle_recover`),
written without their search.

### Search index

A directory of the index has a `place` (`.outlint/search`, a temporary `new`
or `old` name, or none), a `marker`, a `content` (per file the signature and
the version its units were made from; a tombstone has no version), and a
`lock`. `damaged` says that its metadata names a segment that is not there.
A process goes through `open`, possibly `build` … `reopen`, then `walk`,
`plan`, and, if there is something to do, `lock`, `load` (once per file) and
a `commit` in two halves, and then searches. Each step takes the directory
that is at `.outlint/search` at that moment, as tantivy does.

The rename that installs a new directory may find another one there
(`Conflict`) or fail for any other reason (`InstallFails`), after which the old
directory is put back (`PutBack`); putting back does not fail as well.

Abstractions: a file's version stands for its contents, its modification time
and its size at once (the code assumes the same); walking and opening are one
step each; the directories of running processes are not swept as strays, which
in the code takes an index that was not written for an hour and is being
replaced; of the failures of the file system only those of the installing
rename and of files that cannot be read are there; the units, scoring and
merging of segments are left out; segments of one commit other than its new one
are not tracked separately. A file's text is a version number, so "older" is
meaningful. `disturbed` is a history variable of the process: something else
changed, another process was active, or its rename failed, since it started.

### Validation walk

The recursion of the code becomes `agenda`, a sequence of tasks whose head is
executed next; a task pushes what the call it stands for would go on with, in
order. `pending` is the list of diagnostics with their suppressed flag, as in
the code. `bound` and `captured` are what `BoundSection` holds. A diagnostic
keeps its id, the node it is anchored at, and the schema node it is attributed
to; messages and locations are left out. Within one step the order in which
diagnostics are appended is left open, since the command sorts them.
A text is a name that matchers accept or not, and a value. Documents are all
trees over a number of headings, with preambles from small sets.

After a scope is bound its rule captures, value orders and constraints are
evaluated as tasks of their own. `Constraints` has three truth values, the
third for what an invalid, hidden or missing value leaves open; a violation is
reported only when it does not depend on that. A query is a sequence of
segments with selectors; `JsonPath` has both its spelling, from which the code
estimates its cost by counting brackets, commas and filters, and its meaning,
which the `serde_json_path` crate computes and the estimate has to bound.

### Documents

`CommonMark` lays a document out as the events, lines and source ranges that
the parser emits, since the code reads back from the source what the events
leave out. Lists are laid out at the margin, and indented code has no blank
lines. `MarkdownBody` is the scan: `frames` is the stack of open tags,
`heading`, `leaf` and `list` are its builders, `owner` is the section blocks
are added to, `fileOff` and `lineOff` are the disabling comments. `strip`
chooses between the two texts of an item. `damaged` streams lack a tag.
`DocumentPaths`, `DocumentRead` and `SearchUnits` are pure functions of the
finished tree; `Documents` calls them for every node of every document and for
misspellings of every path: an index too many or too few, a position, a step to
a descendant, a slug with an edit. A visible text is a sequence of words.

`SearchUnits` reads the words of a block or an item from its slice of the
source, as the code does, which parses the slice as a document of its own
(`Reparsed`). The forms that read differently there are those the layouts have:
the first line of indented code without its indent, as a comment or a link
definition, comments in later lines of it, and references without their
definition. The properties about units have the words of the written document
on their other side, with what is lost in this way named apart (`RowsLost`).

### Schema loader

A source schema is a record with a value for every field, well-formed or not
(`MCLoader`); YAML nodes, ranges and messages are left out, and an error keeps
its kind and its place. `SchemaLoader` goes through the phases in the code's
order, a rule at a time from the leaves of the tree to its root as the
recursion returns, registering names in the scope that is open; `whole` says
whether everything has been built so far, which is what the code's `None` and
`complete` flags carry. Constraints are bound only in a whole tree. The keys of
a rule are visited in their order in the source, which decides about the first
of two duplicates.

### npm wrapper

Each run of the wrapper has its own program counter, download, temporary
directory and staged file; `installed` is the destination they share. A server
may redirect, damage or break off any download and damage the checksum file;
every file-system call may fail except the removal of one's own files; a run
may be killed between any two steps. A redirect to what is no URL throws in the
callback of the response, which nothing catches: the run has crashed
(`MalformedRedirect`), without the clean-up of any other failure. Copying is
two steps. `unix` chooses whether a rename replaces its destination.

### Check commands and JSON Schema preload

`CheckCommand` has a phase (`pc`) and the loop variable of the phase (`next`).
What a document reads as, what a schema loads as and whether validation fails
are choices; the schema of a document, the group it shares, what is emitted
where, and the exit status are computed as in the code. Candidate paths of
discovery are given per document, nearest first; their kinds are merged to
none, regular file, and not inspectable. `FilesChange` may replace or remove any
schema or linked file until loading is over, when it stops making a difference.

`SchemaPreload` keeps the queue, the visited logical URIs and the cache by
canonical path of the code. URIs are an origin, directories and a file; a text
has references, each with what the `$id`s around it come to, and `Resolve` takes
both against the URIs of the resource as the code does: the logical one against
the logical URI and the `$id`, the path against the path alone. Nothing makes
the URIs finitely many. Making a path canonical and reading it are two steps
(`Fetch`, `Supply`) with changes to the files in between; `reading` is the local
variable that holds the canonical path, or the path as given where there is no
file. `there` records which of the two it was, for the property alone.

## 4. Runs

| Run | States | Bounds | Shows |
|---|---|---|---|
| `Sequence` | 794 k | 3 nodes; 2 rules of 5 cardinalities beside an inert one, or 3 rules of 2 cardinalities | the engine implements the verdict; safety; termination |
| `SearchConcurrent` | 326 k | 3 processes at once, 2 files, 1 change, incomplete walks | what concurrent refreshes may do |
| `SearchCrash` | 321 k | 3 processes in turn, 2 files, 2 versions, 2 changes, 1 crash | recovery after anything |
| `SearchRebuild` | 50 k | 3 processes, 2 at once, 2 versions, 1 crash, any renames failing | racing and failing rebuilds; liveness |
| `Validator` | 833 k | 3 headings, or preambles of 2 blocks with 2 items, or a mapping of 2 levels; the schemas of `MCValidator` | judgements, conformance, constraints, frontmatter |
| `CheckCommand` | 544 k | 3 arguments, 2 schemas, 1 change, linked JSON Schemas: 2 files of 2 texts under 4 paths, an `$id` of each kind, a missing file | the command's answers, what is compiled, the end of the preload |
| `Document` | 207 k | up to 3 headings, or 5 blocks with at most 3 levels; every spelling of every path | sections, comments, paths, reading, units, hits |
| `Loader` | 241 k | schemas in six families | faults, names, locators |
| `NpmInstall` | 269 k | 2 runs, 1 kill, 5 redirects as in the code | installation |
| `SearchLost`, `SearchDamaged`, `PreloadGrows` | – | smallest that show it | see Findings |

Some properties are conjunctions of named parts that are commented where they
are defined (`JudgedOnce`, `TreeIsRight`, `SearchesAreCurrent` and others).

Why the bounds are enough to be interesting: three nodes and two rules reach
windows cut off by a minimum, by a maximum, by a node that does not match and
by the end; a third rule makes some stay empty. A deleted file, a changed one
and a new one are three relations between one file's walked, indexed and
present version, and two files tell scopes apart. Two processes are needed for
every race on the index that was found; the third lets a later search look at
what the two left. Three headings give a parent, a child and a sibling, a
skipped level below each, and two titles with a heading before, between or
after them. Three arguments are the fewest with two that share a schema and one
in between. Five blocks give a title, a section with a lead-in and a list, a
second section of the same slug and content below it. Each family of schemas
crosses every spelling of the fields it is about, so faults come in pairs and
more. Two wrappers are enough for a winner, a loser and a later run that finds
what a killed one left, and the theorems do not bound them. Every run checks
all inputs within its bounds, not a sample.

The runs set `CHECK_DEADLOCK FALSE`, because each of the programs ends;
`Document` has a step that stutters at the end instead.

Each property has a mutant in `PROJECT.json`: a plausible mistake in the code
under which the property fails, most of them marked `Bug:`.

### Fairness

`Sequence` assumes weak fairness of its next step and `CheckCommand` of the
command's own step: both are single threads that never wait. In `SearchIndex`
each started process keeps taking steps (`WF_vars(Step(p))`) unless it is
killed; nothing is assumed about when processes start, about crashes, or about
the files. The code never waits for a lock, so no stronger assumption is
needed. `NpmInstall` assumes that a run goes on with its own steps, and that
the server answers every request: the code sets no timeout, so without the
second hypothesis `EveryRunEnds` is false, and with it the property is about
the count of redirects. Of the preload it is said that it ends unless it supplies
new resources for ever (`EndsUnlessUrisGrow`): the code has no bound on them. The
other modules are sequential functions of their input and state no liveness.

### Findings

Two promises of `spec/search-spec.md` and one of `spec/outlint-spec.md` are
broken by what the code does; each has a run whose counterexample is short.

* `SearchLost` (6.4): a process that walked before a file was created, and
  plans after another process indexed it, deletes the file's records. The other
  process then searches and misses a file that exists and that it indexed.
  The loss is repaired by the next undisturbed refresh
  (`UndisturbedSearchIsExact`).
* `SearchDamaged` (6.3): a commit that races a rebuild can leave metadata
  that names a missing segment. Opening looks at the marker, the metadata and
  the schema, so the index is never rebuilt and every later search fails.
* `PreloadGrows` (outline specification 2.3): a JSON Schema with an `$id` in a
  directory of its own and a reference to itself has a longer URI each time
  around. No URI is visited twice and nothing counts them, so the preload does
  not end.

`SearchCrash` therefore runs its processes in turn: its
`UndisturbedSearchSucceeds` is the promise that does hold, for crashes anywhere
without a race.

Smaller disagreements met while modelling, which no run is spent on:

* Revoking read permission leaves modification time and size alone, so the units
  of a file that can no longer be read stay (`store.rs:397`), against 6.4 of
  `spec/search-spec.md`: `UndisturbedSearchIsExact` leaves such files out.
* A block's slice of the source is parsed as a document of its own
  (`units.rs:331`). Indented code that looks like a comment, HTML or a link
  definition without its indent loses its words, and a reference without its
  definition becomes text, label and all, against 2.3 of `spec/search-spec.md`.
  `UnitsCoverDocument` names these exceptions and allows no other.
* With inline markup kept, an item's link whose text ends with a line break
  comes twice, and one whose text begins with a break loses its opening bracket
  (`markdown/body.rs:792`), against 1.8 of `spec/outlint-spec.md`.
  `ItemTextIsFirstParagraph` states the text exactly for all other items, and
  for these that no word is lost.
* A query without `exists` in a constraint of a scope that is bound more than
  once (several titles, a repeatable rule) repeats the same `invalid-value`
  diagnostic word for word (`engine.rs:612`); `SaidOnce` says that
  nothing else does.
* A redirect of the npm wrapper to what is no URL ends it with an exception and
  leaves the temporary directory (`install.js:67`), which every other failure
  removes; `EndedRunsLeaveNothing` says so. No document speaks of it.
* A linked file that comes into being between the look at its path and the
  read is remembered under its path as given, so another name of it is read
  again (`schema_loading.rs:63`); `PreloadConsistent` leaves such files out.
* A `fm.` reference to an undeclared capture is not reported when any rule of
  the schema is at fault, and errors of shape hide all later ones, although
  `spec/outlint-spec.md` asks for independent errors together;
  `FaultsAreIndependent` is stated past both gates.
* At the top of a schema `extras`, `unordered` or `constraints` without a list
  of rules is reported twice (`loader/shape.rs:79` and `:309`).

## 5. Theorems

`SequenceProofs` proves for every number of nodes and rules, every set of
cardinalities and every input:

* `TypeCorrect`: every index, cost and endpoint stays in its range;
* `EngineNeverExhausted`: no lookup fails, no cost underflows, and the
  recovery walk never runs past the last rule, so the engine's error is
  returned only for tables that cannot be allocated;
* `AssignmentKeepsOrder`: assigned nodes follow the rules and match them;
* `AcceptanceIsSound`: an accepted sequence is a partition within the
  cardinalities.

The assumptions are those of `SequenceInput`: sizes are natural numbers, the
two sentinels are not numbers, cardinalities are pairs of bounds. The minimum
may exceed the maximum: the argument does not need otherwise.

None of the four is inductive. The invariant `IInv` adds:

* `EndpointsChain`: a recorded endpoint respects the rule, and the next rule
  has an endpoint from there, or it is the end of the document. This is why
  rebuilding never misses an endpoint and why what it builds is a partition;
* `CostsHaveEndpoints`: a finite cost in `suffix` comes with an endpoint, so
  testing the cost decides about the chain;
* `DequeHoldsCandidates` and `PrefixGrows`: candidates are beyond the minimum,
  can be continued from, and have keys no smaller than their prefix, and
  prefixes grow: the subtraction in `Settle` cannot underflow;
* `AssignedBehind` and `RebuiltSoFar`: what the two assigning loops have done
  so far;
* `LastColumnLeaves`: in the last column leaving a node keeps the cost, so the
  walk never has to advance from there.

`InvariantHolds` is the theorem about `IInv`; there is one lemma per part,
with one step per action.

`VerdictProofs` proves that the engine implements `SequenceVerdict`
(`EngineImplementsVerdict`), again for every size, cardinality and input: when
`assign` returns, what it returns is the canonical verdict of `Assignments`. The
one further assumption, `PendingIsNoVerdict`, says that the value for "no
verdict yet" is not a verdict. The argument needs what the algorithm knows
about optima, which the safety proofs could leave out; the invariant `VInv` adds
to `IInv`:

* `RowsAreBest`: a cost in `suffix` or `current` is the least of all partitions
  from that node and rule on (`LeastCost`), and a recorded endpoint is the best
  place to stop: whatever stops elsewhere has a cheaper rival, or one as cheap
  that the rule's preference favours (`BestEndpoint`);
* `DequeIsMonotone` and `DequeCoversWindow`: the deque is ordered by
  preference, and for every endpoint of the window that the node can reach
  holds it or a better one below it, which the node reaches too. The front is
  therefore the best endpoint. `PrefixCounts` and `NothingAhead` say what the
  keys count and what is not yet computed;
* `CellsAreLeast`: a cell of `table` holds the least loss of all ways to go on
  from its node and rule;
* `RebuildsTheBest` and `WalksTheBest`: for every partition (recovery) there
  is one at least as good that agrees with what has been assigned and can be
  completed from where the loop stands. For the walk this depends on how it
  breaks ties, and `AdvancesForCost` is the fact that makes it true: the walk is
  past the rule of its latest node only where leaving the node out costs too
  much, so that the order consume, leave, advance is the order `Rank` gives;
* `CountsAreExact` and `NoPartition`: the counts are those of the assignment,
  and recovery is entered only where no partition exists.

The lemmas exchange tails: an assignment may be cut at a node and continued by
another that goes on from the same rule (`Glue`, `Run`), and a cheaper tail wins
as a whole. Preference is asymmetric (`BetterPartitionAsymmetric`,
`BetterRecoveryAsymmetric`), so at most one assignment is preferred to all
others and the `CHOOSE` of `Verdict` can only be the one the engine holds
(`CanonicalVerdict`). No induction over the document is needed beyond that of
the loops themselves.

The search index has two modules of proofs, for any sets of processes and
files and any number of changes and crashes:

* `SearchIndexProofs!TypeCorrect` (`TypeOK`): types, at most one installed
  directory, and a lock held by exactly its writer;
* `RebuildsLeaveOne` (`RebuildsLeaveAnIndex`): rebuilds that race, or fail
  after they moved the old index aside, leave one complete index between them.
  `Places` says where the directories of a process are at each step,
  `SomeoneInstalls` that while nothing is installed and no process was killed,
  some process is about to install its directory or to put back the old one
  (`SomeoneReplaces`), or there is nothing to lose yet (`NothingYet`);
* `UndisturbedExact` (`UndisturbedSearchIsExact`): `RecordsRight` says that each
  record was signed by a walk that saw the version it has the text of, or an
  earlier one, `WalksRight` the same of what a process has walked, planned and
  staged, `Alone` what an undisturbed process can rely on, and `SeenExactly`
  what it knows about each file at each step up to its search;
* `SoloSearchSucceeds` (`UndisturbedSearchSucceeds`: no search fails unless its
  rename does) under the hypothesis `MaxActive <= 1`: `SoloInv` says that then
  no directory is damaged and that what the one process has opened or moved is
  where it left it;
* `SearchesCurrent` (`SearchesAreCurrent`) and `RefreshesAdvance`
  (`RefreshesOnlyAdvance`, an action property) under `SameVersion`: the index
  was made by the version of outlint that all processes run. `Steady` says that
  nobody rebuilds then, `PreparedAhead` that what a writer has staged is no older
  than what is indexed, since its lock keeps out every other commit between
  reading and writing the records, and `UpToDate` that what a process found up to
  date is only replaced by something as new.

The hypotheses are needed, and each is what the run of the same property
assumes: with a rebuild that races a refresh TLC finds a search that fails and
one that shows an older text, for the cause of `SearchDamaged`. The other
assumptions are the ones declared in `SearchIndex`, mostly that the sentinels
differ from the values they stand beside.

`NpmInstallProofs` proves, for any set of runs, any number of kills, every
behaviour of the server and both kinds of platform:

* `InstallationIsAtomic` (`OnlyTheReleaseRuns`): what is in place, and what any
  run starts, is the verified, whole and executable binary;
* `NothingIsLeft` (`EndedRunsLeaveNothing`): a run that was neither killed nor
  crashed has removed its temporary directory, and one that was not killed its
  staged file.

No assumption is made about the constants. Neither property is inductive; the
invariant `IInv` says by program counter what a run holds (`Holds`: past the
verification its archive is the released one, past the chmod its staged file is
the binary, past the rename the destination has one) and what it has on disk
(`Leaves`). That no run takes back what is in place is what lets one run's
facts survive the steps of another (`OthersAreUndisturbed`); the lemmas then
take the actions in three groups: download, staging, ending.

`CheckCommandProofs` proves, for any command line, any schemas and linked files,
any number of changes while a command runs, and any outcome of reading,
loading and validating:

* `PreloadsAreConsistent` (`PreloadConsistent`): a preload never holds two texts
  of one file that was there whenever it was looked up, supplies no URI twice,
  and when nothing is left to do leaves no local reference of a text out;
* `ZeroIsEarned` (`ZeroMeansAllValid`): with exit status 0 every argument has a
  result and no result has diagnostics;
* `ArgumentsAreAccountedFor` (`ArgumentsAccountedFor`): at the end every
  argument has a result, or an error that explains why not; results stand in the
  order of the arguments, and an invalid schema once, at its first document.

The assumptions are named where the constants are declared: some paths lead to
files (`PathsLeadToFiles`), a text has a list of references (`TextsRefer`),
failures and sentinels are not texts (`DistinctOutcomes`), the arguments are
files that discovery has candidates for (`ArgumentsNameSchemas`), and
`LocalsAreSelected`: of the references of a text the local ones are followed.
The last is what `SelectSeq` does; the provers know nothing of it, and TLC
evaluates it. URIs are not assumed to be finitely many. The first invariant,
`PreloadInv`, says that a text that was supplied for a file that was there is
in the cache under that file (`KeyedByFile`, `Remembered`), which is why the
file is not read again under another name, that the visited URIs are those
supplied or being read (`VisitedUris`, `SuppliedOnce`), and that a reference of
a supplied text is supplied, queued or being read (`ReferencesFollowed`). The
second says what each phase has settled about what it has passed, as long as
there is no error and no diagnostic: inputs are read and grouped, groups
loaded, documents judged; an emitted schema has diagnostics
(`EmittedWithDiagnostics`), so the documents passed over after it cannot make a
silent success. The third adds `AccountInv`: a failure of any phase is in the
output when the phase passes on (`FailuresReported`), every argument that is
behind a phase is settled by it (`InputsSettled`), and the output so far is in
order (`InOrder`).

`WalkLemmas` and `ValidatorProofs` prove, for documents of any size, any
grammars and content rules, both values of `allow_skipped_levels` and any set
of hidden diagnostics:

* `HeadingsAreJudgedOnce` (`JudgedOnce`): a heading is bound to a rule, or said
  once to be not allowed, misplaced or unexpected, or neither; never two of
  these, and never below a heading that the walk has not entered;
* `SkippingIsSilent` (`SkippedSubtreesSilent`): of a subtree that skips a level
  nothing is reported except that it does;
* `InvalidValuesSuspend` (`InvalidValueSuspendsOrder`): an order violation is
  reported only where all values of the rule's headings could be read;
* `WordsAreSaidOnce` (`SaidOnce`): no diagnostic is reported twice, with the same
  rule, anchor and schema node, except what a query reads again.

None of them is inductive: each depends on what the calls that are still on the
agenda will do. `WalkInvariant` proves the invariant `Walking /\ Voicing`. The
parts of `Walking` say

* what a task may hold (`Shaped`): rules and grammars of the schema, anchors and
  sections that no skipped level hides (`Sound`), no section twice;
* that before the root is entered nobody is bound or judged (`Unopened`), and
  that it is entered once (`Opened`);
* that the sections of a scope that is yet to be bound are within reach, with
  nothing said of them and nothing bound next to them, and that no two scopes on
  the agenda have sections of one parent (`ListedOnce`). This is what keeps a
  heading that one scope has refused from being seen by another;
* that titles are refused at most once, and that no title is bound where they
  may be (`Refusing`);
* that what is bound is not judged, and nothing is judged twice (`Apart`);
* that an order that is yet to be judged is of every bound heading under its
  parent (`OrderedAlone`), and that where one was violated no scope will bind
  another heading there (`ViolatedAlone`): an invalid value cannot turn up after
  the violation was reported. `EvaluatedOfBound` says that a value counts as
  valid only if it could be read.

`Voicing` is what `WordsAreSaidOnce` needs besides. `Says` gives every task on the
agenda what it, or a task that it leads to, may still say: the content of a
heading what is anchored at it, a scope what its parent lacks and whatever is in
the branches of its sections, where `Branch` is a heading with all that is nested
in it. No two tasks may say the same (`OwnWords`), none may say what was said
(`Unsaid`), and the sections of a scope are in separate branches with its parent
in none (`Branching`). A step says part of what its task may say and divides the
rest among the tasks it pushes (`VoicingStep`); that it can is a matter of the
nesting of headings (`BranchesPart`, `ChildrenPart`). Judgements are not divided
so: `Apart` says that they are said once. Within a step a diagnostic is said
once since a step emits a set: the model takes diagnostics of one rule, anchor
and schema node for one.

The steps of the walk fall into four kinds, each with a lemma that takes it from
what the step says and pushes to the invariant: before the root
(`OpeningStep`), entering it (`RootStep`), binding a scope (`BindingStep`) and
everything that binds and judges nothing (`IdleStep`). `BindingStep` is the core:
what it lists are children of headings it has just bound, so nobody has been
there (`ChildrenAreUnreached`), and what it judges are headings of its own
scope that it does not bind. The lemmas about operators are about what the walk
does with sequences (`Only`, `FlattenSeq`, `SetToSeq`), written as recursive
functions and `CHOOSE` there, and about the engine's `Verdict`: there are
finitely many ordered assignments and preference is a strict order on them, so
the `CHOOSE` denotes an assignment of rules to nodes (`VerdictIsOrdered`).

The assumptions about the constants are declared in `Validator`, and TLC
evaluates them on the run. `NoneIsApart`: the sentinel is no value it stands
beside. `GrammarsNest`: a grammar's rules, constraints and their references are
lists, and the grammars and content rules within one are again among those
considered, which is what the loader builds from a schema. `CasesFit`: a
document's levels are positive, its blocks and items are lists, and a schema
has one of the three shapes: outline, title, or `title: null`.
`QueriesFindFinitelyMany`: a query finds finitely many nodes of a mapping. The
meaning and the refusal of a query are parameters (`QueryResult`,
`QueryRefused`), so that the theorems hold whatever a query finds; the run
gives them the definitions of `JsonPath`.

Only model-checked: liveness (`Terminates`, `EndsUnlessUrisGrow`,
`EveryInvocationEnds`, `EveryRunEnds`), which the provers do not handle; and
the other properties of the `Validator` run with those of the `Document` and
`Loader` runs. `JsonPath`, `ValidatorVerdict`, `MarkdownBody`, `DocumentRead`,
the loader and the modules on top of them are built on recursive operators over
trees of blocks, values, headings and rules, and what those compute for every
tree would need induction over data.

## 6. Not modelled

* Reading YAML (`yaml/`, `loader/yaml.rs`) and finding the frontmatter block:
  the spelling of scalars on top of an event parser. The loader's model starts
  from the node tree, with every field present, absent or malformed.
* Typed values, matchers, case folding, slugs and regular expressions on
  characters: pure functions of text, abstracted to what matchers and captures
  tell apart; `match_case` with them.
* Two data-only details of modelled functions: the order of the headings named
  in a constraint's diagnostic, and the escaping of keys in JSON pointers.
* The syntax of document paths, excerpts of search results, scoring and query
  syntax.
* Tantivy, the Markdown event parser, the `jsonschema`, `regex`, `ignore`,
  `serde_json_path` and YAML crates: external; what the code relies on is
  stated where it is used (`SearchIndex`, `CommonMark`, `JsonPath`).
* Rendering, argument parsing and messages: wording and layout.
