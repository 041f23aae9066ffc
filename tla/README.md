# wiiuvci in TLA+

`wiiuvci` turns a Wii or GameCube disc image into an installable Wii U title. A run stages a *base
title* (from a Cemu `.wua`, a directory, or Nintendo's NUS servers), authors or opens a Wii disc,
converts it to the encrypted sparse NFS image that the console's vWii mounts, patches the base's
firmware and metadata, and packages the tree as a WUP: encrypted contents, hash trees, FST, TMD,
ticket, certificate. This directory models that program in TLA+, checks it with TLC and proves part
of it with TLAPS.

Paths below are relative to `src/crates/core/src/` unless they start with `cli`.

## Inventory

| Component | State | Operations | Talks to | What is hard | Correct when |
|---|---|---|---|---|---|
| Command line (`cli/src/main.rs`) | work directory, options | `run`, `prepare_work_dir`, `build_base`, `build_gc_options` | pipeline, bases | reused work directories, several runs; options of two consoles | nothing of another run is used; no option is lost without a word |
| Pipeline (`pipeline.rs`) | staged tree, scratch files, open handles | `run`, `run_gamecube`, `finish_package` | everything | a failure or kill at each step; best-effort steps beside fatal ones | outputs change last; scratch is freed; art and apploader are the right ones |
| Base titles (`base.rs`) | archive or directory reader | `stage`, `materialize_original_nfs` | pipeline | untidy trees | the base without its game |
| NUS (`nus.rs`) | title id, keys, content cache | `stage`, `materialize_original_nfs`, HTTP | extraction | the server changes; downloads fail | one version of the title |
| Source discs (`input.rs`) | disc reader, partition span | `used_data_group_runs`, `plan_group_runs` | nod | partial last groups, shared groups | all that is needed is kept |
| Disc rebuild planning (`disc_patch.rs`) | `DiscPlan` | `plan_disc`, `apply_edits_to_group` | source, NFS | edits across hash groups | hashes agree with the data |
| Disc authoring (`wii_author.rs`) | `AuthoredDisc`, scratch file | `author_gc_disc`, `into_rvlt` | NFS | 32-bit fields, open file | a disc that mounts |
| NFS image (`nfs/mod.rs`, `nfs/eggs.rs`, `nfs/crypto.rs`) | LBA ranges, encoder | `plan_ranges`, `merge_smallest_gaps`, `build_nfs` | splitter | table limit, clamped ranges, patches at boundaries | the image mounts as the patched disc |
| NFS splitting (`nfs/split.rs`) | current file, bytes in it | `write_all`, `open_next`, `finish` | NFS image | boundaries inside a buffer | a stream in full files |
| fw.img patches (`fwimg.rs`), video patches (`video.rs`) | none | `apply_patches`, `patch_file` | pipeline, planning | matches at the end | patched sites, or nothing changed |
| Apploader and certificates (`apploader.rs`) | none | two extractions | base's own disc | each may fail alone | best effort |
| Content planning (`package/content.rs`, `package/fst.rs`) | contents, FST | `plan`, `GameGrouping`, `flatten` | packaging, extraction | order, cap, table that holds its own size | the installer takes it; files come back |
| Extraction (`package/extract.rs`) | decoded contents | `extract_title` | NUS | damaged contents | only what was packed is written |
| Content encryption (`package/content_crypto.rs`) | group buffer, hash levels | `encode_hashed_to_writer`, `decode_hashed` | plaintext reader | a reused buffer, partial groups | equals encoding all at once |
| Plaintext reader (`ContentPlaintextReader`) | position, open file | `read` | staged tree | files that change after planning | bytes of the plan |
| Publication (`package/mod.rs`) | `.part` and final files | `build_package`, `StagedOutputs` | installer | failed calls and kills between any two | a package appears whole |
| GameTDB (`assets/gametdb.rs`) | shared cache file | `fetch_wiitdb_text` | other processes, network | no lock, two looks at one name | never a damaged database |
| Art and Nintendont (`assets/*`) | none | downloads, image conversion | pipeline | absent art | best effort |
| Nintendont's settings (`nincfg.rs`) | none | `generate` | command line | a packed record of another program | Nintendont reads what was typed |
| Metadata (`meta/*`) | reader position, output | `derive`, `generate`, `patch` | pipeline, GameTDB | templates written by others, declared lengths | every known element names the game |
| Keys, TMD, ticket, certificates (`keys.rs`, `package/{tmd,ticket,cert}.rs`) | none | encode one record | pipeline | byte layout | unit tests |

The program has one thread. Its concurrency is that of processes: the GameTDB cache is shared by all
of a user's runs, and an output or work directory outlives the run that wrote it, whole or not. Its
failures are those of every file-system and network call, and kills. `PROJECT.json` lists the
hazards of this code line by line with the properties that watch them.

## The modules

| Module | Models | Checked by | Proved in |
|---|---|---|---|
| `AtomicPublication` | abstract: a package appears in one step and is only ever withdrawn | as `PublishesAtomically` | |
| `WupPackage` | `build_package`, `StagedOutputs`, `clean_stale_outputs` | `WupPackage.cfg`, `WupPackageDoc.cfg` | `WupPackage_proofs` |
| `SplitWriter` | `nfs/split.rs` | `SplitWriter.cfg` | `NfsBuild_proofs` |
| `GroupRuns` | the pure group arithmetic of `input.rs` | in `NfsBuild` | `NfsBuild_proofs` |
| `NfsBuild` (extends `GroupRuns`) | `disc_patch.rs` and `nfs/mod.rs` | `MCNfsBuild`, `NfsBuild.cfg` | `NfsBuild_proofs` |
| `ContentPlan` | `content.rs`, `fst.rs`, `extract.rs` | `MCContentPlan`, `ContentPlan.cfg` | `ContentPlan_proofs` |
| `HashedContent` | plaintext reader, `content_crypto.rs` | `MCHashedContent`, `HashedContent.cfg`, `HashedContentDoc.cfg` | `HashedContent_proofs` |
| `WiitdbCache` | `fetch_wiitdb_text` and its cache | `WiitdbCache.cfg`, `WiitdbCacheDoc.cfg` | `WiitdbCache_proofs` |
| `Pipeline` | the run around all of them, and runs after it | `MCPipeline`, `Pipeline.cfg` | `Pipeline_proofs` |
| `AuthoredDisc` | `author_gc_disc` of `wii_author.rs`, with its 32-bit fields | in `WrittenFiles` | `WrittenFiles_proofs` |
| `BaseSources` | `base.rs`, `nus.rs`, `apploader.rs` and the update server beside them | `MCBaseSources`, `BaseSources.cfg` | `BaseSources_proofs` |
| `BytePatches` | `fwimg.rs` and `video.rs` | in `WrittenFiles` | `WrittenFiles_proofs` |
| `Nincfg` | the record of `nincfg.rs` | in `CommandLine` | `WrittenFiles_proofs` |
| `CommandLine` (extends `Nincfg`) | one call of `cli/src/main.rs` up to the pipeline, and its `nincfg.bin` | in `WrittenFiles` | `WrittenFiles_proofs` |
| `MetaXml` | `meta/*`, `resolve_title`, `parse_wiitdb` | in `WrittenFiles` | `WrittenFiles_proofs` |
| `WrittenFiles` (extends `AuthoredDisc`) | the four modules above, one file per behaviour | `MCWrittenFiles`, `WrittenFiles.cfg` | `WrittenFiles_proofs` |

How state and actions correspond to the code:

* **WupPackage.** `final` and `part` are the output directory; a file is the build that wrote it and
  whether the write ended. `pending` and `renamed` are the fields of `StagedOutputs`. One action per
  file-system call: `SweepRemove`/`SweepFails` of `clean_stale_outputs`, `CreatePart`, `FinishPart`
  and `WriteFails` of the staging loop, `Rename`/`RenameFails`/`UndoStep` of `commit`, `DropStep` of
  the destructor. `Kill` stops the process anywhere, and `Start` begins the next build on what is
  there.
* **SplitWriter.** `hifs` are the lengths of the files, `unwritten` what `write_all` has left;
  `Fill` and `Roll` are the two branches of its loop.
* **NfsBuild.** A disc is a record of extents; a sector is a few *slots*, each of which names where
  its bytes come from. The places of the TMD and of the H3 table in the partition header are the
  disc's own, as `plan_disc` reads them there. `pc` walks through `plan_disc`, `plan_ranges`,
  `verify_patches_contained` and the three write passes; in a pass, `turn` is the range that is
  written and `next` how many of its sectors or groups are. `Mounted` is the reader of the image.
* **ContentPlan.** One action per turn of each loop: a group of files of `plan` (`AllocGroup`), a
  file of `GameGrouping` (`AllocGame`), a node of `flatten`, a slot of the content table, then the
  damage a download may do (`Deliver`), a node of `node_paths` and a node of `extract_title`. The
  recursion over directories is the order `Before` of the paths; a directory's end, which `flatten`
  fills in when it returns, is there at once, since nothing reads it in between. `Start` and `Size`
  are what is left of an offset and a size after the 32-bit fields of the FST (`Word`); `FitsFields`
  says which files lose nothing by it.
* **HashedContent.** One action per call of `read`, including where it returns short, then the group
  encoding over one reused buffer. A hash is the value hashed, wrapped.
* **WiitdbCache.** One action per file-system call of a lookup, per process; a clock; kills. A text
  is "whole", "cut" (which the code cannot tell from whole) or "junk" (which it can).
* **Pipeline.** A file of the work directory is what made it and in which run. Each step is one
  action; steps that fail leave their targets cut. `base_disc_extras` never fails, as in the code.
  What `NfsBuild` and `WupPackage` model in detail is one step here; that the packaging step either
  withdraws the old package or replaces it is what `AtomicPublication` promises.
* **AuthoredDisc.** `Check` and `Refuse` are the limits tested before the file is created, then one
  action per hash group written, the disc header and the partition header. A byte is the object it
  belongs to and its place in it; a stored pointer is the offset, shifted, in a field of `FieldMax`.
  The title and region bytes of the disc header are left out: nothing is found by them.
  `DiscReadsBack` follows the pointers from the first header, as a console does.
* **BaseSources.** `own` is what a directory or archive holds, `server` what Nintendo serves:
  contents by id and the latest TMD. A download is a request and the server's answer, error or
  silence; between any two the server may publish a version, contents first, or withdraw one. One
  action per file copied or extracted, `finalize_stage`, then the three ways to the base's game disc
  and the two extractions from it.
* **BytePatches.** `PatchMatch`, `RefuseMatch`, `NoteEdit` and `NoMatch` are the outcomes of one
  search; `fw.img` is overwritten as it is searched, `main.dol` is searched first. The patch tables
  are the code's own bytes, the two long ones of `video.rs` shortened to their ends. `Sites` and
  `Replaced` say what patching should come to; `StandApart` says of an image of `fw.img` that no
  patch gets in the way of another in it.
* **CommandLine.** One action per step of `run`: each check passes or ends the call with what it has
  fetched. A `Cli` is a record of the arguments, a default standing for absence. `RunPipeline`
  stands for the pipeline up to its package, which `Pipeline` has in detail. After it the hook that
  leaves `nincfg.bin` takes one of three ways: `RefuseSettings`, which only a cheat path can cause,
  `WriteNincfg`, over the file of an earlier game if there is one, or `WriteFails`, where
  `std::path::absolute` or `fs::write` fails and the old file, none or a cut one is left.
* **MetaXml.** A document is the sequence of events the XML reader returns; `PassThrough`,
  `Replace`, `Expand`, `Refuse` and `ReadFails` are the branches of `patch`'s loop. Attributes that
  are not well formed (`Garbled`, `GarbledType`) make `read_attr` fail on an element that is
  replaced and pass unread on any other. `Elements` is a reader that knows nothing of `patch`:
  `Read` takes one event, with a stack of the elements that have not ended, and `After` folds it
  over a document.
* **WrittenFiles.** A behaviour makes one of the four kinds of file, named by `making`, with the
  actions of that module; the variables of the others are idle. The pipeline makes the files one
  after the other and none is read back while another is made, so they need no interleaving; that
  they end up in one package is `Pipeline`'s matter.

## The runs

| Run | Question | Bounds |
|---|---|---|
| `wup_package` | Is a package visible only whole, sealed by `title.tmd`, never mixed, whatever fails or is killed? | 3 contents, 2 builds |
| `split_writer` | Are bytes cut at the file size exactly, without an empty tail? | file of 7 bytes, buffers of 1 and 4, 30 bytes |
| `nfs_build` | Does the image mount as the patched source disc, with the least padding, in the table's limit? | 6 groups of 2 clusters, 5 ranges, about 8000 discs |
| `content_plan` | Do files come back from the package, does the installer's order and cap hold, is the table right? | about 210 staged trees, cap 8, units of 2, fields of 9 values |
| `hashed_content` | Is streaming equal to encoding the whole, and decodable? | blocks of 2 bytes, arity 2, up to 4 groups |
| `wiitdb_cache` | Is the cache never damaged, and are lookups best-effort and finite, with processes at once? | 2 processes, 3 lookups, clock 0..2 |
| `pipeline` | Does a run use only its own files, change outputs last and free its scratch? | 2 runs, 7 command lines |
| `base_sources` | Is one whole version staged, do apploader and certificates come from one disc read with its own key, does staging end? | 2 versions of titles of 4 contents and 2 to 5 files |
| `written_files`, disc | Can the authored disc be followed from its header to the last byte of the image, and is one refused only over a limit? | fields up to 20, clusters of 4, groups of 2; objects around every limit |
| `written_files`, patches | Are the sites of the original image replaced, all of them and nothing else, in one run or two? | images of up to three pieces of the signatures, whole, cut and overlapping |
| `written_files`, call | Is every option used or named in a warning, does a call that ends well leave Nintendont what was typed, is the network left alone by calls whose key, certificates, base or work directory are bad? | two arguments or surroundings out of the ordinary |
| `written_files`, meta.xml | Does each element of the template name the game within its length, and is nothing else changed? | two elements of nine kinds in nine forms, cut files, nine requests |
| `wup_package_doc`, `wiitdb_cache_doc`, `hashed_content_doc` | three statements of the docs that the code does not keep, below | as above or smaller |

Why the bounds are enough. In `wup_package` three contents give hashed and unhashed ones beside the
FST and plans that shrink between builds; two builds give every state an earlier build can leave,
because the sweep either empties the directory or ends the build. In `split_writer` 7 and 4 are
coprime, so every alignment of buffer and boundary occurs. `nfs_build` has an odd number of
clusters, so the last group is partial, files that share a group, edits across groups, more runs
than ranges, a partition whose header ends where it begins, and headers with their TMD and their H3
table in different places. `content_plan` has files at the cap, one above it, empty files and
directories, two hif files, and a file of `meta/` whose size does not fit its field.
`hashed_content` has every length next to a block, a group and two groups. In `wiitdb_cache` a
second process is what any number of others can do between two steps; a third lookup lets an id come
back after a kill. In `pipeline` the second run meets what the first left. `AuthoredDisc` has
objects that end before, on and after an alignment, a cluster and a group, and images and partitions
on both sides of each limit. In `base_sources` one update is enough: it can fall between any two
downloads, and no version but the last two is ever mixed by two TMDs. The patches of `BytePatches`
meet in pairs, and each pair occurs abutting, and overlapping where the signatures allow it.
`CommandLine` needs two arguments: one to choose the console, one to be lost. The elements of
`MetaXml` do not influence each other, so one out of the ordinary beside an ordinary one is enough.

`CHECK_DEADLOCK FALSE` stands in every configuration because the program ends: after the last build,
lookup or run of the bound nothing is left to do.

Fairness is weak fairness of the program's own step only: `Program` in `HashedContent`, `Step(p)` in
`WiitdbCache`. A process that is not killed is scheduled and its file-system calls return. Ticks,
kills and new starts are not fair. In `BaseSources` the program alone is fair: the server may
publish at any time or never answer, and `StagingEnds` rests on `TimesOut`, the connect timeout and
the overall one of `http_client`. That a request ends is therefore assumed, in `LookupReturns` too,
and not shown: a client without a timeout would not be noticed. What is checked is that the code
around the requests ends whatever their answers are, and that the growing buffer does.

## Where code and docs differ

1. **A failed sweep leaves an installable-looking older package** (`wup_package_doc`).
   `build_package` says a failure never leaves one; the sweep removes older outputs in directory
   order and stops at the first it cannot remove, with `title.tmd` perhaps still there.
2. **A lookup may serve an expired database as fresh** (`wiitdb_cache_doc`). The text is read first
   and the mtime afterwards, by name; another process can rename a new file in between.
3. **A staged file that grew is cut, not refused** (`hashed_content_doc`). `ContentPlaintextReader`
   clamps at the planned size where `assemble_content` fails.

Four more were seen while modelling and are not runs. `gc_only_flags_given` does not name an option
that is given with its default value, although its comment calls the comparison as accurate as
asking which options were given; `OptionsAreHeeded` is therefore about options that are set to
something else. `main` checks the key, the certificates and the base before it downloads Nintendont,
but a missing `--apploader` or a bad `--gc-disc-id` is found only afterwards; `NetworkIsLast` is
about the former. And `patch` of `meta.xml` drops one text event behind the start of an element, so
text behind a comment and a CDATA section stay; `MetaNamesTheGame` is about elements that hold text
or nothing, as those of base titles do. A file of `code/` or `meta/` of 4 GiB and more is written to
the FST with its size cut, and without an error; `RoundTrip` is about files that fit.

## What is proved

Every theorem holds for all values of the constants that satisfy the assumptions of the modules it
extends. `SplitWriter`, `GroupRuns` and the tables of `WupPackage` and `WiitdbCache` assume positive
sizes and a `None` that is no file. The others also say what their inputs are, each time a fact the
code has before the modelled part begins:

* `HashedContent` (`ContentsAssumption`): the files of a content lie one behind the other and inside
  it, as `plan` lays them out and `ContentPlaintextReader::new` sorts them.
* `NfsBuild` (`DiscsAssumption`): a partition lies behind the tables of the disc header and its span
  is ordered, as `PartitionSpan` has it; extents and edits have natural offsets and lengths, in any
  place. Only of a disc that `author_gc_disc` made is it assumed that its extents are inside it.
  `NfsLayoutAssumption` asks for a table with room for one more range than every image has.
* `AuthoredDisc` (`LayoutAssumption`): stored offsets that are shifted by two are multiples of four,
  and the largest partition still has offsets a field can hold.
* `ContentPlan` (`TreesAssumption`): a staged title is a finite tree whose top directories are
  `code`, `content` and `meta`, and no directory is called like a hif file. `PlanAssumption` lists
  the names in their order and asks for positive units and a cap below the values of a field.
* `BaseSources` (`JobsAssumption`): a title's FST names its contents, its disc and its key have
  contents of their own, and a new key comes with a new disc; a directory has one file of a name,
  and beside its disc, if it has one, the key that disc was encoded with.
* `Pipeline`, `CommandLine`: the configurations are of the shape the parser gives.
* `MetaXml` (`DocumentsAssumption`): a document is a sequence of the reader's events, in which no
  text follows a text, since the reader ends a text at the next markup. Nothing is assumed of
  nesting, lengths or where the document ends.
* `BytePatches` (`JobsAssumption` of `WrittenFiles`): a table has no signature twice and no patch in
  it writes before the image; the runs over one image search it for more or less of one table, the
  full one or its fakesign part; an edit of `main.dol` is no longer than its signature and ends no
  later. All of this can be read off the tables of `fwimg.rs` and `video.rs`; the image is any.

TLC evaluates each assumption on the instance it checks. The theorems:

* `WupPackage_proofs`: `TypeCorrect`, `Sealed` (`TmdSealsPackage`), `Unmixed` (`NeverMixed`),
  `Exact` (`SuccessIsExact`), `CleanFailure` (`FailureLeavesNothing`), the action property
  `OnlyWhole` (`PublishesOnlyWhole`: no output gets its final name before all are on disk whole, nor
  where another file stands), and `Atomic`: the module implements `AtomicPublication`. None of these
  is inductive, since each speaks of what a user sees while the code's argument is about where it
  is. The invariant `IInv` says for each program counter what the directory holds in terms of
  `pending`: during the sweep, that whatever is left is still to be visited; during staging, that
  the parts are exactly the registered ones, complete but for the last; during commit, that the
  first `renamed` have moved; during undo and drop, what remains behind the cursor. `Rank` is the
  order of registration, which puts `title.tmd` last.
* `WiitdbCache_proofs`: `TypeCorrect`, `Whole` (`NeverCut`), `BestEffort` (`NoneOnlyWithoutData`),
  `Stays` (`StaysValid`), for any number of processes. `Local` says what a process holds at each
  step; its heart is that at `rename` the temporary file that bears the process's own id is whole,
  since nobody else writes under that name.
* `Pipeline_proofs`: `TypeCorrect`, `ScratchFreed` (`ScratchIsFreed`), and the action properties
  `OwnPackage` (`PackageIsThisRuns`) and `Outputs` (`OutputsLast`), for any number of runs.
  `WorkIsOwn` says for each step which files the work directory holds and that this run made them,
  whole: a later step may only use what an earlier one of the same run has left. `ScratchFollows`
  ties the scratch image and its open handle to the steps between authoring and removal, and
  `OutputsFollow` what is outside the work directory to the last steps.
* `BaseSources_proofs`: `TypeCorrect`, `WholeTitle` (`StagedTitleIsWhole`), `ExtrasFromTheDisc`
  (`ExtrasComeFromTheBaseDisc`), with the server free to publish or withdraw at any time. The
  invariant has a loop's argument for the copy and the extraction (what is there and what is still
  to do are together the title, `Progress`), one for the downloads (the contents in hand are those
  of the TMD in hand, `Contents`), and what is known of the base's own disc (`Borrowed`). `Served`
  is the other half of both properties: what must have succeeded when nothing went wrong.
* `WrittenFiles_proofs`: `Readable` (`DiscIsReadable`), `Refused` (`DiscIsRefusedOverLimit`),
  `NetworkLast` (`NetworkIsLast`), `Settings` (`SettingsArrive`), `Heeded` (`OptionsAreHeeded`). Of
  a disc, `DiscInv` says that the groups before `g` are in the file, each cluster at its place, and
  the layout lemmas that objects of `SysBlob` do not overlap and that each stored pointer fits its
  field. Of a call, `CallInv` says that each step rests on the checks of those before it and that
  the configuration, the warnings and a written `nincfg.bin` are functions of the command line, and
  that until then the file is what it was; `Settings` then needs that the fields of the record do
  not overlap. It says that a GameCube call that ends well leaves a file of its own that Nintendont
  reads as typed, and that a call that ends otherwise leaves the earlier one alone unless it reports
  a failed write. `MetaNames` (`MetaNamesTheGame`) compares two readings, of what is written and of
  as much of the base as is passed: they have the same elements in the same order (`Mirrors`), open
  are those of the one where those of the other are, none of them one that was replaced
  (`NoneOpen`), and each element passed fits (`AllFit`). A step of the loop passes one to three
  events and is taken through the reader event by event. `SitesPatched` (`SitesArePatched`) holds of
  every `main.dol`, and of every `fw.img` whose sites stand apart (`StandApart`): no two share a
  byte that is written; a window of a signature that meets such a byte is that of the site itself or
  differs from the signature in a byte, before and after; and in an image that is patched twice no
  signature stands where it is not a site, and one that is patched is a site no more. Without it the
  statement is false: `MEMPROT` in the right place completes the signature of `NINTENDONT_3`, which
  is then patched where the original has no site. `PatchInv` says that the buffer is the original
  with the sites that were passed (`Passed`) replaced and no other (`Mixed`), and that the search
  stands where no site reaches across it (`Settled`); the edits of `main.dol` are noted first, so
  its sites may overlap, and `Listed` says that on each byte the last edit is that of the last patch
  with a site there.
* `HashedContent_proofs`: `Streams` (`EncodesWhole`), `Proportional` (`BufferProportional`) and
  `ReadsBack` (`DecodesBack`), for every block size, arity and content. `Reader` says that the files
  before `fileIdx` are behind the position, `Buffer` that the buffer is a block or at most twice the
  content, and `Written(x)` that the first `x` groups of the whole encoding are out and the buffer
  holds what the plan has behind them. The step from one group to the next needs `GroupShift`: the
  tree over a group's blocks is the part of the whole tree above them.
* `NfsBuild_proofs`: `FilesIntact` (`FilesMountIntact`), `PatchesKept` (`NoPatchDropped`),
  `TableAgrees` (`H3TableAgrees`), `FillsRanges` (`StreamFillsRanges`), `Cheapest`
  (`MergeIsCheapest`), for every layout, disc and length of the table, and of `SplitWriter`
  `CutTypes`, `CutExactly` (`SplitsExactly`) and `NoTail` (`NoEmptyTail`), for every file size and
  sequence of buffers. The argument follows the code. The runs that `Coalesce` makes of the used
  groups are ascending, apart and inside the partition; a merge removes one run, moves no start or
  end and loses no group, so that as many merges as runs are too many make the table fit. Hence the
  ranges are ascending and disjoint (`Tabled`), and a sector is in one range or in none. `Holds`
  says that the stream has in each range the sectors it should, as far as it is, and `Position` how
  far that is. A read of the finished image then finds the sector its range promises, or zero where
  no range is. Of a file's byte that is in no range the group was trimmed, so the source has zero
  there, and no edit touches the group, since `PatchesContained` accepted the edits. For `Cheapest`,
  a set of groups that covers what is used and fits the table fills at least as many gaps as the
  code merges, and each merged gap, being one of the smallest, is at most as large as one of those
  that is its own. In `SplitWriter` a file is opened only for a byte that is in it or still to come.
* `ContentPlan_proofs`: `ExtractionInverts` (`RoundTrip`), `OnlyPackedBytes`
  (`WritesOnlyWhatWasPacked`), `LayoutUsable` (`LayoutIsUsable`), `FewestContents`
  (`FewestGameContents`), for every staged title, cap and unit. The invariant has a part for each
  loop, as far as the loop is: `Grouped(k)`, that the first `k` game files lie in the last contents
  in their order, none above the cap, and that a content and the first file of the next one are
  together too much; `Flattened(n)`, that the first `n` nodes describe their entries and each file
  is where its node says (`Described`), behind the one before (`Sound`), inside the room that was
  counted for it earlier (`WithinSpan`); `Slots(k)` of the table; `Stacked(n)`, that the stack of
  `node_paths` holds the directories above entry `n`, each open for exactly the entries below it;
  `Extracted(n)`. The order of the FST is a strict total order in which what is below a directory is
  contiguous, which is why a range of nodes says what a directory holds. `RoundTrip` is then the
  invariant at the end of the loops; of the bytes it speaks for the files that fit the FST's 32-bit
  fields (`FitsFields`), which those of `content/` always do, the cap being smaller (`FieldsAre`).
  No cut has fewer contents, because every cut that fits must begin a content behind where
  `GameGrouping` began one and no later than where it began the next.

The type invariants of `SplitWriter` (`CutTypes`) and of `ContentPlan` (`Shape`, in its invariant)
are proved, and for that reason not part of their runs.

Inductions over an index (the starts of the ranges, the runs, the levels of a tree) go through sets:
the numbers for which a statement fails have no least member, which `FiniteSetTheorems` gives by the
well-foundedness of inclusion.

Only model-checked:

* `LookupReturns`, `Ends` and `StagingEnds`: liveness under fairness is out of the prover's reach.
* `SitesArePatched` of a `fw.img` whose sites do not stand apart: of arbitrary images it is not
  true, since what one patch writes may complete or destroy the signature of another. The run checks
  it on one such image too, `MEMPROT` overlapping itself. `ImagesStandApart` of `MCWrittenFiles` has
  TLC confirm that the theorem covers all of the images that are patched twice with the full table.

## Not modelled

* Ciphers and digests (AES, SHA-1, SHA-256): a digest is what it was computed from, an encrypted
  block is the block under its key and initial vector. The per-sector pass of `nfs/crypto.rs` keeps
  sectors apart and in place.
* The byte layout of the Wii U TMD, ticket and certificate chain, and of the FST: fixed serializers
  that unit tests compare byte for byte. The layout of `nincfg.bin` is modelled, since another
  program reads it and nothing here does, and of the FST the 32-bit offsets and sizes. Its content
  index has 16 bits and its name offset 24; they matter from 65536 contents and 16 MiB of names on,
  and are taken for wide enough.
* Image conversion (`assets/images.rs`), the text of keys, and header checks inside an apploader.
* Discs, archives, XML and HTTP as formats: they are read by the libraries `nod`, `zarust`,
  `quick-xml` and `reqwest`, which the models know by what the code relies on.
* Two processes over one work directory. `prepare_work_dir` refuses what an earlier run left and
  promises nothing about a run beside it, so there is no statement of the code to check.
* The diagnostic examples and the tests, which are not part of the program.

A kill in the middle of a publication is in `WupPackage`; `Pipeline` shows it as no package.

## Plan

Order of work; all but item 13 is done. A module that composes others comes after them.

1. `WupPackage`, `AtomicPublication`, with proofs.
2. `SplitWriter`, with proofs.
3. `GroupRuns`, `NfsBuild`.
4. `WiitdbCache`, with proofs.
5. `ContentPlan`, with proofs.
6. `HashedContent`.
7. `Pipeline`.
8. `AuthoredDisc`: the layout of `author_gc_disc` with its 32-bit fields, against a reader.
9. `Nincfg`, `CommandLine`: the options, from the command line to what Nintendont reads.
10. `BytePatches`: the firmware and video patches against a reference definition.
11. `BaseSources`: the three kinds of base, the update server beside them, the base's own disc.
12. `MetaXml`: identifiers, names and the patch of the template.
13. `BuildRefinesRun`: `WupPackage`'s build as the packaging step of `Pipeline`.
14. Proofs about all of these.
