# Verification of `mlar`

This directory holds TLA+ models of the `mlar` command-line tool (`src/mlar/src/main.rs`),
TLC configurations that model-check them, and TLAPS proofs about them. `mlar` reads and writes
MLA archives. Its riskiest operation is `extract`, which turns untrusted entry names from an
archive into files under an output directory; the project concentrates on it, and also models the
commands that write an archive (`convert`, `create`), the one that recovers a damaged archive (`repair`), and the
commands that copy entries to an output (`cat`, `to-tar`) or print them (`list`).

## The system

`mlar` is a single-threaded, sequential program. Each sub-command runs a loop over the archive's
entry names and ends with `Ok(())` or with the first error that a `?` propagates (`main`,
lines 896-898, prints it and exits). The parts are:

| Part | Code (main.rs) | Role |
|---|---|---|
| Path sanitizer | `get_extracted_path` 292-317, `create_file` 319-374 | Maps a name to a path below the output directory. It drops root and `.` components, rejects `..`, creates the missing directories, checks that the canonical containing directory is inside the output directory, and creates or truncates the file. |
| Entry matcher | `ExtractFileNameMatcher` 244-287 | Selects the entries to extract: everything, exact names, or glob patterns. An invalid pattern panics. |
| Deferred writer | `FileWriter` 382-398 | Opens, appends and closes the file on every write, so few descriptors are open at once. |
| Extraction orchestrator | `extract` 444-529 | Lists and sorts the names. With no filter it takes the linear path: `create_file` for every name, then the library's `linear_extract` writes through the `FileWriter`s in the archive's physical order. With a filter it takes the sorted filtered loop: match, `get_file`, `create_file`, `io::copy`. |
| convert / repair | 633-682 | Re-encodes an archive, or recovers one through the fail-safe reader. |
| cat, list, to-tar, create | 402-442, 531-631 | Read-only listing and output, and archive creation. |
| Keys, config, keygen | 30-200, 684-... | Parse keys and arguments. |

Interactions. The orchestrator calls the matcher and the sanitizer once per name. On the linear
path the writer of every created file is handed to `linear_extract`. All of them act on one
shared piece of state, the output tree. That tree may already hold files, directories and
symbolic links when the command starts.

## Modules

- `EntryNames.tla` holds names and destinations. A name is its sequence of components: `"/"`, `"."`, `".."`, or a
  one-character normal component from `NormalNames`. `Render`, `StrLt` and `NameLt` model the byte order used by
  `iter.sort()`. Order matters because it decides which of two colliding entries is written last.
  `IsFirst(n, S)` is "n comes next in the sorted loop". `Dest` is `get_extracted_path`: `<<>>` for a rejected
  name and for a name with no normal component. Both are skipped without touching the disk.
- `Matcher.tla` holds `match_file_name`. `GlobMatch` is glob matching with `*` (which also matches `/`) and `?`.
  It is a recursive function, so it can be used in proofs.
- `Extract.tla` is the extraction. Its state:
  - `fs`: the output tree, mapping each path to none, dir, file, linkdir or linkfile. Links come only from `Trees`, the initial trees.
  - `content`: the entries whose data each file received, in order.
  - `todo`: the names the current loop has not yet visited.
  - `export`: the linear path's `HashMap` from names to writers.
  - `pc` and `err`: the command's progress, and the error it ended with.
  - `touched` and `madeDirs`: history. The files opened for writing, and the directories `create_dir_all` made.

  Actions:
  - `Start` (444-474) has three outcomes: the matcher panics; creating or canonicalizing the output directory fails; or the command proceeds.
  - `Prepare(n)` (479-487) is one `create_file` call of the linear path.
  - `PrepareDone` (488) hands the export map to `linear_extract`.
  - `LinearWrite(n)` (488, 382-398) is one entry of `linear_extract`, in any order. Its data is ok, missing, failing lookup, or corrupt.
    `linear_extract` is library code. It may hand an entry's data to `FileWriter::write` in several chunks,
    and the model collapses them into one append.
  - `LinearSkipped(n)` (488): `linear_extract` also decodes the entries that have no `FileWriter` (those
    `create_file` skipped), so a corrupt one among them ends it with an error. `LinearDone` requires that there is none.
  - `LinearDone` (488) ends the linear path.
  - `Filtered(n)` (491-527) is one iteration of the filtered loop.
  - `FilteredDone` (528) ends the filtered loop.

  `CreateFile(p, ...)` is `create_file` in full. Its outcomes: `create_dir_all` fails (a prefix is a file); the
  containing directory is outside (a linked directory in the path), so the entry is skipped after the directories
  were made; `File::create` fails (EISDIR, or ENOTDIR); or the file is created, following a link at the destination.
- `ExtractPromise.tla` is an abstract specification of what extraction promises about the files (spec 4.1, 4.4,
  7), whichever path it takes. Its state is the archive, the matcher, the set `links` of paths that are links, the
  entries in every file (`files`), and `status` (run, done, failed). Its steps:
  - `Truncate(n)`: the destination of a writable entry is truncated. An entry is writable when it is selected and
    its destination's containing directory is not reached through a link.
  - `Add(n)`: a deliverable (writable and readable) entry is appended to its destination.
  - `Copy(n)`: a deliverable entry is put alone into its destination.
  - `Stop`: the command fails, leaving the files as they are or one more writable destination truncated.
  - `Finish`: the command succeeds, only when every deliverable entry is in its file, unless a deliverable entry
    sorting after it has the same destination (`Complete`).

  `Extract.tla` ends with the refinement mapping. `files` is `content`; `links` is `LinkSet`, the links of `fs`;
  `status` is `PromiseStatus` (done or failed, else run). `ExtractImplementsPromise == Promise!Spec`, fairness
  included, is checked in the extract_safety run.
- `ExtractProofs.tla` and `ExtractPromiseProofs.tla` hold the TLAPS proofs (see below).
- `MCExtract.tla` holds the TLC instances: names over `{"a","l"}`, depth 3, named archives, trees and matchers.
- `Convert.tla` models `convert` (653-682) and `create` (402-416), which share `writer_from_matches` (146-170).
  The `ArchiveWriter` is abstract: `out` is the sequence of entries it has fully received, `outState` whether
  the output file is absent, an unfinished archive or finalized. Actions:
  - `ConvertStart`: `open_mla_file` fails, `list_files` panics, or the sorted names become `todo` and the writer
    is set up (`WriterSetup`: the config panics or `File::create` fails before the file exists, the header write
    fails after it exists, or the writer is open).
  - `ConvertEntry(n)`: the next name in sorted order; a lookup error or missing entry is skipped, an `add_file`
    read or write error is returned by `?` before `finalize`.
  - `ConvertFinalize`: `finalize().expect(...)` finalizes or panics.
  - `CreateStart`, `CreateAdd` (one file argument: open/metadata error, write error, read error, or added),
    `CreateFinalize`.
- `Cat.tla` models `cat` (531-596). `dest` is the sequence of (argument index, entry name) pairs whose data has
  been copied to the output; the bytes are abstracted away. `k` is the current argument, `phase` whether a glob
  pattern's scan of the sorted names is in progress, `todo` the names that scan has left. Actions: `CatStart`
  (output, open and `list_files` errors), `CatPatternBegin` (`Pattern::new`: an invalid pattern is skipped with
  a warning), `CatGlobEntry(n)` (one name tested against the pattern), `CatPatternEnd`, `CatExactEntry` (one
  name argument without `--glob`), `CatDone`. `CopyEntry` is the shared `get_file`/`io::copy` match: lookup
  errors and missing entries are skipped, a copy error is returned. clap's `files` argument (825-828) has no
  `multiple(true)`, so it takes exactly one value. `RequestsAssumption` says so, and `MCCat` has one argument.
  The model keeps the loop over the argument list, as the code writes it.
- `MCConvert.tla` and `MCCat.tla` hold their TLC instances; `ConvertProofs.tla` and `CatProofs.tla` their proofs.
- `OrderedOutput.tla` is an abstract specification of a command that streams a set of items to one output:
  `written` only grows, by the least item of `wanted` not yet written (`Write`). The command may `Stop` at any
  point, and it may `Finish` only when nothing is left. `Cat.tla` ends with the refinement mapping:
  - `wanted` is `WantedCopies`, the (argument, readable entry it asks for) pairs;
  - `written` is `dest`;
  - `st` is `StreamState`, where init and loop are "run";
  - `Before` is `CopyBefore`: the argument order, then the byte order of names.

  `CatImplementsStream == Stream!Spec` is checked by TLC in the cat_output run, fairness included. `CatStreamProofs.tla` proves its safety part.
- `ToTar.tla` models `to_tar` (598-631) with `add_file_to_tar` (215-241). `tar` is the sequence of members,
  each the entry whose data it holds and the path given to `append_data`. `tarState` is the output file: not
  created, open, finished (the end blocks written), or unfinished. Actions:
  - `TarStart`: the open or `File::create` fails, `list_files` fails after the file exists, or the loop begins.
  - `TarEntry(n)`: any name still to visit, because `list_files` is a hash-map order. A lookup error or missing
    entry is skipped. Otherwise `AddFileToTar` runs: the name gets the `./` prefix (`TarPath`) when it is
    absolute. tar refuses a path with `..` (`TarAccepts`), which panics. A read or write error while copying also
    panics, with a part of the member written.
  - `TarDone`: `Ok(())`.

  The `Builder` is never finished explicitly. Its `Drop` calls `finish` and discards the result
  (`DropBuilder`): the end blocks may or may not be written, both on a return and on an unwinding panic.
- `List.tla` models `list` (418-442). `printed` is the names printed. `ListStart` covers the open and
  `list_files` errors, and the sort. `ListEntry(n)` prints the next name in sorted order. With `-v`
  (`verbose > 0`), `get_file(fname)?` returns a lookup error from the command, and `.expect` panics on a missing
  entry. With `-vv`, `get_hash(&filename)?` and its `.expect` (434) end the command when the hash cannot be read.
  The data state `hashErr` is an entry that `get_file` finds and `get_hash` does not. `LookedUp(n)` says that every
  lookup made for `n` succeeds. `ListDone` ends the loop. The size and hash formatting is left out.
- `Repair.tla` models `repair` (633-650). `RepairStart` is `open_failsafe_mla_file` (201-213) followed by
  `writer_from_matches` (159-170). Their outcomes:
  - the key loading panics, or `File::open` or the header read fails;
  - the config panics or `File::create` fails;
  - the header write of the new archive fails;
  - the writer is ready.

  `File::create` runs after the input is open. When the output argument names the input file (`same`), it
  truncates the source (`CreateOutput`): the reader can then decode only what it had buffered, from all of the
  whole entries down to none. `convert_to_archive` belongs to the `mla` library and is modelled from the spec.
  `RecoverEntry` writes the next whole entry or fails, and `RecoverEnd` finalizes and returns a clean status
  (`NoError` or `EndOfOriginalArchiveData`) exactly when the whole source was read, or fails. `RepairReport`
  prints the status and returns `Ok(())`. A source is its entries in physical order and the number of them that
  are whole before the first corruption.
- `MCToTar.tla`, `MCList.tla` and `MCRepair.tla` hold their TLC instances. `ToTarProofs.tla` and `ListProofs.tla`
  hold the proofs of `TarOutputOnSuccess` and `ListOutputOnSuccess`. `MCRepair` serves only the repair_same_file
  run. When the output is another file, what repair leaves is `convert_to_archive`'s contract restated, so no
  passing run checks it.

## Runs

| Run | cfg | Expect | Checks |
|---|---|---|---|
| extract_safety | MCExtract.cfg | pass | TypeOK, NoFileOutsideRoot, WrittenOnlyAtSelectedDest, ExtractComplete, ExtractImplementsPromise |
| extract_link_to_file | MCExtractLinkFile.cfg | violation | NoFileOutsideRoot, with a link to a file at a destination |
| extract_mkdir_through_link | MCExtractLinkDirMkdir.cfg | violation | NoDirOutsideRoot |
| extract_entry_error_aborts | MCExtractAbort.cfg | violation | NoAbortOnEntryError (spec section 7) |
| extract_name_collision | MCExtractCollide.cfg | violation | OneEntryPerFile |
| convert_create_output | MCConvert.cfg | pass | ArchiveWrittenOnSuccess |
| convert_entry_error_aborts | MCConvertEntry.cfg | violation | ConvertNoAbortOnEntryError (spec section 4.5) |
| cat_output | MCCat.cfg | pass | CatOutputOnSuccess, CatImplementsStream (cat refines OrderedOutput) |
| totar_output | MCToTar.cfg | pass | TarOutputOnSuccess |
| totar_unfinished_on_success | MCToTarFinish.cfg | violation | TarFinishedOnSuccess (spec section 7) |
| list_output | MCList.cfg | pass | ListOutputOnSuccess |
| repair_same_file | MCRepairSame.cfg | violation | RepairKeepsRecovered, output naming the input |

The properties of the passing run:

- **NoFileOutsideRoot.** No file below a linked directory, and no linked file, is ever created or written. It holds when the starting tree has no link to a file.
- **WrittenOnlyAtSelectedDest.** Every touched file is the destination of a selected entry, and holds only data of selected entries with that destination.
- **ExtractComplete.** After a successful run, every entry that must be delivered is in its file, unless a later entry in sort order has the same destination.
- **ExtractImplementsPromise.** Extract refines `ExtractPromise`. This is the only property of the run that also
  constrains files nobody records as touched, and the only one that says what a failed run may leave behind.
  Its mutant, `PrepareExportAll`, gives a `FileWriter` also to a name that `create_file` skipped because its
  directory is a link. `linear_extract` then writes through the link. `NoFileOutsideRoot` and
  `WrittenOnlyAtSelectedDest` look only at `touched`, and both still hold; the refinement is violated.
  It also catches a `FileWriter` opened without `append(true)`. Of two entries with the same destination, only
  the one written last in physical order survives. When that entry is not the last in sort order, `Complete`
  fails at `Finish`.

Bounds. The passing run covers:

- nine names, among them `a`, `./a`, `/a`, `a/a`, `../a`, `l/a`, `l/a/a`, `a/a/a` and `/`;
- every archive of up to 3 such names whose data is ok, and every archive of up to 2 names with any data state;
- five starting trees: empty, `l` a link to a directory, `l/a` a link to a directory, `a` a file, `a` a directory;
- six matchers: anything, an invalid glob, exact names, and glob patterns.

These bounds reach each case that matters:

- collisions between `a`, `./a` and `/a`;
- a file/directory conflict between `a` and `a/a`;
- directories made through a link;
- every outcome of `create_file`;
- both extraction paths.

The run has 108,868 distinct states, and between them every action and disjunct fires. Deadlock
checking is off because the command really does stop once `pc` is done or failed.

Convert and cat:

- **ArchiveWrittenOnSuccess.** A `convert` or `create` that reaches `Ok(())` leaves a finalized archive. For
  convert it holds every readable entry of the source, each once, in strictly increasing byte order of names;
  for create, the file arguments in argument order. A dropped `finalize`, a wrong skip or a loop that revisits a
  name violates it.
- **CatOutputOnSuccess.** A `cat` that succeeds has copied exactly the pairs (argument, readable entry the
  argument asks for), ordered by argument and, within a pattern, by name. Like the model, the property is stated
  for a list of arguments; clap gives it one. Its mutant breaks out of the scan of sorted names at a failed
  lookup, where the code continues (552-562).
- **ConvertNoAbortOnEntryError** (a violation run). Spec 4.5: a read failure of one entry in convert is reported
  and the entry skipped.

Bounds for these: convert over every archive of 1 to 3 names among `a`, `l`, `./a`, `/l`, `a/a` with any data
state, create over every list of up to 2 distinct names with any file state (820,160 states); cat over every
archive of 1 or 2 names with any state and every request of one argument: one of five patterns
(`*`, `a`, `a*`, `?`, and the invalid `[`) or one of three exact names (7,055 states). Two names render to strings
where one is a prefix of the other (`a`, `a/a`), so the order of the sorted loops is exercised.

The newer commands:

- **CatImplementsStream.** cat is a refinement of `OrderedOutput`. Whatever it has written when it stops is a
  prefix of the full output, each copy is the least wanted copy not yet written, and cat ends (the abstract
  `WF`). Reversing the sorted loop's order breaks it.
- **TarOutputOnSuccess.** A to-tar that returns `Ok(())` has appended every readable entry exactly once, under
  the path `add_file_to_tar` computes. The only entries skipped are those whose lookup failed or that are missing.
- **ListOutputOnSuccess.** A list that succeeds has printed every indexed name once, in strictly increasing byte
  order. With `-v` it succeeds only when every entry could be looked up, and with `-vv` only when every hash
  could be read too. Its mutant skips a failed lookup instead of ending the command.

The instances behind these runs:

| Run | Instance | Distinct states |
|---|---|---|
| to-tar | every archive of 1 to 3 names among `a`, `/a`, `a/a`, `../a`, with any data state | 5,341 |
| list | every archive of 1 to 3 names among `a`, `l`, `./a`, `/a`, `a/a`, with any data state, with 0, 1 or 2 `-v` flags | 29,805 |
| repair_same_file | every source of up to three entries (including two orders of the same entries), cut after every entry, with the output naming the input | violation |
| cat refinement | the cat instance | 7,055 |

These cover:

- an absolute name, which gets the `./` prefix;
- a `..` name, which tar refuses;
- every lookup outcome;
- an empty archive and an empty recovery;
- a truncation at every point.

Fairness. `WF_vars(Next)` is the only fairness assumed. The program is one sequential thread whose loops make
progress on every iteration, so a step that stays enabled is eventually taken.

## Findings

- **extract_link_to_file.** `File::create` (line 368) follows a link that sits at the destination itself. The starts_with check only looks at the containing directory. So an entry named `a` truncates and overwrites the file outside the output directory that `a` links to.
- **extract_mkdir_through_link.** `create_dir_all` (line 341) runs before the starts_with check. So directories are created inside a linked outside directory before the entry is skipped.
- **extract_entry_error_aborts.** The entry `a` followed by the entry `a/a` makes `File::create` fail with ENOTDIR. The `?` at line 515 then ends the whole extraction. `io::copy` at line 523 does the same on a read error. Spec section 7 says per-entry failures are skipped.
- **extract_name_collision.** Names that differ only in `.` or root components (`a`, `./a`, `/a`) have one
  destination. On the linear path each of them gets a writer for that file, and `linear_extract` appends every
  such entry's data to it. The filtered path keeps only the last one in sort order. Which two names the trace
  shows depends on TLC's search order.
- **convert_entry_error_aborts.** An entry whose data cannot be read makes `add_file` fail. The `?` at line 677
  ends convert with no finalized output, where spec 4.5 says such an entry is reported and skipped.

- **totar_unfinished_on_success.** `to_tar` never calls `Builder::finish`: it returns `Ok(())` at line 630. Only the `Drop` of the
  `Builder` writes the end-of-archive blocks, and it ignores a failure. So a full disk at that point gives a
  truncated TAR and exit code 0. Spec section 7 makes a failed finalization of an output container fatal.
- **repair_same_file.** `RepairKeepsRecovered` is spec section 8's repair scenario: a repair that succeeds leaves a
  finalized archive holding exactly the whole entries of the source, in order, with a clean status exactly when
  every entry was whole. `repair -i a.mla -o a.mla` breaks it: the input is opened, then `File::create` (line 635, through
  `writer_from_matches`) truncates it. repair still returns `Ok(())`, and the output holds fewer entries than the
  source held whole. The source is gone. Nothing checks that the input and the output differ. `convert` has the
  same order of calls (line 661).

Other divergences from spec section 7 (and 4.5) that the models reach. They have no run of their own; each is
one outcome of an action, and is the same "one entry's failure ends the command" shape that
extract_entry_error_aborts shows:

- `CatPatternBegin`: with `--glob [`, `Pattern::new("[")` fails (line 541) after the archive was opened and its
  names listed. The pattern is skipped with a warning and cat returns `Ok(())` having written nothing, where
  spec 7 calls invalid glob syntax a fatal configuration error.
- `AddFileToTar`: an entry named `../a` makes `append_data` fail, and `add_file_to_tar` panics (line 234) instead
  of returning the error. to-tar stops half way, and the `Unable to add subfile` branch (626-628) is dead code.
- `ListEntry`: `list -v` ends at the first entry whose lookup fails (`?`) or that is missing (`expect` panics,
  line 425). `list -vv` also ends at the first entry whose hash cannot be read (line 434).

## Proofs (TLAPS)

`ExtractProofs.tla` proves four theorems for every value of the constants:

- `TypeCorrect`: `Spec => []TypeOK`. It goes through the step lemma `TypeOKStep`, with one case per action and one per
  `create_file` outcome. It rests on the lemmas `PreInPaths` (prefixes of a path are paths) and `NewDirsInPaths`.
- `NoFileOutsideRootThm`: `Spec => []NoFileOutsideRoot`, under the assumption `NoLinkFileTrees` (no starting tree
  holds a link to a file). That assumption is exactly the case the link_to_file finding shows to be necessary.

  `NoFileOutsideRoot` is not inductive on its own. A step could touch a path whose prefix later became a link. The proof therefore uses the inductive invariant `IInv == TypeOK /\ LinkFree /\ TouchedInside`, which was checked with TLC first. Two lemmas carry the argument:
  - `StepGrows`: a step only turns none into dir or file, so links are never created, and a path that is not under a linked directory stays that way (`NotUnderLinkDirStable`).
  - `create_file`'s starts_with check: every newly touched path has no linked directory among its prefixes.
- `WrittenOnlyAtSelectedDestThm`: `Spec => []WrittenOnlyAtSelectedDest`, with no assumption. The property is not
  inductive: a `LinearWrite` appends to the path of an export pair, and nothing in the property says that this
  path is the entry's destination. The inductive invariant `SelInv` (checked with TLC first) adds:
  - the prepare and linear states are reached only with the matcher `Anything` (`LinearOnlyAnything`);
  - every export pair is a name and its `Dest` (`ExportSelected`);
  - every touched path is the `Dest` of a selected name (`TouchedSelected`);
  - every element of every file is a selected name with that `Dest` (`ContentSelected`).

  The lemmas are:
  - `DestIsSpecDest`: get_extracted_path's `Dest` equals the spec's `SpecDest`;
  - `CreateFileShape`: create_file touches at most its path, and changes the content only through the caller's
    continuation;
  - `ContentUpdate`: replacing one file by selected names with that destination keeps `ContentSelected`.
- `ExtractCompleteThm`: `Spec => []ExtractComplete`, under the hypothesis `RenderTyped`. An entry is good
  (`Good`) when it is selected, readable, and its destination's directories are not links. Links never appear or
  disappear (`GoodStable`), so an entry is good for the whole run. The inductive invariant `CompInv` (checked
  with TLC first, 108,604 states) adds to `SelInv`:
  - the filtered loop runs only without the matcher `Anything`;
  - in the filtered loop, every handled name sorts before every name still to visit (`FilteredOrderInv`);
  - a good handled name that sorts after every other good handled name with its destination is alone in its
    file (`FilteredLastInv`);
  - the prepare loop has given every good handled name its `FileWriter` (`PrepareInv`);
  - in `linear_extract`, every good name has its writer, and is still to write or is in its file (`LinearInv`).

  `FilteredLastInv` is the hard part. When the loop truncates a file for a later name `n`, an earlier good name
  `m` with the same destination loses its place, and `m` must not still count as the last one. This needs
  `NameLt` to be asymmetric (`NameLtAsymmetric`). It follows from `StrLtAsymmetric`, the asymmetry of the byte
  order over strings of rendered characters, whose bytes are integers (`ByteIsInt`). `CompDelivered` draws the
  conclusion once either loop has visited every name.

  Why `RenderTyped` is a hypothesis. It says the names of every archive render to strings of normal components,
  `.` and `/`. It holds for every archive of names over the components, but `Render` is a recursive function, and
  what it computes for every input needs induction over data, which the installed provers cannot instantiate.
  So the theorem takes it as a hypothesis. TLC checks it on the instances as `RenderTypedAssumption` in
  `MCExtract`. It is a statement about the constant `Archives`, and every real name satisfies it.

`ExtractPromiseProofs.tla` proves `ExtractRefinesPromise`, under `RenderTyped`:
`Spec => Promise!Init /\ [][Promise!Next]_Promise!vars`. This is the safety part of `ExtractImplementsPromise`.
The inductive invariant is `RefInv == CompInv /\ ExportInside`, where `ExportInside` says every `FileWriter` of
the export map passed the starts_with check. Its step lemma `ExportInsideStep` uses `DirInsideStable`: a checked
directory stays inside. There is one step lemma per action:
- `PromiseStart` and `PromiseEnds` (the end of either loop is `Finish`, by `CompDelivered` and `PromiseComplete`);
- `PromisePrepare`: create_file's truncation is `Truncate`;
- `PromiseLinearWrite`: a `FileWriter` write is `Add`;
- `PromiseFiltered`: `File::create` with `io::copy` is `Copy`, or a `Stop` that leaves the file truncated.

Two generic lemmas, `PromiseStutter` and `PromiseStop`, cover the steps that change no file or end the command.
Lemmas such as `PromiseMatches`, `PromiseNameLt` and `PromiseDest` identify the operators the instance brings in
(`Promise!Matches`, ...) with the model's own; the provers treat them as different symbols until they are
expanded.

`ConvertProofs.tla` proves `ConvertTypeCorrect` and `ArchiveWrittenOnSuccessThm`
(`Spec => []ArchiveWrittenOnSuccess`) for every archive and argument list. The property speaks only of the final
state, so the proof uses the loop invariant `ConvInv`: the entries added are readable and strictly sorted, each
sorts before every name still to visit, every readable entry is added or still to visit (convert), and `out` is
the names of the arguments visited so far (create). Appending the least remaining name keeps the order without
any appeal to transitivity of the byte order.

`CatProofs.tla` proves `CatTypeCorrect` and `CatOutputOnSuccessThm` (`Spec => []CatOutputOnSuccess`). Its
inductive invariant `CatInv` adds: every copy is of a readable entry its argument asks for (`SoundInv`); every
such pair for an argument before `k`, or for `k` with its name already scanned, has been copied
(`CompleteInv`); copies are ordered (`OrderInv`); every copy is for an earlier argument or for the current
pattern and a name before every one still to scan (`CursorInv`); a scan is only in progress for a valid glob
pattern (`PhaseInv`). There is one lemma per action, and per `CopyEntry` outcome inside it.

`CatStreamProofs.tla` proves `CatRefinesStream`: `Spec => Stream!Init /\ [][Stream!Next]_Stream!vars`. This is
the safety part of `CatImplementsStream`, for every archive and request. The step lemma `StreamStep` maps each cat
action:
- a copy is a `Write` of the least remaining wanted copy;
- a failure is a `Stop`;
- `CatDone` is a `Finish`;
- every other step is a stutter, because `WantedCopies` does not change and `dest` only grows by a copy.

Its inductive invariant is `CatInv` plus `FreshInv`: while a pattern is being scanned, no copy already written for
the current argument names an entry still to scan. With `FreshInv`, a written copy is never written again, without
proving that the byte order is irreflexive (which would need induction over `Render`).

`ToTarProofs.tla` proves `TarOutputOnSuccessThm` (`Spec => []TarOutputOnSuccess`) for every archive. The loop
visits names in hash-map order, so the invariant `TarInv` says nothing of order. It says:
- every member is a readable entry already visited, under the path `TarPath` gives it;
- no entry is a member twice;
- every readable entry already visited is a member.

Distinctness is kept because an appended entry is still to visit and no member is. The member type is stated over
`Members` (records of an entry and one of the archive's `TarPath`s), so `TarPath` needs no lemma.

`ListProofs.tla` proves `ListOutputOnSuccessThm` (`Spec => []ListOutputOnSuccess`) for every archive and number
of `-v` flags. The loop invariant `ListInv` says:
- the printed names are strictly increasing;
- each printed name sorts before every name still to print;
- every name is printed or still to print;
- with `-v`, every name already handled was found (`LookedUp`: with `-vv`, its hash too).

As in convert, no transitivity of the byte order is needed.

The following remain TLC-only:

- Everything that depends on `Render`/`GlobMatch` computing the right value: induction over data cannot be instantiated by the installed provers.
- `RenderTyped`, the hypothesis of `ExtractCompleteThm` and `ExtractRefinesPromise` (see above). It is checked by
  TLC as an assumption of `MCExtract`.
- The liveness halves of `CatImplementsStream` and `ExtractImplementsPromise` (the abstract `WF`).

## Not modelled

- Character classes in glob patterns.
- Other processes changing the output tree during extraction. The spec excludes this, but it is a real time-of-check to time-of-use window between lines 360 and 368.
- The content bytes, the archive format, and encryption and compression. Those belong to the `mla` library.
- Key and argument parsing (`config_from_matches`, `open_ecc_*_keys`) and `keygen` are not modelled: they are
  parsing and I/O with no state beyond the result. The models take their failures (a panic or an error) as one
  outcome of the command's first step.
- The internals of `convert_to_archive` and `linear_extract` (`mla` library): only their contracts are modelled,
  in `Repair` and `Extract`. An entry's data reaches its `FileWriter` in one write.
- The same-file truncation in `convert`: its model keeps the source fixed.

## Plan

Done:
- models of EntryNames, Matcher, Extract, Convert, Cat, ToTar, List and Repair;
- the OrderedOutput refinement of cat, and the ExtractPromise refinement of extract;
- proofs for Extract: type, containment, selection, completeness, and the safety part of the refinement;
- proofs for Convert, Cat, the cat refinement, ToTar and List.

Every invariant and action property of the passing runs is stated by a theorem. Next:

1. The same-file truncation in `Convert`, as in `Repair`.
2. A check of `GlobMatch` against a reference definition over bounded patterns.
3. A version of `ExtractPromise` without name collisions, where each deliverable entry is alone in its file,
   with an instance whose names do not collide.
