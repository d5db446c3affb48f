------------------------------- MODULE Extract -------------------------------
(***************************************************************************)
(* The 'extract' command of mlar (main.rs 444-529) with create_file        *)
(* (319-374) and the deferred FileWriter (382-398).                        *)
(*                                                                         *)
(* The output directory is the root <<>>; fs gives the kind of every path  *)
(* below it.  It may already hold files, directories and symbolic links    *)
(* before the run (the directory may pre-exist, "." is the default).  A    *)
(* "linkdir" is a link to a directory outside the root, a "linkfile" a     *)
(* link to a file outside it; the paths below a linkdir stand for the      *)
(* content of its target.  The program never creates a link.               *)
(*                                                                         *)
(* The data of an entry is its name: content[p] is the sequence of entries *)
(* whose whole data was written to p, in order.  An entry's data is "ok",  *)
(* "missing" (get_file gives Ok(None)), "lookupErr" (get_file gives Err)   *)
(* or "corrupt" (the read fails while it is copied).                       *)
(***************************************************************************)
EXTENDS Matcher

CONSTANTS
  Archives,  \* candidate archives: functions from entry names to data states
  Trees,     \* candidate contents of the output directory before the run
  Filters    \* candidate matchers built from the command line

DataStates == {"ok", "missing", "lookupErr", "corrupt"}
Kinds == {"none", "dir", "file", "linkdir", "linkfile"}

(* A tree gives every path a kind.                                         *)
ASSUME TreesAssumption == Trees \subseteq [Paths -> Kinds]
Links == {"linkdir", "linkfile"}
PCs == {"init", "prepare", "linear", "filtered", "done", "failed"}
Errors == {"none", "config", "setup", "entry", "linear"}

VARIABLES
  archive,   \* the opened archive
  filter,    \* the ExtractFileNameMatcher
  pc,        \* where the command is
  todo,      \* the names the current loop has still to visit
  fs,        \* the kind of every path below the output directory
  content,   \* the entries written to every file
  export,    \* the name -> FileWriter map given to linear_extract
  touched,   \* history: files created, truncated or appended to
  madeDirs,  \* history: directories created by create_dir_all
  err        \* the error the command ended with

vars == <<archive, filter, pc, todo, fs, content, export, touched, madeDirs, err>>

(***************************************************************************)
(* The file system, as Path::exists, fs::create_dir_all, fs::canonicalize  *)
(* and File::create see it.  A link's target is taken to exist.            *)
(***************************************************************************)
Exists(q) ==
  /\ \A k \in 1..Len(q) - 1 : fs[Pre(q, k)] \in {"dir", "linkdir"}
  /\ q = <<>> \/ fs[q] # "none"

(* The containing directory of p is absent: create_dir_all is called.      *)
MkdirNeeded(p) == ~Exists(Dir(p))

(* create_dir_all fails on a prefix that is a file (ENOTDIR).              *)
MkdirFails(p) ==
  MkdirNeeded(p) /\ \E k \in 1..Len(p) - 1 : fs[Pre(p, k)] \in {"file", "linkfile"}

(* The directories create_dir_all creates; below a linkdir they are made   *)
(* in the link's target.                                                   *)
NewDirs(p) ==
  IF MkdirNeeded(p)
  THEN {q \in Paths : Len(q) < Len(p) /\ q = Pre(p, Len(q)) /\ fs[q] = "none"}
  ELSE {}

(* fs::canonicalize(containing_directory).starts_with(output_dir): no      *)
(* component of the containing directory is a link.  The directory exists *)
(* by now and all its proper prefixes are directories, so canonicalize     *)
(* cannot fail.                                                            *)
(* Mutant of DirInside: the starts_with check dropped.                     *)
DirInsideUnchecked(p) == TRUE

DirInside(p) == \A k \in 1..Len(p) - 1 : fs[Pre(p, k)] \notin Links

(* File::create fails: the containing directory is a file (ENOTDIR) or p   *)
(* is a directory (EISDIR).  It follows a link at p.                       *)
CreateFails(p) ==
  \/ Len(p) > 1 /\ fs[Dir(p)] = "file"
  \/ fs[p] \in {"dir", "linkdir"}

Fail(e) == pc' = "failed" /\ err' = e

MkdirEffect(p) ==
  /\ fs' = [q \in Paths |-> IF q \in NewDirs(p) THEN "dir" ELSE fs[q]]
  /\ madeDirs' = madeDirs \cup NewDirs(p)

(***************************************************************************)
(* create_file(output_dir, fname) for an entry whose extracted path is p   *)
(* (main.rs 328-373).  Skip and Create are what the caller does when it    *)
(* returns Ok(None) and Ok(Some(file)); an Err ends the command (the       *)
(* callers use ?) and leaves the caller's own variables, own, unchanged.   *)
(* Create sets content'; File::create truncated p.                         *)
(***************************************************************************)
CreateFile(p, Skip, Create, own) ==
  \/ /\ MkdirFails(p)
     /\ Fail("entry")
     /\ UNCHANGED <<fs, content, touched, madeDirs, own>>
  \/ /\ ~MkdirFails(p) /\ ~DirInside(p)
     /\ MkdirEffect(p)
     /\ UNCHANGED <<content, touched>>
     /\ Skip
  \/ /\ ~MkdirFails(p) /\ DirInside(p) /\ CreateFails(p)
     /\ MkdirEffect(p)
     /\ Fail("entry")
     /\ UNCHANGED <<content, touched, own>>
  \/ /\ ~MkdirFails(p) /\ DirInside(p) /\ ~CreateFails(p)
     /\ fs' = [q \in Paths |-> IF q \in NewDirs(p) THEN "dir"
                                ELSE IF q = p /\ fs[p] = "none" THEN "file"
                                ELSE fs[q]]
     /\ madeDirs' = madeDirs \cup NewDirs(p)
     /\ touched' = touched \cup {p}
     /\ Create

-----------------------------------------------------------------------------

Init ==
  /\ archive \in Archives
  /\ filter \in Filters
  /\ fs \in Trees
  /\ pc = "init"
  /\ todo = {}
  /\ content = [p \in Paths |-> <<>>]
  /\ export = {}
  /\ touched = {}
  /\ madeDirs = {}
  /\ err = "none"

(***************************************************************************)
(* Start (main.rs 445-474): the matcher is built first and panics on an    *)
(* invalid glob; then opening the archive, creating and canonicalizing the *)
(* output directory or listing the names may fail; then the sorted names   *)
(* go to the linear path (matcher Anything) or to the filtered loop.       *)
(***************************************************************************)
Start ==
  /\ pc = "init"
  /\ \/ filter.kind = "badglob" /\ Fail("config") /\ UNCHANGED todo
     \/ filter.kind # "badglob" /\ Fail("setup") /\ UNCHANGED todo
     \/ /\ filter.kind # "badglob"
        /\ pc' = IF filter.kind = "anything" THEN "prepare" ELSE "filtered"
        /\ todo' = DOMAIN archive
        /\ UNCHANGED err
  /\ UNCHANGED <<archive, filter, fs, content, export, touched, madeDirs>>

(***************************************************************************)
(* Prepare(n): one turn of the loop building the export map (479-487): a   *)
(* skipped name is left out, a created (truncated) file gets a FileWriter. *)
(***************************************************************************)
(* Mutant of Prepare: the FileWriter goes into the map also for a name     *)
(* create_file skipped.                                                    *)
PrepareExportAll(n) ==
  /\ pc = "prepare"
  /\ IsFirst(n, todo)
  /\ todo' = todo \ {n}
  /\ UNCHANGED <<archive, filter>>
  /\ \/ /\ Dest(n) \notin Paths
        /\ UNCHANGED <<pc, fs, content, export, touched, madeDirs, err>>
     \/ \E p \in Paths :
          /\ p = Dest(n)
          /\ CreateFile(p,
                export' = export \cup {<<n, p>>} /\ UNCHANGED <<pc, err>>,
                /\ content' = [content EXCEPT ![p] = <<>>]
                /\ export' = export \cup {<<n, p>>}
                /\ UNCHANGED <<pc, err>>,
                export)

Prepare(n) ==
  /\ pc = "prepare"
  /\ IsFirst(n, todo)
  /\ todo' = todo \ {n}
  /\ UNCHANGED <<archive, filter>>
  /\ \/ /\ Dest(n) \notin Paths
        /\ UNCHANGED <<pc, fs, content, export, touched, madeDirs, err>>
     \/ \E p \in Paths :
          /\ p = Dest(n)
          /\ CreateFile(p,
                UNCHANGED <<pc, err, export>>,
                /\ content' = [content EXCEPT ![p] = <<>>]
                /\ export' = export \cup {<<n, p>>}
                /\ UNCHANGED <<pc, err>>,
                export)

(* Mutant of PrepareDone: linear_extract iterates the map's pairs.         *)
PrepareDoneOverPairs ==
  /\ pc = "prepare"
  /\ todo = {}
  /\ pc' = "linear"
  /\ todo' = export
  /\ UNCHANGED <<archive, filter, fs, content, export, touched, madeDirs, err>>

(* The loop is over: linear_extract(&mut mla, &mut export) (488).          *)
PrepareDone ==
  /\ pc = "prepare"
  /\ todo = {}
  /\ pc' = "linear"
  /\ todo' = {e[1] : e \in export}
  /\ UNCHANGED <<archive, filter, fs, content, export, touched, madeDirs, err>>

(***************************************************************************)
(* LinearWrite(n): linear_extract (mla::helpers, not in this repository)   *)
(* reaches the data of n in the archive's physical order, which is not the *)
(* sorted order, and writes it through n's FileWriter: FileWriter::write   *)
(* opens the path in append mode, following a link, and closes it.  A      *)
(* read error ends linear_extract with an error; an entry without data is  *)
(* never reached.                                                          *)
(***************************************************************************)
LinearWriteTo(n, p) ==
  \/ /\ archive[n] = "ok"
     /\ content' = [content EXCEPT ![p] = Append(@, n)]
     /\ UNCHANGED <<pc, err>>
  \/ /\ archive[n] = "missing"
     /\ UNCHANGED <<pc, err, content>>
  \/ /\ archive[n] \in {"lookupErr", "corrupt"}
     /\ Fail("linear")
     /\ UNCHANGED content

LinearWrite(n) ==
  /\ pc = "linear"
  /\ n \in todo
  /\ todo' = todo \ {n}
  /\ \E e \in export : e[1] = n /\ LinearWriteTo(n, e[2])
  /\ UNCHANGED <<archive, filter, fs, export, touched, madeDirs>>

(***************************************************************************)
(* LinearSkipped(n): linear_extract decodes the data of every entry of the *)
(* archive, also of one create_file skipped, which has no FileWriter and   *)
(* whose data is discarded; a read error there ends it as well.            *)
(***************************************************************************)
Unexported == {n \in DOMAIN archive : \A e \in export : e[1] # n}

LinearSkipped(n) ==
  /\ pc = "linear"
  /\ n \in Unexported
  /\ archive[n] = "corrupt"
  /\ Fail("linear")
  /\ UNCHANGED <<archive, filter, todo, fs, content, export, touched, madeDirs>>

LinearDone ==
  /\ pc = "linear"
  /\ todo = {}
  /\ \A n \in Unexported : archive[n] # "corrupt"
  /\ pc' = "done"
  /\ UNCHANGED <<archive, filter, todo, fs, content, export, touched, madeDirs, err>>

(***************************************************************************)
(* Filtered(n): one turn of the filtered loop (491-527): skip a name the   *)
(* matcher rejects, look it up (skip on Err or Ok(None)), create_file,     *)
(* then io::copy the data into the new file; a copy error ends the         *)
(* command with the file truncated.                                        *)
(***************************************************************************)
Filtered(n) ==
  /\ pc = "filtered"
  /\ IsFirst(n, todo)
  /\ todo' = todo \ {n}
  /\ UNCHANGED <<archive, filter, export>>
  /\ \/ /\ ~Matches(filter, n) \/ archive[n] \in {"lookupErr", "missing"}
           \/ Dest(n) \notin Paths
        /\ UNCHANGED <<pc, fs, content, touched, madeDirs, err>>
     \/ \E p \in Paths :
          /\ Matches(filter, n)
          /\ archive[n] \in {"ok", "corrupt"}
          /\ p = Dest(n)
          /\ CreateFile(p,
                UNCHANGED <<pc, err>>,
                IF archive[n] = "ok"
                THEN content' = [content EXCEPT ![p] = <<n>>] /\ UNCHANGED <<pc, err>>
                ELSE content' = [content EXCEPT ![p] = <<>>] /\ Fail("entry"),
                <<>>)

FilteredDone ==
  /\ pc = "filtered"
  /\ todo = {}
  /\ pc' = "done"
  /\ UNCHANGED <<archive, filter, todo, fs, content, export, touched, madeDirs, err>>

Next ==
  \/ Start
  \/ \E n \in todo : Prepare(n) \/ LinearWrite(n) \/ Filtered(n)
  \/ PrepareDone
  \/ \E n \in DOMAIN archive : LinearSkipped(n)
  \/ LinearDone
  \/ FilteredDone

(* One command runs to its end: weak fairness of the whole program.        *)
Spec == Init /\ [][Next]_vars /\ WF_vars(Next)

-----------------------------------------------------------------------------
(***************************************************************************)
(* Properties.  They name their own reference definitions, so that a       *)
(* change to a definition of the code above is seen by them.               *)
(***************************************************************************)

TypeOK ==
  /\ archive \in Archives
  /\ filter \in Filters
  /\ pc \in PCs
  /\ todo \subseteq DOMAIN archive
  /\ fs \in [Paths -> Kinds]
  /\ content \in [Paths -> Seq(DOMAIN archive)]
  /\ export \subseteq (DOMAIN archive) \X Paths
  /\ touched \subseteq Paths
  /\ madeDirs \subseteq Paths
  /\ err \in Errors

(* The output path the spec gives a name: its normal components in order,  *)
(* or none when it has a ".." component.                                   *)
SpecDest(n) ==
  IF \E i \in 1..Len(n) : n[i] = ParentDir
  THEN <<>>
  ELSE SelectSeq(n, LAMBDA c : c \in NormalNames)

(* p lies below a link to a directory outside the output directory.        *)
UnderLinkDir(p) == \E k \in 1..Len(p) - 1 : fs[Pre(p, k)] = "linkdir"

(***************************************************************************)
(* No file outside the output directory is ever created, truncated or      *)
(* written by the extraction (spec 3, 8): the canonicalize/starts_with     *)
(* check of create_file must stop every path through a link, for files     *)
(* created by the filtered loop and for the FileWriters of linear_extract. *)
(***************************************************************************)
NoFileOutsideRoot ==
  \A p \in touched : ~UnderLinkDir(p) /\ fs[p] # "linkfile"

(* No directory outside the output directory is created by create_dir_all. *)
NoDirOutsideRoot == \A q \in madeDirs : ~UnderLinkDir(q)

(***************************************************************************)
(* Every file the extraction touches is the destination of an entry the    *)
(* matcher selects, and holds only data of selected entries with that      *)
(* destination: no ".." escape, no unselected entry, no data of one entry  *)
(* in another's file (match_file_name, get_extracted_path, the export map).*)
(***************************************************************************)
WrittenOnlyAtSelectedDest ==
  \A p \in touched :
    /\ \E n \in DOMAIN archive : Matches(filter, n) /\ SpecDest(n) = p
    /\ \A i \in 1..Len(content[p]) :
         Matches(filter, content[p][i]) /\ SpecDest(content[p][i]) = p

(* An entry the extraction must deliver: selected, readable, with a        *)
(* destination whose directories are not links.                           *)
Deliverable(n) ==
  /\ Matches(filter, n)
  /\ archive[n] = "ok"
  /\ SpecDest(n) \in Paths
  /\ \A k \in 1..Len(SpecDest(n)) - 1 : fs[Pre(SpecDest(n), k)] \notin Links

(***************************************************************************)
(* When the extraction succeeds, the data of every deliverable entry is in *)
(* its destination file, unless a deliverable entry sorted after it has    *)
(* the same destination: both the linear path (create all, then append in *)
(* physical order) and the filtered loop (sorted, truncate and copy) must  *)
(* get this right.                                                         *)
(***************************************************************************)
ExtractComplete ==
  pc = "done" =>
    \A n \in DOMAIN archive :
      (/\ Deliverable(n)
       /\ \A m \in DOMAIN archive \ {n} :
            Deliverable(m) /\ SpecDest(m) = SpecDest(n) => NameLt(m, n))
      => \E i \in 1..Len(content[SpecDest(n)]) : content[SpecDest(n)][i] = n

(***************************************************************************)
(* Refinement: extract keeps the promise of ExtractPromise.  The files are *)
(* the content, the links those of the tree (the program never makes or   *)
(* removes one), and the command runs until it is done or failed.  So      *)
(* each step of create_file, the FileWriters and the filtered loop is a    *)
(* truncation, an append or a truncate-and-copy of a selected entry at its *)
(* destination inside the output directory, or an error, or no change to  *)
(* any file; and Ok(()) is returned only when every deliverable entry has  *)
(* been delivered.                                                         *)
(***************************************************************************)
LinkSet == {q \in Paths : fs[q] \in Links}

PromiseStatus == IF pc \in {"done", "failed"} THEN pc ELSE "run"

Promise == INSTANCE ExtractPromise
           WITH links <- LinkSet, files <- content, status <- PromiseStatus

ExtractImplementsPromise == Promise!Spec

(***************************************************************************)
(* The characters of the string of a name (Render): normal components, "." *)
(* and "/".  Every name of every archive renders to such a string; the     *)
(* proof of ExtractComplete takes this as its hypothesis, because what a   *)
(* recursive definition computes is beyond the provers, and TLC checks it  *)
(* on every instance (MCExtract).                                          *)
(***************************************************************************)
RenderedChars == NormalNames \cup {CurDir, RootDir}

RenderTyped == \A a \in Archives : \A n \in DOMAIN a : Render(n) \in Seq(RenderedChars)

(***************************************************************************)
(* Spec 7: a per-entry failure (an unsafe path, a lookup miss, an          *)
(* individual read or write failure) is logged and skipped and does not    *)
(* abort the command.                                                      *)
(***************************************************************************)
NoAbortOnEntryError == err # "entry"

(* After a successful extraction every file holds the data of one entry.   *)
OneEntryPerFile == pc = "done" => \A p \in touched : Len(content[p]) <= 1

=============================================================================
