------------------------------- MODULE Convert -------------------------------
(***************************************************************************)
(* The commands of mlar that write an archive through an MLA               *)
(* ArchiveWriter: 'convert' (main.rs 653-682), which re-encodes the        *)
(* entries of an archive in the sorted order of their names, and 'create'  *)
(* (402-416), which adds the files named on the command line in argument   *)
(* order.  Both open the writer with writer_from_matches (146-170) and end *)
(* with finalize.                                                          *)
(*                                                                         *)
(* The ArchiveWriter is abstract: out is the sequence of entries it has    *)
(* fully received, outState whether the output file is absent ("none"),   *)
(* an unfinished archive ("open") or a finalized one.  Any write of the    *)
(* writer may fail with an I/O error.  An entry's data is as in Extract:   *)
(* "ok", "missing" (get_file gives Ok(None)), "lookupErr" (get_file gives  *)
(* Err) or "corrupt" (reading it fails while add_file copies it).  A file  *)
(* argument of create is "ok", "openErr" (File::open or metadata fails) or *)
(* "readErr" (reading it fails inside add_file).                           *)
(***************************************************************************)
EXTENDS EntryNames

CONSTANTS
  Archives,  \* candidate source archives of convert: names -> data states
  ArgLists   \* candidate 'files' arguments of create: <<name, state>> lists

Names == Seq(Comps)
DataStates == {"ok", "missing", "lookupErr", "corrupt"}
FileStates == {"ok", "openErr", "readErr"}

ASSUME ArchivesAssumption ==
  \A a \in Archives : DOMAIN a \subseteq Names /\ \A n \in DOMAIN a : a[n] \in DataStates

ASSUME ArgListsAssumption == ArgLists \subseteq Seq(Names \X FileStates)

Commands == {"convert", "create"}
PCs == {"init", "loop", "done", "failed"}
Errors == {"none", "open", "panic", "setup", "input", "entry", "write", "finalize"}
OutStates == {"none", "open", "finalized"}

VARIABLES
  cmd,       \* the sub-command
  archive,   \* the source archive of convert
  args,      \* the file arguments of create
  pc,        \* where the command is
  todo,      \* convert: the names the sorted loop has still to visit
  next,      \* create: the index of the next file argument
  out,       \* the entries the ArchiveWriter has fully received
  outState,  \* the output file
  err        \* the error the command ended with

vars == <<cmd, archive, args, pc, todo, next, out, outState, err>>

Fail(e) == pc' = "failed" /\ err' = e

(***************************************************************************)
(* writer_from_matches: config_from_matches may panic on the arguments,    *)
(* File::create may fail, both before the output exists; then              *)
(* ArchiveWriter::from_config writes the header, and its failure leaves a  *)
(* file that is no archive.                                                *)
(***************************************************************************)
WriterSetup ==
  \/ Fail("setup") /\ outState' \in {"none", "open"}
  \/ pc' = "loop" /\ outState' = "open" /\ UNCHANGED err

(***************************************************************************)
(* convert, up to the loop: open_mla_file fails; list_files fails (the     *)
(* code panics: "Files is malformed"); or the names are sorted and the     *)
(* writer is set up.                                                       *)
(***************************************************************************)
ConvertStart ==
  /\ cmd = "convert" /\ pc = "init"
  /\ \/ Fail("open") /\ UNCHANGED <<todo, outState>>
     \/ Fail("panic") /\ UNCHANGED <<todo, outState>>
     \/ WriterSetup /\ todo' = DOMAIN archive
  /\ UNCHANGED <<cmd, archive, args, next, out>>

(***************************************************************************)
(* One iteration of convert's loop, on the next name in sorted order: a    *)
(* lookup error or a missing entry is skipped; otherwise add_file copies   *)
(* the entry, and a read error of the source or a write error of the       *)
(* writer is returned by '?', before finalize.                             *)
(***************************************************************************)
ConvertEntry(n) ==
  /\ cmd = "convert" /\ pc = "loop"
  /\ IsFirst(n, todo)
  /\ todo' = todo \ {n}
  /\ \/ archive[n] \in {"missing", "lookupErr"} /\ UNCHANGED <<pc, out, err>>
     \/ archive[n] = "ok" /\ out' = Append(out, n) /\ UNCHANGED <<pc, err>>
     \/ archive[n] = "ok" /\ Fail("write") /\ UNCHANGED out
     \/ archive[n] = "corrupt" /\ Fail("entry") /\ UNCHANGED out
  /\ UNCHANGED <<cmd, archive, args, next, outState>>

(* Mutant of ConvertFinalize: the finalize call forgotten.                 *)
ConvertFinalizeDropped ==
  /\ cmd = "convert" /\ pc = "loop" /\ todo = {}
  /\ pc' = "done"
  /\ UNCHANGED <<cmd, archive, args, todo, next, out, outState, err>>

(* mla_out.finalize().expect(...): a failure panics.                       *)
ConvertFinalize ==
  /\ cmd = "convert" /\ pc = "loop" /\ todo = {}
  /\ \/ outState' = "finalized" /\ pc' = "done" /\ UNCHANGED err
     \/ Fail("finalize") /\ UNCHANGED outState
  /\ UNCHANGED <<cmd, archive, args, todo, next, out>>

(* create sets up the writer before anything else.                         *)
CreateStart ==
  /\ cmd = "create" /\ pc = "init"
  /\ WriterSetup
  /\ UNCHANGED <<cmd, archive, args, todo, next, out>>

(***************************************************************************)
(* One file argument of create, in argument order: File::open and metadata *)
(* errors and add_file errors are all returned by '?'.                     *)
(***************************************************************************)
CreateAdd ==
  /\ cmd = "create" /\ pc = "loop"
  /\ next <= Len(args)
  /\ next' = next + 1
  /\ \/ args[next][2] = "openErr" /\ Fail("input") /\ UNCHANGED out
     \/ args[next][2] = "ok" /\ out' = Append(out, args[next][1]) /\ UNCHANGED <<pc, err>>
     \/ args[next][2] = "ok" /\ Fail("write") /\ UNCHANGED out
     \/ args[next][2] = "readErr" /\ Fail("entry") /\ UNCHANGED out
  /\ UNCHANGED <<cmd, archive, args, todo, outState>>

(* mla.finalize()?: a failure is returned.                                 *)
CreateFinalize ==
  /\ cmd = "create" /\ pc = "loop" /\ next > Len(args)
  /\ \/ outState' = "finalized" /\ pc' = "done" /\ UNCHANGED err
     \/ Fail("finalize") /\ UNCHANGED outState
  /\ UNCHANGED <<cmd, archive, args, todo, next, out>>

Init ==
  /\ cmd \in Commands
  /\ archive \in Archives
  /\ args \in ArgLists
  /\ pc = "init"
  /\ todo = {}
  /\ next = 1
  /\ out = <<>>
  /\ outState = "none"
  /\ err = "none"

Next ==
  \/ ConvertStart
  \/ \E n \in todo : ConvertEntry(n)
  \/ ConvertFinalize
  \/ CreateStart
  \/ CreateAdd
  \/ CreateFinalize

Spec == Init /\ [][Next]_vars /\ WF_vars(Next)

-----------------------------------------------------------------------------
TypeOK ==
  /\ cmd \in Commands
  /\ archive \in Archives
  /\ args \in ArgLists
  /\ pc \in PCs
  /\ todo \subseteq DOMAIN archive
  /\ next \in 1..Len(args) + 1
  /\ out \in Seq(Names)
  /\ outState \in OutStates
  /\ err \in Errors

(***************************************************************************)
(* A command that succeeds leaves a finalized archive holding exactly the  *)
(* entries it should: for convert every entry of the source that can be    *)
(* read, each once and in sorted name order (the fnames.sort() loop of     *)
(* convert); for create the file arguments in their order.                 *)
(***************************************************************************)
ArchiveWrittenOnSuccess ==
  pc = "done" =>
    /\ outState = "finalized"
    /\ cmd = "convert" =>
         /\ {out[i] : i \in DOMAIN out} = {n \in DOMAIN archive : archive[n] = "ok"}
         /\ \A i, j \in DOMAIN out : i < j => NameLt(out[i], out[j])
    /\ cmd = "create" => out = [i \in DOMAIN args |-> args[i][1]]

(***************************************************************************)
(* Spec 4.5: in convert a per-entry lookup or read failure is reported and *)
(* the entry is skipped; the command does not abort.  A read error of the  *)
(* source while add_file copies an entry must not end the command.         *)
(***************************************************************************)
ConvertNoAbortOnEntryError == cmd = "convert" => err # "entry"

=============================================================================
