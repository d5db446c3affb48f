-------------------------------- MODULE ToTar --------------------------------
(***************************************************************************)
(* The 'to-tar' command of mlar (main.rs 598-631, with add_file_to_tar     *)
(* 215-241): every entry of the archive is appended to a TAR file built    *)
(* by tar::Builder, in the order list_files gives (a hash-map order, not   *)
(* sorted: any order here).                                                *)
(*                                                                         *)
(* tar is the sequence of members written: the entry whose data each holds *)
(* and the path given to append_data.  tarState is the output file: not    *)
(* created, open (members being appended), finished (the end-of-archive    *)
(* blocks written) or unfinished.  The Builder is never finished           *)
(* explicitly: it is dropped when to_tar returns, or when a panic unwinds, *)
(* and its Drop calls finish and discards the result, so both outcomes are *)
(* possible.  A panic may also abort the process without unwinding         *)
(* (panic = "abort" in a build profile): no finish then.                   *)
(***************************************************************************)
EXTENDS EntryNames

CONSTANT Archives  \* candidate archives: names -> data states

Names == Seq(Comps)
DataStates == {"ok", "missing", "lookupErr", "corrupt"}

ASSUME TarArchivesAssumption ==
  \A a \in Archives : DOMAIN a \subseteq Names /\ \A n \in DOMAIN a : a[n] \in DataStates

PCs == {"init", "loop", "done", "failed"}
Errors == {"none", "open", "create", "list", "path", "entry"}
TarStates == {"none", "open", "finished", "unfinished"}

VARIABLES
  archive,   \* the opened archive
  pc,        \* where the command is
  todo,      \* the names the loop has still to visit
  tar,       \* the members appended: [entry |-> name, path |-> path]
  tarState,  \* the output file
  err        \* the error the command ended with

vars == <<archive, pc, todo, tar, tarState, err>>

(* Dropping the Builder: its finish may fail, and the error is discarded.  *)
DropBuilder == tarState' \in {"finished", "unfinished"}

(* The path add_file_to_tar gives to tar: "./" before an absolute name.    *)
TarPath(n) == IF Len(n) > 0 /\ n[1] = RootDir THEN <<CurDir>> \o Tail(n) ELSE n

(* append_data refuses an absolute path or one with a ".." component.      *)
TarAccepts(p) == ~HasParentDir(p) /\ ~(Len(p) > 0 /\ p[1] = RootDir)

(***************************************************************************)
(* open_mla_file and File::create fail before the tar exists; list_files   *)
(* fails after it was created, and the Builder is dropped on the return.   *)
(***************************************************************************)
TarStart ==
  /\ pc = "init"
  /\ \/ pc' = "failed" /\ err' = "open" /\ UNCHANGED <<todo, tarState>>
     \/ pc' = "failed" /\ err' = "create" /\ UNCHANGED <<todo, tarState>>
     \/ pc' = "failed" /\ err' = "list" /\ DropBuilder /\ UNCHANGED todo
     \/ pc' = "loop" /\ todo' = DOMAIN archive /\ tarState' = "open" /\ UNCHANGED err
  /\ UNCHANGED <<archive, tar>>

(* A panic in add_file_to_tar before the member is begun: unwinding drops  *)
(* the Builder (finish is tried), or the process aborts.                   *)
Panic(e) == pc' = "failed" /\ err' = e /\ tarState' \in {"finished", "unfinished"}

(***************************************************************************)
(* add_file_to_tar: append_data fails on the path before writing anything, *)
(* or while copying the data (a read error of a corrupt entry, or a write  *)
(* error) after part of the member is written, which leaves the TAR        *)
(* unusable whatever follows; either failure panics.  Otherwise the member *)
(* is appended.  It never returns an error.                                *)
(***************************************************************************)
AddFileToTar(n) ==
  \/ /\ TarAccepts(TarPath(n)) /\ archive[n] = "ok"
     /\ tar' = Append(tar, [entry |-> n, path |-> TarPath(n)])
     /\ UNCHANGED <<pc, tarState, err>>
  \/ ~TarAccepts(TarPath(n)) /\ Panic("path") /\ UNCHANGED tar
  \/ /\ TarAccepts(TarPath(n))
     /\ pc' = "failed" /\ err' = "entry" /\ tarState' = "unfinished" /\ UNCHANGED tar

(* Mutant of TarEntry: a failed lookup ends the loop (break, not continue).*)
TarEntryBreakOnError(n) ==
  /\ pc = "loop"
  /\ todo' = IF archive[n] \in {"missing", "lookupErr"} THEN {} ELSE todo \ {n}
  /\ \/ archive[n] \in {"missing", "lookupErr"} /\ UNCHANGED <<pc, tar, tarState, err>>
     \/ archive[n] \in {"ok", "corrupt"} /\ AddFileToTar(n)
  /\ UNCHANGED archive

(***************************************************************************)
(* One entry: a failed lookup or a missing entry is reported and skipped;  *)
(* otherwise add_file_to_tar.  The 'if let Err' of the loop is never       *)
(* taken: add_file_to_tar panics instead of returning an error.            *)
(***************************************************************************)
TarEntry(n) ==
  /\ pc = "loop"
  /\ todo' = todo \ {n}
  /\ \/ archive[n] \in {"missing", "lookupErr"} /\ UNCHANGED <<pc, tar, tarState, err>>
     \/ archive[n] \in {"ok", "corrupt"} /\ AddFileToTar(n)
  /\ UNCHANGED archive

(* The loop is over: Ok(()), and the Builder is dropped.                   *)
TarDone ==
  /\ pc = "loop" /\ todo = {}
  /\ pc' = "done" /\ DropBuilder
  /\ UNCHANGED <<archive, todo, tar, err>>

Init ==
  /\ archive \in Archives
  /\ pc = "init"
  /\ todo = {}
  /\ tar = <<>>
  /\ tarState = "none"
  /\ err = "none"

Next == TarStart \/ (\E n \in todo : TarEntry(n)) \/ TarDone

Spec == Init /\ [][Next]_vars /\ WF_vars(Next)


-----------------------------------------------------------------------------
TypeOK ==
  /\ archive \in Archives
  /\ pc \in PCs
  /\ todo \subseteq DOMAIN archive
  /\ tar \in Seq([entry : DOMAIN archive, path : Seq(Comps)])
  /\ tarState \in TarStates
  /\ err \in Errors

(***************************************************************************)
(* A to-tar that returns Ok(()) has appended every readable entry of the   *)
(* archive, each exactly once, under the path add_file_to_tar computes;    *)
(* the entries it skipped are those whose lookup failed or that are        *)
(* missing.                                                                *)
(***************************************************************************)
TarOutputOnSuccess ==
  pc = "done" =>
    /\ {tar[i].entry : i \in DOMAIN tar} = {n \in DOMAIN archive : archive[n] = "ok"}
    /\ \A i, j \in DOMAIN tar : i # j => tar[i].entry # tar[j].entry
    /\ \A i \in DOMAIN tar : tar[i].path = TarPath(tar[i].entry)

(***************************************************************************)
(* Spec 7: an output container whose finalization fails is a fatal error:  *)
(* a to-tar that succeeds has written the end of the TAR archive.          *)
(***************************************************************************)
TarFinishedOnSuccess == pc = "done" => tarState = "finished"

=============================================================================
