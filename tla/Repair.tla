------------------------------- MODULE Repair -------------------------------
(***************************************************************************)
(* The 'repair' command of mlar (main.rs 633-650): the input is opened     *)
(* with the fail-safe reader (open_failsafe_mla_file, 201-213), the output *)
(* writer is set up (writer_from_matches, 159-170), and the reader's       *)
(* convert_to_archive copies into it every entry it can still decode,      *)
(* finalizes it and returns a status, which repair prints.                 *)
(*                                                                         *)
(* convert_to_archive belongs to the mla library, not to this program; it  *)
(* is modelled from its contract (spec 4.5, 6, 8): the entries that are    *)
(* whole before the first corruption are written in their order, the      *)
(* writer is finalized, and the status says whether the original end of   *)
(* the archive was reached.  A source is its entries in physical order and *)
(* the number of them that are whole.                                      *)
(*                                                                         *)
(* The output is created after the input is opened.  When both name the    *)
(* same file, File::create truncates the input under the open reader,      *)
(* which then decodes at most what it has already buffered: any number of *)
(* the whole entries, down to none.                                        *)
(***************************************************************************)
EXTENDS Naturals, Sequences

CONSTANTS
  Items,      \* the entries an archive may hold
  Sources,    \* candidate inputs: [entries |-> <<...>>, whole |-> n],
              \* with whole at most the number of entries
  SameFiles   \* whether the output argument names the input file

PCs == {"init", "loop", "report", "done", "failed"}
Errors == {"none", "open", "setup", "write", "finalize"}
OutStates == {"none", "open", "finalized"}
Statuses == {"none", "NoError", "EndOfOriginalArchiveData", "error"}

(* The statuses that say the original archive was read to its end.         *)
CleanStatuses == {"NoError", "EndOfOriginalArchiveData"}

VARIABLES
  src,       \* the input archive
  same,      \* the output is the input file
  pc,        \* where the command is
  readable,  \* how many entries the reader can still decode
  out,       \* the entries the writer has received
  outState,  \* the output file
  status,    \* the status convert_to_archive returned
  err        \* the error the command ended with

vars == <<src, same, pc, readable, out, outState, status, err>>

Fail(e) == pc' = "failed" /\ err' = e

(* open_failsafe_mla_file: the keys (a panic), File::open or the header    *)
(* read fail.                                                              *)
FailSafeOpen == Fail("open") /\ UNCHANGED <<readable, outState>>

(* File::create of the output: it truncates the input when it is the same. *)
CreateOutput ==
  IF same THEN readable' \in 0..readable ELSE UNCHANGED readable

(***************************************************************************)
(* writer_from_matches: config_from_matches panics or File::create fails   *)
(* before the output exists; ArchiveWriter::from_config fails on the       *)
(* header after it exists; or the writer is ready.                         *)
(***************************************************************************)
WriterFromMatches ==
  \/ Fail("setup") /\ UNCHANGED <<readable, outState>>
  \/ Fail("setup") /\ outState' = "open" /\ CreateOutput
  \/ pc' = "loop" /\ outState' = "open" /\ CreateOutput /\ UNCHANGED err

(* repair, up to convert_to_archive: the two '?' of its first lines.       *)
RepairStart ==
  /\ pc = "init"
  /\ FailSafeOpen \/ WriterFromMatches
  /\ UNCHANGED <<src, same, out, status>>

(* convert_to_archive: the next whole entry is written, or the write fails.*)
RecoverEntry ==
  /\ pc = "loop" /\ Len(out) < readable
  /\ \/ out' = Append(out, src.entries[Len(out) + 1]) /\ UNCHANGED <<pc, err>>
     \/ Fail("write") /\ UNCHANGED out
  /\ UNCHANGED <<src, same, readable, outState, status>>

(***************************************************************************)
(* convert_to_archive, at the first entry it cannot decode or at the end:  *)
(* the writer is finalized and the status returned; a finalize failure is  *)
(* an error, returned by the '?'.                                          *)
(***************************************************************************)
RecoverEnd ==
  /\ pc = "loop" /\ Len(out) = readable
  /\ \/ /\ outState' = "finalized" /\ pc' = "report" /\ UNCHANGED err
        /\ IF readable = Len(src.entries) THEN status' \in CleanStatuses ELSE status' = "error"
     \/ Fail("finalize") /\ UNCHANGED <<outState, status>>
  /\ UNCHANGED <<src, same, readable, out>>

(* The status is printed (a warning unless NoError) and repair returns     *)
(* Ok(()).                                                                 *)
RepairReport ==
  /\ pc = "report" /\ pc' = "done"
  /\ UNCHANGED <<src, same, readable, out, outState, status, err>>

Init ==
  /\ src \in Sources
  /\ same \in SameFiles
  /\ pc = "init"
  /\ readable = src.whole
  /\ out = <<>>
  /\ outState = "none"
  /\ status = "none"
  /\ err = "none"

Next == RepairStart \/ RecoverEntry \/ RecoverEnd \/ RepairReport

Spec == Init /\ [][Next]_vars /\ WF_vars(Next)

-----------------------------------------------------------------------------
(***************************************************************************)
(* Spec 8, the repair scenario: a repair that succeeds leaves a finalized  *)
(* archive holding exactly the entries of the input that were whole, in   *)
(* their order, and reports a clean end (no error, or the original end of  *)
(* the archive) exactly when every entry was whole.                        *)
(***************************************************************************)
RepairKeepsRecovered ==
  pc = "done" =>
    /\ outState = "finalized"
    /\ out = SubSeq(src.entries, 1, src.whole)
    /\ status \in CleanStatuses <=> src.whole = Len(src.entries)

=============================================================================
