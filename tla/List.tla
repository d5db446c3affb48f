-------------------------------- MODULE List --------------------------------
(***************************************************************************)
(* The 'list' command of mlar (main.rs 418-442): the names of the archive  *)
(* are sorted and printed one per line.  With -v each entry is first       *)
(* looked up with get_file to print its size; with -vv get_hash also      *)
(* reads its hash.                                                         *)
(*                                                                         *)
(* An entry's data is "ok", "missing" (get_file gives Ok(None)),           *)
(* "lookupErr" (get_file gives Err), "corrupt" (its data is unreadable,    *)
(* which list never reads) or "hashErr": get_file finds it but get_hash    *)
(* does not (an Err from the reader, or Ok(None)).  printed is the         *)
(* sequence of names printed.                                              *)
(***************************************************************************)
EXTENDS EntryNames

CONSTANTS
  Archives,     \* candidate archives: names -> data states
  Verbosities   \* candidate numbers of -v flags

Names == Seq(Comps)
DataStates == {"ok", "missing", "lookupErr", "corrupt", "hashErr"}

ASSUME ListArchivesAssumption ==
  \A a \in Archives : DOMAIN a \subseteq Names /\ \A n \in DOMAIN a : a[n] \in DataStates

ASSUME VerbositiesAssumption == Verbosities \subseteq Nat

PCs == {"init", "loop", "done", "failed"}
Errors == {"none", "open", "list", "lookup", "panic", "hash"}

VARIABLES
  archive,  \* the opened archive
  verbose,  \* matches.occurrences_of("verbose")
  pc,       \* where the command is
  todo,     \* the sorted names still to print
  printed,  \* the names printed
  err       \* the error the command ended with

vars == <<archive, verbose, pc, todo, printed, err>>

Fail(e) == pc' = "failed" /\ err' = e

(* open_mla_file and list_files fail, or the names are listed and sorted.  *)
ListStart ==
  /\ pc = "init"
  /\ \/ Fail("open") /\ UNCHANGED todo
     \/ Fail("list") /\ UNCHANGED todo
     \/ pc' = "loop" /\ todo' = DOMAIN archive /\ UNCHANGED err
  /\ UNCHANGED <<archive, verbose, printed>>

(* Every lookup list makes for n, with this many -v flags, succeeds.       *)
LookedUp(n) == archive[n] \in {"ok", "corrupt"} \/ (verbose = 1 /\ archive[n] = "hashErr")

(* Mutant of ListEntry: with -v, a failed lookup skips the name.           *)
ListEntrySkipOnError(n) ==
  /\ pc = "loop"
  /\ IsFirst(n, todo)
  /\ todo' = todo \ {n}
  /\ \/ verbose = 0 /\ printed' = Append(printed, n) /\ UNCHANGED <<pc, err>>
     \/ verbose > 0 /\ archive[n] \in {"lookupErr", "missing"} /\ UNCHANGED <<pc, printed, err>>
     \/ verbose > 0 /\ LookedUp(n) /\ printed' = Append(printed, n) /\ UNCHANGED <<pc, err>>
     \/ verbose >= 2 /\ archive[n] = "hashErr" /\ Fail("hash") /\ UNCHANGED printed
  /\ UNCHANGED <<archive, verbose>>

(***************************************************************************)
(* One name, in sorted order.  Without -v it is printed.  With -v,         *)
(* get_file(fname)? returns a lookup error from the command, and           *)
(* .expect("Unable to get the file") panics on a missing entry.  With -vv, *)
(* get_hash(&filename)? and .expect("Unable to get the hash") end the      *)
(* command when the hash cannot be read.  Otherwise the name is printed    *)
(* with its size (and hash); the data is not read.                         *)
(***************************************************************************)
ListEntry(n) ==
  /\ pc = "loop"
  /\ IsFirst(n, todo)
  /\ todo' = todo \ {n}
  /\ \/ verbose = 0 /\ printed' = Append(printed, n) /\ UNCHANGED <<pc, err>>
     \/ verbose > 0 /\ archive[n] = "lookupErr" /\ Fail("lookup") /\ UNCHANGED printed
     \/ verbose > 0 /\ archive[n] = "missing" /\ Fail("panic") /\ UNCHANGED printed
     \/ verbose > 0 /\ LookedUp(n) /\ printed' = Append(printed, n) /\ UNCHANGED <<pc, err>>
     \/ verbose >= 2 /\ archive[n] = "hashErr" /\ Fail("hash") /\ UNCHANGED printed
  /\ UNCHANGED <<archive, verbose>>

(* Every name printed: Ok(()).                                             *)
ListDone ==
  /\ pc = "loop" /\ todo = {}
  /\ pc' = "done"
  /\ UNCHANGED <<archive, verbose, todo, printed, err>>

Init ==
  /\ archive \in Archives
  /\ verbose \in Verbosities
  /\ pc = "init"
  /\ todo = {}
  /\ printed = <<>>
  /\ err = "none"

Next == ListStart \/ (\E n \in todo : ListEntry(n)) \/ ListDone

Spec == Init /\ [][Next]_vars /\ WF_vars(Next)

-----------------------------------------------------------------------------
(***************************************************************************)
(* A list that succeeds has printed every name of the archive's index,     *)
(* each once, in strictly increasing byte order: with -v, only when every  *)
(* entry could be looked up, and with -vv only when every hash was read.   *)
(***************************************************************************)
ListOutputOnSuccess ==
  pc = "done" =>
    /\ {printed[i] : i \in DOMAIN printed} = DOMAIN archive
    /\ \A i, j \in DOMAIN printed : i < j => NameLt(printed[i], printed[j])
    /\ verbose > 0 => \A n \in DOMAIN archive : LookedUp(n)

=============================================================================
