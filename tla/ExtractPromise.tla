---------------------------- MODULE ExtractPromise ----------------------------
(***************************************************************************)
(* What extraction promises about the files below the output directory,    *)
(* whichever path (linear or filtered) it takes (spec 4.1, 4.4, 7).        *)
(*                                                                         *)
(* An entry's destination is its normal components in order; a name with a *)
(* ".." component has none (4.1).  An entry is writable when the matcher   *)
(* selects it and its destination's containing directory is not reached   *)
(* through a link: the canonicalized directory must lie inside the output  *)
(* directory (4.1).  Every change to a file is one of: truncating the      *)
(* destination of a writable entry, appending a readable writable entry    *)
(* to its destination (the linear pass, 4.3, 4.4), or truncating it and    *)
(* copying that entry into it (the filtered path).  The command may stop   *)
(* with an error at any point, leaving at most one more destination        *)
(* truncated; it succeeds only when every deliverable entry is in its file *)
(* unless a deliverable entry sorting after it has the same destination.  *)
(*                                                                         *)
(* The data of an entry is its name; links is the set of paths below the   *)
(* output directory that are symbolic links.                               *)
(***************************************************************************)
EXTENDS Matcher

CONSTANTS Archives, Trees, Filters

VARIABLES
  archive,  \* the archive: entry names to data states
  filter,   \* the matcher
  links,    \* the paths that are links, fixed for the run
  files,    \* the entries written to every path, in order
  status    \* "run", "done" or "failed"

vars == <<archive, filter, links, files, status>>

LinksOf(t) == {q \in Paths : t[q] \in {"linkdir", "linkfile"}}

Destination(n) ==
  IF \E i \in 1..Len(n) : n[i] = ParentDir
  THEN <<>>
  ELSE SelectSeq(n, LAMBDA c : c \in NormalNames)

Inside(p) == \A k \in 1..Len(p) - 1 : Pre(p, k) \notin links

Writable(n) ==
  /\ n \in DOMAIN archive
  /\ Matches(filter, n)
  /\ Destination(n) \in Paths
  /\ Inside(Destination(n))

Deliverable(n) == Writable(n) /\ archive[n] = "ok"

(* Every deliverable entry is in its file, unless a deliverable entry      *)
(* sorting after it has the same destination.                              *)
Complete ==
  \A n \in DOMAIN archive :
    (/\ Deliverable(n)
     /\ \A m \in DOMAIN archive \ {n} :
          Deliverable(m) /\ Destination(m) = Destination(n) => NameLt(m, n))
    => \E i \in 1..Len(files[Destination(n)]) : files[Destination(n)][i] = n

Init ==
  /\ archive \in Archives
  /\ filter \in Filters
  /\ links \in {LinksOf(t) : t \in Trees}
  /\ files = [p \in Paths |-> <<>>]
  /\ status = "run"

Truncate(n) ==
  /\ status = "run"
  /\ Writable(n)
  /\ files' = [files EXCEPT ![Destination(n)] = <<>>]
  /\ UNCHANGED <<archive, filter, links, status>>

Add(n) ==
  /\ status = "run"
  /\ Deliverable(n)
  /\ files' = [files EXCEPT ![Destination(n)] = Append(@, n)]
  /\ UNCHANGED <<archive, filter, links, status>>

Copy(n) ==
  /\ status = "run"
  /\ Deliverable(n)
  /\ files' = [files EXCEPT ![Destination(n)] = <<n>>]
  /\ UNCHANGED <<archive, filter, links, status>>

Stop ==
  /\ status = "run"
  /\ status' = "failed"
  /\ \/ files' = files
     \/ \E n \in DOMAIN archive :
          Writable(n) /\ files' = [files EXCEPT ![Destination(n)] = <<>>]
  /\ UNCHANGED <<archive, filter, links>>

Finish ==
  /\ status = "run"
  /\ Complete
  /\ status' = "done"
  /\ UNCHANGED <<archive, filter, links, files>>

Next ==
  \/ \E n \in DOMAIN archive : Truncate(n) \/ Add(n) \/ Copy(n)
  \/ Stop
  \/ Finish

(* The command ends: it may always stop, and it does not run forever.      *)
Spec == Init /\ [][Next]_vars /\ WF_vars(Stop \/ Finish)

=============================================================================
