--------------------------------- MODULE Cat ---------------------------------
(***************************************************************************)
(* The 'cat' command of mlar (main.rs 531-596): the data of entries is     *)
(* copied to one destination (a file or stdout), either for the entries    *)
(* named by the 'files' arguments, in argument order, or, with --glob, for *)
(* every pattern in argument order and every entry in sorted name order    *)
(* that it matches.  An entry can be output more than once.               *)
(*                                                                         *)
(* dest is the sequence of copies made: the argument that selected each    *)
(* one and the entry whose data was copied.  The argument is history; the  *)
(* bytes written are the entries' data in this order.  A pattern holding   *)
(* "[" stands for an invalid one (Pattern::new fails on an unclosed        *)
(* class); character classes are not modelled otherwise.                  *)
(***************************************************************************)
EXTENDS Matcher

CONSTANTS
  Archives,  \* candidate archives: names -> data states
  Requests   \* candidate command lines: [glob |-> BOOLEAN, files |-> <<...>>]

DataStates == {"ok", "missing", "lookupErr", "corrupt"}
Names == Seq(Comps)
Patterns == Seq(Comps \cup {"*", "?", "["})

ASSUME CatArchivesAssumption ==
  \A a \in Archives : DOMAIN a \subseteq Names /\ \A n \in DOMAIN a : a[n] \in DataStates

ASSUME RequestsAssumption ==
  \A r \in Requests :
    /\ r.glob \in BOOLEAN
    /\ r.files \in Seq(IF r.glob THEN Patterns ELSE Names)
    /\ Len(r.files) = 1

PCs == {"init", "loop", "done", "failed"}
Phases == {"next", "entries"}
Errors == {"none", "output", "open", "list", "entry", "write"}

(* A copy: the argument that selected it and the entry copied.            *)
Copies == [arg : Nat \ {0}, name : Names]

VARIABLES
  archive,  \* the opened archive
  req,      \* the command line
  pc,       \* where the command is
  k,        \* the index of the current 'files' argument
  phase,    \* --glob: between patterns, or visiting the entries for one
  todo,     \* --glob: the sorted names still to test against pattern k
  dest,     \* the copies written to the destination
  err       \* the error the command ended with

vars == <<archive, req, pc, k, phase, todo, dest, err>>

Fail(e) == pc' = "failed" /\ err' = e

(* Pattern::new succeeds.                                                  *)
ValidPattern(pat) == \A i \in 1..Len(pat) : pat[i] # "["

(* get_file: a name the index does not hold gives None, like a missing     *)
(* entry.                                                                  *)
Lookup(n) == IF n \in DOMAIN archive THEN archive[n] ELSE "missing"

(***************************************************************************)
(* The data of entry n is copied for argument i: get_file gives a lookup   *)
(* error or None (a missing entry, or no entry of that name), which is     *)
(* skipped; otherwise io::copy, whose failure to read the entry or to      *)
(* write the destination is returned by '?'.                              *)
(***************************************************************************)
CopyEntry(i, n) ==
  \/ Lookup(n) \in {"missing", "lookupErr"} /\ UNCHANGED <<pc, dest, err>>
  \/ Lookup(n) = "ok" /\ dest' = Append(dest, [arg |-> i, name |-> n]) /\ UNCHANGED <<pc, err>>
  \/ Lookup(n) = "ok" /\ Fail("write") /\ UNCHANGED dest
  \/ Lookup(n) = "corrupt" /\ Fail("entry") /\ UNCHANGED dest

(***************************************************************************)
(* destination_from_output_argument creates the output file, then          *)
(* open_mla_file opens the archive, then (--glob) list_files is read and   *)
(* sorted.                                                                 *)
(***************************************************************************)
CatStart ==
  /\ pc = "init"
  /\ \/ Fail("output")
     \/ Fail("open")
     \/ req.glob /\ Fail("list")
     \/ pc' = "loop" /\ UNCHANGED err
  /\ UNCHANGED <<archive, req, k, phase, todo, dest>>

(* --glob, the next pattern: an invalid one is reported and skipped.       *)
CatPatternBegin ==
  /\ req.glob /\ pc = "loop" /\ phase = "next" /\ k <= Len(req.files)
  /\ IF ValidPattern(req.files[k])
     THEN phase' = "entries" /\ todo' = DOMAIN archive /\ UNCHANGED k
     ELSE k' = k + 1 /\ UNCHANGED <<phase, todo>>
  /\ UNCHANGED <<archive, req, pc, dest, err>>

(* Mutant of CatGlobEntry: a failed or empty lookup breaks out of the scan *)
(* of the sorted names instead of continuing with the next one.            *)
CatGlobEntryBreakOnError(n) ==
  /\ req.glob /\ pc = "loop" /\ phase = "entries"
  /\ IsFirst(n, todo)
  /\ IF GlobMatch(req.files[k], Render(n))
     THEN \/ Lookup(n) \in {"missing", "lookupErr"} /\ todo' = {} /\ UNCHANGED <<pc, dest, err>>
          \/ Lookup(n) \in {"ok", "corrupt"} /\ todo' = todo \ {n} /\ CopyEntry(k, n)
     ELSE todo' = todo \ {n} /\ UNCHANGED <<pc, dest, err>>
  /\ UNCHANGED <<archive, req, k, phase>>

(* --glob, the next entry in sorted order, tested against pattern k.       *)
CatGlobEntry(n) ==
  /\ req.glob /\ pc = "loop" /\ phase = "entries"
  /\ IsFirst(n, todo)
  /\ todo' = todo \ {n}
  /\ IF GlobMatch(req.files[k], Render(n))
     THEN CopyEntry(k, n)
     ELSE UNCHANGED <<pc, dest, err>>
  /\ UNCHANGED <<archive, req, k, phase>>

(* --glob, all entries tested against pattern k.                          *)
CatPatternEnd ==
  /\ req.glob /\ pc = "loop" /\ phase = "entries" /\ todo = {}
  /\ k' = k + 1 /\ phase' = "next"
  /\ UNCHANGED <<archive, req, pc, todo, dest, err>>

(* Without --glob, the entry named by argument k.                         *)
CatExactEntry ==
  /\ ~req.glob /\ pc = "loop" /\ k <= Len(req.files)
  /\ k' = k + 1
  /\ CopyEntry(k, req.files[k])
  /\ UNCHANGED <<archive, req, phase, todo>>

(* All arguments done: Ok(()).                                            *)
CatDone ==
  /\ pc = "loop" /\ phase = "next" /\ k > Len(req.files)
  /\ pc' = "done"
  /\ UNCHANGED <<archive, req, k, phase, todo, dest, err>>

Init ==
  /\ archive \in Archives
  /\ req \in Requests
  /\ pc = "init"
  /\ k = 1
  /\ phase = "next"
  /\ todo = {}
  /\ dest = <<>>
  /\ err = "none"

Next ==
  \/ CatStart
  \/ CatPatternBegin
  \/ \E n \in todo : CatGlobEntry(n)
  \/ CatPatternEnd
  \/ CatExactEntry
  \/ CatDone

Spec == Init /\ [][Next]_vars /\ WF_vars(Next)

-----------------------------------------------------------------------------
TypeOK ==
  /\ archive \in Archives
  /\ req \in Requests
  /\ pc \in PCs
  /\ k \in Nat \ {0}
  /\ phase \in Phases
  /\ todo \subseteq DOMAIN archive
  /\ dest \in Seq(Copies)
  /\ err \in Errors

(* Argument i asks for entry n: n matches valid pattern i, or is named i.  *)
Asked(i, n) ==
  IF req.glob
  THEN ValidPattern(req.files[i]) /\ GlobMatch(req.files[i], Render(n))
  ELSE n = req.files[i]

(***************************************************************************)
(* A cat that succeeds has written, for every argument in order and, with  *)
(* --glob, every entry in sorted name order, the data of each readable     *)
(* entry the argument asks for, and nothing else: an entry asked for twice *)
(* is written twice, one that cannot be looked up is left out.             *)
(***************************************************************************)
CatOutputOnSuccess ==
  pc = "done" =>
    /\ {<<dest[i].arg, dest[i].name>> : i \in DOMAIN dest}
         = {e \in (1..Len(req.files)) \X DOMAIN archive :
              Asked(e[1], e[2]) /\ archive[e[2]] = "ok"}
    /\ \A i, j \in DOMAIN dest :
         i < j => \/ dest[i].arg < dest[j].arg
                  \/ dest[i].arg = dest[j].arg /\ NameLt(dest[i].name, dest[j].name)


-----------------------------------------------------------------------------
(***************************************************************************)
(* Refinement: cat is an ordered output stream (OrderedOutput).  The items *)
(* are the copies; the wanted ones are the readable entries each argument *)
(* asks for; they come out by argument, then by name.  The stream runs     *)
(* while pc is "init" or "loop".                                           *)
(***************************************************************************)
WantedCopies ==
  {c \in [arg : 1..Len(req.files), name : DOMAIN archive] :
     Asked(c.arg, c.name) /\ archive[c.name] = "ok"}

CopyBefore(c, d) == c.arg < d.arg \/ (c.arg = d.arg /\ NameLt(c.name, d.name))

StreamState == IF pc \in {"init", "loop"} THEN "run" ELSE pc

Stream == INSTANCE OrderedOutput
            WITH wanted <- WantedCopies, written <- dest, st <- StreamState,
                 Before <- CopyBefore

(***************************************************************************)
(* cat implements the ordered stream: at every moment the output is a      *)
(* prefix of the complete output, each copy comes out once and in order,   *)
(* a failure keeps only what was already written, and the command ends.   *)
(***************************************************************************)
CatImplementsStream == Stream!Spec


=============================================================================
