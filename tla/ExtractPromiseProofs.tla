------------------------- MODULE ExtractPromiseProofs -------------------------
(***************************************************************************)
(* Extract implements ExtractPromise: the safety part of the refinement,   *)
(* Spec => Promise!Init /\ [][Promise!Next]_Promise!vars, for every value  *)
(* of the constants whose names render to known characters.  The fairness *)
(* part (the command ends) is left to TLC.                                 *)
(***************************************************************************)
EXTENDS ExtractProofs

(* Every FileWriter of the export map writes inside the output directory.  *)
ExportInside == \A e \in export : DirInside(e[2])

(* The inductive invariant of the refinement.                              *)
RefInv == CompInv /\ ExportInside

(* The links of the tree never change.                                    *)
LEMMA LinkSetStable ==
  ASSUME TypeOK, FsGrows
  PROVE  LinkSet' = LinkSet
BY DEF LinkSet, FsGrows, Links

(* A containing directory that passed the check stays inside.             *)
LEMMA DirInsideStable ==
  ASSUME TypeOK, FsGrows, NEW p \in Paths, DirInside(p)
  PROVE  DirInside(p)'
<1> SUFFICES ASSUME NEW k \in 1..Len(p) - 1 PROVE fs'[Pre(p, k)] \notin Links
  BY DEF DirInside
<1>1. Pre(p, k) \in Paths
  <2>1. p \in Seq(NormalNames)
    BY DEF Paths
  <2>2. QED
    BY <2>1, PreInPaths
<1>2. QED
  BY <1>1 DEF DirInside, FsGrows, Links

(* The promise's paths, prefixes, matcher and byte order are the model's:  *)
(* the instance brings its own copies of the operators of Matcher.         *)
LEMMA PromisePaths == Promise!Paths = Paths
BY DEF Promise!Paths, Paths

(* The prefixes the promise checks are the ones create_file canonicalizes. *)
LEMMA PromisePre ==
  ASSUME NEW p, NEW k
  PROVE  Promise!Pre(p, k) = Pre(p, k)
BY DEF Promise!Pre, Pre

(* The promise selects what match_file_name selects.                       *)
LEMMA PromiseMatches ==
  ASSUME NEW f, NEW n
  PROVE  Promise!Matches(f, n) <=> Matches(f, n)
BY DEF Promise!Matches, Matches, Promise!GlobMatch, GlobMatch, Promise!Render, Render,
       Promise!CompChars, CompChars, Promise!RootDir, RootDir, Promise!CurDir, CurDir,
       Promise!ParentDir, ParentDir

(* The promise's order is the byte order of iter.sort().                  *)
LEMMA PromiseNameLt ==
  ASSUME NEW n, NEW m
  PROVE  Promise!NameLt(n, m) <=> NameLt(n, m)
BY DEF Promise!NameLt, NameLt, Promise!StrLt, StrLt, Promise!Byte, Byte, Promise!Pre, Pre,
       Promise!Render, Render, Promise!CompChars, CompChars, Promise!RootDir, RootDir,
       Promise!CurDir, CurDir, Promise!ParentDir, ParentDir

(* The promise's destination is get_extracted_path's.                      *)
LEMMA PromiseDest ==
  ASSUME NEW n
  PROVE  Promise!Destination(n) = Dest(n)
BY DEF Promise!Destination, Dest, HasParentDir, IsNormal, Promise!ParentDir, ParentDir

(* The promise's check of the containing directory is the starts_with     *)
(* check of create_file.                                                   *)
LEMMA PromiseInside ==
  ASSUME TypeOK, NEW p \in Paths
  PROVE  Promise!Inside(p) <=> DirInside(p)
<1>1. \A k \in 1..Len(p) - 1 : Pre(p, k) \in Paths
  <2>1. p \in Seq(NormalNames)
    BY DEF Paths
  <2>2. QED
    BY <2>1, PreInPaths
<1>2. QED
  BY <1>1, PromisePre DEF Promise!Inside, DirInside, LinkSet, TypeOK

(* The promise's deliverable entries are the good ones.                    *)
LEMMA PromiseDeliverable ==
  ASSUME TypeOK, NEW n \in DOMAIN archive
  PROVE  Promise!Deliverable(n) <=> Good(n)
<1>0. Promise!Matches(filter, n) <=> Matches(filter, n)
  BY PromiseMatches
<1>1. CASE Dest(n) \in Paths
  BY <1>0, <1>1, PromiseDest, PromisePaths, PromiseInside
     DEF Promise!Deliverable, Promise!Writable, Good
<1>2. CASE Dest(n) \notin Paths
  BY <1>2, PromiseDest, PromisePaths DEF Promise!Deliverable, Promise!Writable, Good
<1>3. QED
  BY <1>1, <1>2

(* The start state of extract is a start state of the promise.            *)
LEMMA PromiseInit ==
  Init => Promise!Init
<1> SUFFICES ASSUME Init PROVE Promise!Init
  OBVIOUS
<1>1. LinkSet \in {Promise!LinksOf(t) : t \in Trees}
  <2>1. LinkSet = Promise!LinksOf(fs)
    BY PromisePaths DEF LinkSet, Links, Promise!LinksOf
  <2>2. QED
    BY <2>1 DEF Init
<1>2. content = [p \in Promise!Paths |-> <<>>]
  BY PromisePaths DEF Init
<1>3. QED
  BY <1>1, <1>2 DEF Init, Promise!Init, PromiseStatus

(* Only the prepare loop adds to the export map, and only FileWriters of   *)
(* paths that passed the check; those stay inside.                         *)
LEMMA ExportInsideStep ==
  ASSUME CompInv, ExportInside, [Next]_vars
  PROVE  ExportInside'
<1>0. TypeOK /\ FsGrows
  BY StepGrows DEF CompInv, SelInv
<1>1. \A e \in export' \ export : e[2] \in Paths /\ DirInside(e[2])
  <2>1. CASE \E n \in todo : Prepare(n)
    <3>1. PICK n \in todo : Prepare(n)
      BY <2>1
    <3>2. CASE Dest(n) \notin Paths
      BY <3>1, <3>2 DEF Prepare
    <3>3. CASE Dest(n) \in Paths
      <4>1. PICK p \in Paths :
              /\ p = Dest(n)
              /\ CreateFile(p,
                    UNCHANGED <<pc, err, export>>,
                    /\ content' = [content EXCEPT ![p] = <<>>]
                    /\ export' = export \cup {<<n, p>>}
                    /\ UNCHANGED <<pc, err>>,
                    export)
        BY <3>1, <3>3 DEF Prepare
      <4>2. export' = export \/ (export' = export \cup {<<n, p>>} /\ DirInside(p))
        BY <4>1 DEF CreateFile
      <4>3. QED
        BY <4>2
    <3>4. QED
      BY <3>2, <3>3
  <2>2. CASE ~\E n \in todo : Prepare(n)
    <3>1. export' = export
      BY <2>2 DEF Next, Start, PrepareDone, LinearWrite, LinearSkipped, LinearDone,
                  Filtered, FilteredDone, vars
    <3>2. QED
      BY <3>1
  <2>3. QED
    BY <2>1, <2>2
<1>2. \A e \in export : DirInside(e[2])'
  <2> SUFFICES ASSUME NEW e \in export PROVE DirInside(e[2])'
    OBVIOUS
  <2>1. e[2] \in Paths /\ DirInside(e[2])
    BY <1>0 DEF TypeOK, ExportInside
  <2>2. QED
    BY <1>0, <2>1, DirInsideStable
<1>3. QED
  BY <1>0, <1>1, <1>2, DirInsideStable DEF ExportInside

(* What the loops deliver is what the promise asks for at the end.        *)
LEMMA PromiseComplete ==
  ASSUME TypeOK, GoodDelivered
  PROVE  Promise!Complete
<1> SUFFICES ASSUME NEW n \in DOMAIN archive, Promise!Deliverable(n),
                    \A m \in DOMAIN archive \ {n} :
                      Promise!Deliverable(m) /\ Promise!Destination(m) = Promise!Destination(n)
                      => Promise!NameLt(m, n)
             PROVE  \E i \in 1..Len(content[Promise!Destination(n)]) :
                      content[Promise!Destination(n)][i] = n
  BY DEF Promise!Complete
<1>1. Good(n)
  BY PromiseDeliverable
<1>2. \A m \in DOMAIN archive \ {n} : Good(m) /\ Dest(m) = Dest(n) => NameLt(m, n)
  <2> SUFFICES ASSUME NEW m \in DOMAIN archive \ {n}, Good(m), Dest(m) = Dest(n)
               PROVE  NameLt(m, n)
    OBVIOUS
  <2>1. Promise!Deliverable(m)
    BY PromiseDeliverable
  <2>2. Promise!NameLt(m, n)
    BY <2>1, PromiseDest
  <2>3. QED
    BY <2>2, PromiseNameLt
<1>3. QED
  BY <1>1, <1>2, PromiseDest DEF GoodDelivered

(* What no step of extract changes: the archive, the matcher, the links.   *)
LEMMA PromiseFrame ==
  ASSUME CompInv, [Next]_vars
  PROVE  /\ TypeOK
         /\ archive' = archive /\ filter' = filter /\ LinkSet' = LinkSet
<1>1. TypeOK /\ FsGrows
  BY StepGrows DEF CompInv, SelInv
<1>2. QED
  BY <1>1, CompBasics, LinkSetStable

(* A step that changes no file and does not end the command is a stutter.  *)
LEMMA PromiseStutter ==
  ASSUME archive' = archive, filter' = filter, LinkSet' = LinkSet,
         content' = content, PromiseStatus' = PromiseStatus
  PROVE  [Promise!Next]_Promise!vars
BY DEF Promise!vars

(* An error of a running command, which leaves the files or truncates the *)
(* destination of a writable entry, is a Stop.                             *)
LEMMA PromiseStop ==
  ASSUME PromiseStatus = "run", pc' = "failed",
         archive' = archive, filter' = filter, LinkSet' = LinkSet,
         \/ content' = content
         \/ \E n \in DOMAIN archive :
              Promise!Writable(n) /\ content' = [content EXCEPT ![Promise!Destination(n)] = <<>>]
  PROVE  Promise!Next
BY DEF Promise!Next, Promise!Stop, PromiseStatus

(* An entry create_file reaches is writable in the promise's sense.        *)
LEMMA PromiseWritable ==
  ASSUME TypeOK, NEW n \in DOMAIN archive, Matches(filter, n),
         Dest(n) \in Paths, DirInside(Dest(n))
  PROVE  Promise!Writable(n) /\ Promise!Destination(n) = Dest(n)
<1>1. Promise!Matches(filter, n)
  BY PromiseMatches
<1>2. Promise!Inside(Dest(n))
  BY PromiseInside
<1>3. QED
  BY <1>1, <1>2, PromiseDest, PromisePaths DEF Promise!Writable

(* The start neither writes nor finishes: a stutter, or a Stop.            *)
LEMMA PromiseStart ==
  ASSUME CompInv, Start
  PROVE  [Promise!Next]_Promise!vars
<1>0. archive' = archive /\ filter' = filter /\ LinkSet' = LinkSet
  BY PromiseFrame DEF Next
<1>1. content' = content /\ pc = "init"
  BY DEF Start
<1>2. CASE pc' = "failed"
  BY <1>0, <1>1, <1>2, PromiseStop DEF PromiseStatus
<1>3. CASE pc' # "failed"
  <2>1. pc' \in {"prepare", "filtered"}
    BY <1>3 DEF Start, Fail
  <2>2. QED
    BY <1>0, <1>1, <2>1, PromiseStutter DEF PromiseStatus
<1>4. QED
  BY <1>2, <1>3

(* The end of either loop, with Ok(()), is Finish.                         *)
LEMMA PromiseEnds ==
  ASSUME RenderTyped, CompInv, LinearDone \/ FilteredDone
  PROVE  Promise!Next
<1>0. archive' = archive /\ filter' = filter /\ LinkSet' = LinkSet /\ TypeOK
  BY PromiseFrame DEF Next
<1>1. /\ pc \in {"linear", "filtered"} /\ todo = {} /\ pc' = "done"
      /\ content' = content
  BY DEF LinearDone, FilteredDone
<1>2. GoodDelivered
  BY <1>1, CompDelivered
<1>3. Promise!Complete
  BY <1>0, <1>2, PromiseComplete
<1>4. QED
  BY <1>0, <1>1, <1>3 DEF Promise!Next, Promise!Finish, PromiseStatus

(* A turn of the prepare loop: create_file truncates the destination of a  *)
(* selected entry, or changes no file, or ends the command.                *)
LEMMA PromisePrepare ==
  ASSUME CompInv, NEW n \in todo, Prepare(n)
  PROVE  [Promise!Next]_Promise!vars
<1>0. /\ archive' = archive /\ filter' = filter /\ LinkSet' = LinkSet /\ TypeOK
      /\ pc = "prepare" /\ PromiseStatus = "run" /\ n \in DOMAIN archive
  BY PromiseFrame DEF Next, Prepare, PromiseStatus, TypeOK
<1>1. CASE Dest(n) \notin Paths
  BY <1>0, <1>1, PromiseStutter DEF Prepare, PromiseStatus
<1>2. CASE Dest(n) \in Paths
  <2>1. PICK p \in Paths :
          /\ p = Dest(n)
          /\ CreateFile(p,
                UNCHANGED <<pc, err, export>>,
                /\ content' = [content EXCEPT ![p] = <<>>]
                /\ export' = export \cup {<<n, p>>}
                /\ UNCHANGED <<pc, err>>,
                export)
    BY <1>2 DEF Prepare
  <2>2. \/ content' = content /\ pc' = "failed"
        \/ content' = content /\ pc' = pc
        \/ content' = [content EXCEPT ![p] = <<>>] /\ pc' = pc /\ DirInside(p)
    BY <2>1 DEF CreateFile, Fail
  <2>3. CASE content' = content /\ pc' = "failed"
    BY <1>0, <2>3, PromiseStop
  <2>4. CASE content' = content /\ pc' = pc
    BY <1>0, <2>4, PromiseStutter DEF PromiseStatus
  <2>5. CASE content' = [content EXCEPT ![p] = <<>>] /\ pc' = pc /\ DirInside(p)
    <3>1. Matches(filter, n)
      BY <1>0, AnythingMatches DEF CompInv, SelInv, LinearOnlyAnything
    <3>2. Promise!Writable(n) /\ Promise!Destination(n) = p
      BY <1>0, <2>1, <2>5, <3>1, PromiseWritable
    <3>3. Promise!Truncate(n)
      BY <1>0, <2>5, <3>2 DEF Promise!Truncate, PromiseStatus
    <3>4. QED
      BY <1>0, <3>3 DEF Promise!Next
  <2>6. QED
    BY <2>2, <2>3, <2>4, <2>5
<1>3. QED
  BY <1>1, <1>2

(* A write of linear_extract through a FileWriter appends a deliverable    *)
(* entry to its destination, or changes nothing, or ends the command.      *)
LEMMA PromiseLinearWrite ==
  ASSUME CompInv, ExportInside, NEW n \in todo, LinearWrite(n)
  PROVE  [Promise!Next]_Promise!vars
<1>0. /\ archive' = archive /\ filter' = filter /\ LinkSet' = LinkSet /\ TypeOK
      /\ pc = "linear" /\ PromiseStatus = "run" /\ n \in DOMAIN archive
  BY PromiseFrame DEF Next, LinearWrite, PromiseStatus, TypeOK
<1>1. PICK e \in export : e[1] = n /\ LinearWriteTo(n, e[2])
  BY DEF LinearWrite
<1>2. /\ e[2] = Dest(n) /\ e[2] \in Paths /\ DirInside(e[2]) /\ Matches(filter, n)
  BY <1>0, <1>1 DEF CompInv, SelInv, ExportSelected, ExportInside, TypeOK
<1>3. CASE archive[n] = "ok"
  <2>1. content' = [content EXCEPT ![e[2]] = Append(@, n)] /\ pc' = pc
    BY <1>1, <1>3 DEF LinearWriteTo
  <2>2. Promise!Deliverable(n) /\ Promise!Destination(n) = e[2]
    BY <1>0, <1>2, <1>3, PromiseWritable DEF Promise!Deliverable
  <2>3. Promise!Add(n)
    BY <1>0, <2>1, <2>2 DEF Promise!Add, PromiseStatus
  <2>4. QED
    BY <1>0, <2>3 DEF Promise!Next
<1>4. CASE archive[n] = "missing"
  <2>1. content' = content /\ pc' = pc
    BY <1>1, <1>4 DEF LinearWriteTo
  <2>2. QED
    BY <1>0, <2>1, PromiseStutter DEF PromiseStatus
<1>5. CASE archive[n] \notin {"ok", "missing"}
  <2>1. content' = content /\ pc' = "failed"
    BY <1>1, <1>5 DEF LinearWriteTo, Fail
  <2>2. QED
    BY <1>0, <2>1, PromiseStop
<1>6. QED
  BY <1>3, <1>4, <1>5

(* A turn of the filtered loop: File::create and io::copy put a deliverable *)
(* entry alone in its destination, or a failed copy leaves it truncated    *)
(* and ends the command, or no file changes.                               *)
LEMMA PromiseFiltered ==
  ASSUME CompInv, NEW n \in todo, Filtered(n)
  PROVE  [Promise!Next]_Promise!vars
<1>0. /\ archive' = archive /\ filter' = filter /\ LinkSet' = LinkSet /\ TypeOK
      /\ pc = "filtered" /\ PromiseStatus = "run" /\ n \in DOMAIN archive
  BY PromiseFrame DEF Next, Filtered, PromiseStatus, TypeOK
<1>1. CASE UNCHANGED <<pc, fs, content, touched, madeDirs, err>>
  BY <1>0, <1>1, PromiseStutter DEF PromiseStatus
<1>2. CASE ~UNCHANGED <<pc, fs, content, touched, madeDirs, err>>
  <2>1. PICK p \in Paths :
          /\ Matches(filter, n)
          /\ archive[n] \in {"ok", "corrupt"}
          /\ p = Dest(n)
          /\ CreateFile(p,
                UNCHANGED <<pc, err>>,
                IF archive[n] = "ok"
                THEN content' = [content EXCEPT ![p] = <<n>>] /\ UNCHANGED <<pc, err>>
                ELSE content' = [content EXCEPT ![p] = <<>>] /\ Fail("entry"),
                <<>>)
    BY <1>2 DEF Filtered
  <2>2. \/ content' = content /\ pc' = "failed"
        \/ content' = content /\ pc' = pc
        \/ /\ DirInside(p)
           /\ IF archive[n] = "ok"
              THEN content' = [content EXCEPT ![p] = <<n>>] /\ pc' = pc
              ELSE content' = [content EXCEPT ![p] = <<>>] /\ pc' = "failed"
    BY <2>1 DEF CreateFile, Fail
  <2>3. CASE content' = content /\ pc' = "failed"
    BY <1>0, <2>3, PromiseStop
  <2>4. CASE content' = content /\ pc' = pc
    BY <1>0, <2>4, PromiseStutter DEF PromiseStatus
  <2>5. CASE /\ DirInside(p)
             /\ IF archive[n] = "ok"
                THEN content' = [content EXCEPT ![p] = <<n>>] /\ pc' = pc
                ELSE content' = [content EXCEPT ![p] = <<>>] /\ pc' = "failed"
    <3>0. Promise!Writable(n) /\ Promise!Destination(n) = p
      BY <1>0, <2>1, <2>5, PromiseWritable
    <3>1. CASE archive[n] = "ok"
      <4>1. content' = [content EXCEPT ![p] = <<n>>] /\ pc' = pc
        BY <2>5, <3>1
      <4>2. Promise!Copy(n)
        BY <1>0, <3>0, <3>1, <4>1 DEF Promise!Copy, Promise!Deliverable, PromiseStatus
      <4>3. QED
        BY <1>0, <4>2 DEF Promise!Next
    <3>2. CASE archive[n] # "ok"
      <4>1. content' = [content EXCEPT ![p] = <<>>] /\ pc' = "failed"
        BY <2>5, <3>2
      <4>2. QED
        BY <1>0, <3>0, <4>1, PromiseStop
    <3>3. QED
      BY <3>1, <3>2
  <2>6. QED
    BY <2>2, <2>3, <2>4, <2>5
<1>3. QED
  BY <1>1, <1>2

(* Every step of extract is a step of the promise or leaves it unchanged.  *)
LEMMA PromiseStep ==
  ASSUME RenderTyped, RefInv, [Next]_vars
  PROVE  [Promise!Next]_Promise!vars
<1>0. CompInv /\ ExportInside
  BY DEF RefInv
<1>1. CASE Start
  BY <1>0, <1>1, PromiseStart
<1>2. ASSUME NEW n \in todo, Prepare(n) PROVE [Promise!Next]_Promise!vars
  BY <1>0, <1>2, PromisePrepare
<1>3. ASSUME NEW n \in todo, LinearWrite(n) PROVE [Promise!Next]_Promise!vars
  BY <1>0, <1>3, PromiseLinearWrite
<1>4. ASSUME NEW n \in todo, Filtered(n) PROVE [Promise!Next]_Promise!vars
  BY <1>0, <1>4, PromiseFiltered
<1>5. CASE PrepareDone
  <2>1. archive' = archive /\ filter' = filter /\ LinkSet' = LinkSet
    BY <1>0, <1>5, PromiseFrame DEF Next
  <2>2. content' = content /\ pc = "prepare" /\ pc' = "linear"
    BY <1>5 DEF PrepareDone
  <2>3. QED
    BY <2>1, <2>2, PromiseStutter DEF PromiseStatus
<1>6. CASE LinearDone \/ FilteredDone
  BY <1>0, <1>6, PromiseEnds
<1>7. CASE UNCHANGED vars
  BY <1>7 DEF vars, Promise!vars, LinkSet, PromiseStatus
<1>8. ASSUME NEW n \in DOMAIN archive, LinearSkipped(n) PROVE [Promise!Next]_Promise!vars
  <2>1. archive' = archive /\ filter' = filter /\ LinkSet' = LinkSet
    BY <1>0, <1>8, PromiseFrame DEF Next
  <2>2. pc = "linear" /\ pc' = "failed" /\ content' = content
    BY <1>8 DEF LinearSkipped, Fail
  <2>3. QED
    BY <2>1, <2>2, PromiseStop DEF PromiseStatus
<1>9. QED
  BY <1>1, <1>2, <1>3, <1>4, <1>5, <1>6, <1>7, <1>8 DEF Next

(***************************************************************************)
(* extract keeps the promise of ExtractPromise, for every archive, tree,   *)
(* matcher and depth whose names render to strings of known characters:   *)
(* every change create_file, the FileWriters of linear_extract (main.rs    *)
(* 382-398, 479-488) and the filtered loop (491-527) make to a file is a   *)
(* truncation, an append or a truncate-and-copy of a selected entry at its *)
(* destination inside the output directory, an error stops the command,    *)
(* and Ok(()) comes only with every deliverable entry delivered.  The      *)
(* inductive invariant is CompInv, which ExtractComplete needs, with the   *)
(* fact that every FileWriter of the export map passed the check.          *)
(***************************************************************************)
THEOREM ExtractRefinesPromise ==
  ASSUME RenderTyped
  PROVE  Spec => Promise!Init /\ [][Promise!Next]_Promise!vars
<1>1. Init => RefInv
  BY TreesAssumption
     DEF Init, RefInv, ExportInside, CompInv, SelInv, TypeOK, PCs, Errors,
         LinearOnlyAnything, ExportSelected, TouchedSelected, ContentSelected,
         FilteredOnlyNotAnything, DoneInv, FilteredOrderInv, FilteredLastInv,
         PrepareInv, LinearInv
<1>2. RefInv /\ [Next]_vars => RefInv'
  BY CompInvStep, ExportInsideStep DEF RefInv
<1>3. RefInv /\ [Next]_vars => [Promise!Next]_Promise!vars
  BY PromiseStep
<1>4. QED
  BY <1>1, <1>2, <1>3, PromiseInit, PTL DEF Spec

=============================================================================
