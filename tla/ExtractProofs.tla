---------------------------- MODULE ExtractProofs ----------------------------
(***************************************************************************)
(* Proofs about Extract for every value of the constants.                  *)
(***************************************************************************)
EXTENDS Extract, TLAPS

(* A prefix of a path is a path.                                           *)
LEMMA PreInPaths ==
  ASSUME NEW p \in Paths, NEW k \in 1..Len(p)
  PROVE  Pre(p, k) \in Paths
<1>1. PICK L \in 1..MaxDepth : p \in [1..L -> NormalNames]
  BY DEF Paths
<1>2. p \in Seq(NormalNames) /\ Len(p) = L
  BY <1>1
<1>3. Pre(p, k) = [i \in 1..k |-> p[i]]
  BY <1>2 DEF Pre
<1>4. Pre(p, k) \in [1..k -> NormalNames]
  BY <1>1, <1>2, <1>3
<1>5. QED
  BY <1>2, <1>4, DepthAssumption DEF Paths

(* The new directories of a create_dir_all are paths.                      *)
LEMMA NewDirsInPaths ==
  ASSUME NEW p \in Paths
  PROVE  NewDirs(p) \subseteq Paths
BY DEF NewDirs

(***************************************************************************)
(* create_file keeps the kinds of the tree, the histories and the content  *)
(* typed, whichever way it ends; the caller's continuation is typed by the *)
(* caller.                                                                 *)
(***************************************************************************)
LEMMA CreateFileFs ==
  ASSUME TypeOK, NEW p \in Paths,
         NEW ACTION Skip, NEW ACTION Create, NEW STATE own,
         CreateFile(p, Skip, Create, own)
  PROVE  /\ fs' \in [Paths -> Kinds]
         /\ touched' \subseteq Paths
         /\ madeDirs' \subseteq Paths
<1>1. NewDirs(p) \subseteq Paths
  BY NewDirsInPaths
<1>2. QED
  BY <1>1 DEF CreateFile, MkdirEffect, TypeOK, Kinds

(* Every step keeps the type invariant.                                   *)
LEMMA TypeOKStep == TypeOK /\ [Next]_vars => TypeOK'
<1> SUFFICES ASSUME TypeOK, [Next]_vars PROVE TypeOK'
  OBVIOUS
<1>1. CASE Start
  BY <1>1 DEF Start, Fail, TypeOK, PCs, Errors
<1>2. ASSUME NEW n \in todo, Prepare(n) PROVE TypeOK'
  <2>0. archive' = archive /\ filter' = filter /\ todo' \subseteq todo
    BY <1>2 DEF Prepare
  <2>1. CASE Dest(n) \notin Paths
    BY <1>2, <2>1 DEF Prepare, TypeOK
  <2>2. ASSUME NEW p \in Paths, p = Dest(n),
               CreateFile(p,
                 UNCHANGED <<pc, err, export>>,
                 /\ content' = [content EXCEPT ![p] = <<>>]
                 /\ export' = export \cup {<<n, p>>}
                 /\ UNCHANGED <<pc, err>>,
                 export)
        PROVE TypeOK'
    <3>1. /\ fs' \in [Paths -> Kinds]
          /\ touched' \subseteq Paths
          /\ madeDirs' \subseteq Paths
      BY <2>2, CreateFileFs
    <3>2. /\ content' \in [Paths -> Seq(DOMAIN archive)]
          /\ export' \subseteq (DOMAIN archive) \X Paths
          /\ pc' \in PCs /\ err' \in Errors
      <4>1. CASE Fail("entry") /\ UNCHANGED <<content, export>>
        BY <4>1 DEF Fail, TypeOK, PCs, Errors
      <4>2. CASE UNCHANGED <<pc, err, export>> /\ UNCHANGED content
        BY <4>2 DEF TypeOK
      <4>3. CASE /\ content' = [content EXCEPT ![p] = <<>>]
                 /\ export' = export \cup {<<n, p>>}
                 /\ UNCHANGED <<pc, err>>
        BY <4>3 DEF TypeOK
      <4>4. QED
        BY <2>2, <4>1, <4>2, <4>3 DEF CreateFile
    <3>3. QED
      BY <2>0, <3>1, <3>2 DEF TypeOK
  <2>3. QED
    BY <1>2, <2>1, <2>2 DEF Prepare
<1>3. ASSUME NEW n \in todo, LinearWrite(n) PROVE TypeOK'
  <2>1. PICK e \in export : e[1] = n /\ LinearWriteTo(n, e[2])
    BY <1>3 DEF LinearWrite
  <2>2. e[2] \in Paths
    BY <2>1 DEF TypeOK
  <2>3. /\ content' \in [Paths -> Seq(DOMAIN archive)]
        /\ pc' \in PCs /\ err' \in Errors
    <3>1. CASE archive[n] = "ok"
      <4>1. content' = [content EXCEPT ![e[2]] = Append(@, n)]
            /\ UNCHANGED <<pc, err>>
        BY <2>1, <3>1 DEF LinearWriteTo
      <4>2. n \in DOMAIN archive /\ content[e[2]] \in Seq(DOMAIN archive)
        BY <2>2 DEF TypeOK
      <4>3. QED
        BY <4>1, <4>2 DEF TypeOK
    <3>2. CASE archive[n] # "ok"
      BY <2>1, <3>2 DEF LinearWriteTo, Fail, TypeOK, PCs, Errors
    <3>3. QED
      BY <3>1, <3>2
  <2>4. QED
    BY <1>3, <2>3 DEF LinearWrite, TypeOK
<1>4. ASSUME NEW n \in todo, Filtered(n) PROVE TypeOK'
  <2>0. /\ archive' = archive /\ filter' = filter /\ todo' \subseteq todo
        /\ export' = export
    BY <1>4 DEF Filtered
  <2>1. CASE UNCHANGED <<pc, fs, content, touched, madeDirs, err>>
    BY <1>4, <2>1 DEF Filtered, TypeOK
  <2>2. ASSUME NEW p \in Paths, p = Dest(n),
               CreateFile(p,
                 UNCHANGED <<pc, err>>,
                 IF archive[n] = "ok"
                 THEN content' = [content EXCEPT ![p] = <<n>>] /\ UNCHANGED <<pc, err>>
                 ELSE content' = [content EXCEPT ![p] = <<>>] /\ Fail("entry"),
                 <<>>)
        PROVE TypeOK'
    <3>1. /\ fs' \in [Paths -> Kinds]
          /\ touched' \subseteq Paths
          /\ madeDirs' \subseteq Paths
      BY <2>2, CreateFileFs
    <3>2. /\ content' \in [Paths -> Seq(DOMAIN archive)]
          /\ pc' \in PCs /\ err' \in Errors
      <4>1. CASE Fail("entry") /\ UNCHANGED content
        BY <4>1 DEF Fail, TypeOK, PCs, Errors
      <4>2. CASE UNCHANGED <<pc, err>> /\ UNCHANGED content
        BY <4>2 DEF TypeOK
      <4>3. CASE IF archive[n] = "ok"
                 THEN content' = [content EXCEPT ![p] = <<n>>] /\ UNCHANGED <<pc, err>>
                 ELSE content' = [content EXCEPT ![p] = <<>>] /\ Fail("entry")
        <5>1. n \in DOMAIN archive
          BY DEF TypeOK
        <5>2. CASE archive[n] = "ok"
          <6>1. content' = [content EXCEPT ![p] = <<n>>] /\ UNCHANGED <<pc, err>>
            BY <4>3, <5>2
          <6>2. QED
            BY <5>1, <6>1 DEF TypeOK
        <5>3. CASE archive[n] # "ok"
          <6>1. content' = [content EXCEPT ![p] = <<>>] /\ Fail("entry")
            BY <4>3, <5>3
          <6>2. QED
            BY <6>1 DEF Fail, TypeOK, PCs, Errors
        <5>4. QED
          BY <5>2, <5>3
      <4>4. QED
        BY <2>2, <4>1, <4>2, <4>3 DEF CreateFile
    <3>3. QED
      BY <2>0, <3>1, <3>2 DEF TypeOK
  <2>3. QED
    BY <1>4, <2>1, <2>2 DEF Filtered
<1>5. CASE PrepareDone
  BY <1>5 DEF PrepareDone, TypeOK, PCs
<1>6. CASE LinearDone \/ FilteredDone
  BY <1>6 DEF LinearDone, FilteredDone, TypeOK, PCs
<1>7. CASE UNCHANGED vars
  BY <1>7 DEF vars, TypeOK
<1>8. ASSUME NEW n \in DOMAIN archive, LinearSkipped(n) PROVE TypeOK'
  BY <1>8 DEF LinearSkipped, Fail, TypeOK, PCs, Errors
<1>9. QED
  BY <1>1, <1>2, <1>3, <1>4, <1>5, <1>6, <1>7, <1>8 DEF Next
(* The type invariant holds in every state of every behaviour.             *)
THEOREM TypeCorrect == Spec => []TypeOK
<1>1. Init => TypeOK
  BY TreesAssumption DEF Init, TypeOK, PCs, Errors
<1>2. TypeOK /\ [Next]_vars => TypeOK'
  BY TypeOKStep
<1>3. QED
  BY <1>1, <1>2, PTL DEF Spec

-----------------------------------------------------------------------------
(***************************************************************************)
(* No file outside the output directory, when the output directory holds   *)
(* no link to a file.  The run MCExtractLinkFile shows that the hypothesis *)
(* is needed: File::create follows a link at the destination itself.      *)
(*                                                                         *)
(* NoFileOutsideRoot is not inductive: a touched file could come to lie    *)
(* below a link if a step could turn one of its directories into a link.   *)
(* The strengthening says that no link to a file is ever present and that  *)
(* no touched path has a link to a directory among its directories; every *)
(* step only turns absent paths into directories or files (FsGrows), so    *)
(* both are kept, and create_file adds a path to touched only when its     *)
(* containing directory passed the starts_with check (DirInside).          *)
(***************************************************************************)
NoLinkFileTrees == \A t \in Trees : \A p \in Paths : t[p] # "linkfile"

LinkFree == \A p \in Paths : fs[p] # "linkfile"

TouchedInside == \A p \in touched : ~UnderLinkDir(p)

IInv == TypeOK /\ LinkFree /\ TouchedInside

(* A step only turns absent paths into directories and files.             *)
FsGrows ==
  \A q \in Paths : fs'[q] = fs[q] \/ (fs[q] = "none" /\ fs'[q] \in {"dir", "file"})

(* create_file only adds directories and a file, and touches p only when   *)
(* its containing directory passed the starts_with check.                  *)
LEMMA CreateFileGrows ==
  ASSUME TypeOK, NEW p \in Paths,
         NEW ACTION Skip, NEW ACTION Create, NEW STATE own,
         CreateFile(p, Skip, Create, own)
  PROVE  /\ FsGrows
         /\ \/ touched' = touched
            \/ touched' = touched \cup {p} /\ DirInside(p)
<1>1. NewDirs(p) \subseteq {q \in Paths : fs[q] = "none"}
  BY DEF NewDirs
<1>2. QED
  BY <1>1 DEF CreateFile, MkdirEffect, FsGrows, TypeOK

(* Every step keeps FsGrows, and adds to touched only paths that passed    *)
(* the check.                                                              *)
LEMMA StepGrows ==
  ASSUME TypeOK, [Next]_vars
  PROVE  /\ FsGrows
         /\ \A p \in touched' \ touched : p \in Paths /\ DirInside(p)
<1>1. CASE Start \/ PrepareDone \/ LinearDone \/ FilteredDone \/ UNCHANGED vars
  BY <1>1 DEF Start, PrepareDone, LinearDone, FilteredDone, vars, FsGrows
<1>2. ASSUME NEW n \in todo, LinearWrite(n)
      PROVE  FsGrows /\ touched' = touched
  BY <1>2 DEF LinearWrite, FsGrows
<1>3. ASSUME NEW n \in todo, Prepare(n)
      PROVE  /\ FsGrows
             /\ \A p \in touched' \ touched : p \in Paths /\ DirInside(p)
  <2>1. CASE Dest(n) \notin Paths
    BY <1>3, <2>1 DEF Prepare, FsGrows
  <2>2. ASSUME NEW p \in Paths, p = Dest(n),
               CreateFile(p,
                 UNCHANGED <<pc, err, export>>,
                 /\ content' = [content EXCEPT ![p] = <<>>]
                 /\ export' = export \cup {<<n, p>>}
                 /\ UNCHANGED <<pc, err>>,
                 export)
        PROVE  /\ FsGrows
               /\ \A q \in touched' \ touched : q \in Paths /\ DirInside(q)
    BY <2>2, CreateFileGrows
  <2>3. QED
    BY <1>3, <2>1, <2>2 DEF Prepare
<1>4. ASSUME NEW n \in todo, Filtered(n)
      PROVE  /\ FsGrows
             /\ \A p \in touched' \ touched : p \in Paths /\ DirInside(p)
  <2>1. CASE UNCHANGED <<pc, fs, content, touched, madeDirs, err>>
    BY <2>1 DEF FsGrows
  <2>2. ASSUME NEW p \in Paths, p = Dest(n),
               CreateFile(p,
                 UNCHANGED <<pc, err>>,
                 IF archive[n] = "ok"
                 THEN content' = [content EXCEPT ![p] = <<n>>] /\ UNCHANGED <<pc, err>>
                 ELSE content' = [content EXCEPT ![p] = <<>>] /\ Fail("entry"),
                 <<>>)
        PROVE  /\ FsGrows
               /\ \A q \in touched' \ touched : q \in Paths /\ DirInside(q)
    BY <2>2, CreateFileGrows
  <2>3. QED
    BY <1>4, <2>1, <2>2 DEF Filtered
<1>5. ASSUME NEW n \in DOMAIN archive, LinearSkipped(n)
      PROVE  FsGrows /\ touched' = touched
  BY <1>5 DEF LinearSkipped, FsGrows
<1>6. QED
  BY <1>1, <1>2, <1>3, <1>4, <1>5 DEF Next

(* A path not below a link to a directory stays so.                        *)
LEMMA NotUnderLinkDirStable ==
  ASSUME TypeOK, FsGrows, NEW p \in Paths, ~UnderLinkDir(p)
  PROVE  ~UnderLinkDir(p)'
<1> SUFFICES ASSUME NEW k \in 1..Len(p) - 1, fs'[Pre(p, k)] = "linkdir"
             PROVE  FALSE
  BY DEF UnderLinkDir
<1>1. Pre(p, k) \in Paths
  BY PreInPaths
<1>2. fs[Pre(p, k)] = "linkdir"
  BY <1>1 DEF FsGrows
<1>3. QED
  BY <1>2 DEF UnderLinkDir

(* No file outside the output directory is ever created or written, when   *)
(* no tree holds a link to a file (create_file's starts_with check).       *)
THEOREM NoFileOutsideRootThm ==
  ASSUME NoLinkFileTrees
  PROVE  Spec => []NoFileOutsideRoot
<1>1. Init => IInv
  BY TreesAssumption
     DEF Init, IInv, TypeOK, PCs, Errors, LinkFree, TouchedInside, NoLinkFileTrees
<1>2. IInv /\ [Next]_vars => IInv'
  <2> SUFFICES ASSUME IInv, [Next]_vars PROVE IInv'
    OBVIOUS
  <2>1. TypeOK'
    BY TypeOKStep DEF IInv
  <2>2. FsGrows /\ \A p \in touched' \ touched : p \in Paths /\ DirInside(p)
    BY StepGrows DEF IInv
  <2>3. LinkFree'
    BY <2>2 DEF IInv, LinkFree, FsGrows
  <2>4. TouchedInside'
    <3> SUFFICES ASSUME NEW p \in touched' PROVE ~UnderLinkDir(p)'
      BY DEF TouchedInside
    <3>1. p \in Paths
      BY <2>1 DEF TypeOK
    <3>2. ~UnderLinkDir(p)
      <4>1. CASE p \in touched
        BY <4>1 DEF IInv, TouchedInside
      <4>2. CASE p \notin touched
        BY <2>2, <4>2 DEF DirInside, UnderLinkDir, Links
      <4>3. QED
        BY <4>1, <4>2
    <3>3. QED
      BY <2>2, <3>1, <3>2, NotUnderLinkDirStable DEF IInv
  <2>5. QED
    BY <2>1, <2>3, <2>4 DEF IInv
<1>3. IInv => NoFileOutsideRoot
  BY DEF IInv, TypeOK, LinkFree, TouchedInside, NoFileOutsideRoot
<1>4. QED
  BY <1>1, <1>2, <1>3, PTL DEF Spec

-----------------------------------------------------------------------------
(***************************************************************************)
(* Only selected entries are written, each at its own destination.  The    *)
(* strengthening: the prepare/linear path is taken only with the matcher   *)
(* Anything (main.rs 474), so every name it handles is selected; every     *)
(* pair of the export map is a name and the path get_extracted_path gives  *)
(* it; every touched path is the destination of a selected name of the     *)
(* archive; and every file holds only selected names with that path as     *)
(* destination.  The archive and the matcher never change.                 *)
(***************************************************************************)
LinearOnlyAnything == pc \in {"prepare", "linear"} => filter.kind = "anything"

ExportSelected ==
  \A e \in export : Matches(filter, e[1]) /\ Dest(e[1]) = e[2]

TouchedSelected ==
  \A p \in touched : \E n \in DOMAIN archive : Matches(filter, n) /\ Dest(n) = p

ContentSelected ==
  \A p \in Paths : \A i \in 1..Len(content[p]) :
    Matches(filter, content[p][i]) /\ Dest(content[p][i]) = p

SelInv ==
  /\ TypeOK
  /\ LinearOnlyAnything
  /\ ExportSelected
  /\ TouchedSelected
  /\ ContentSelected

(* get_extracted_path gives the destination the spec describes.           *)
LEMMA DestIsSpecDest ==
  ASSUME NEW n
  PROVE  Dest(n) = SpecDest(n)
BY DEF Dest, SpecDest, HasParentDir, IsNormal

(* With the matcher Anything every name is selected.                      *)
LEMMA AnythingMatches ==
  ASSUME NEW f, f.kind = "anything", NEW n
  PROVE  Matches(f, n)
BY DEF Matches

(***************************************************************************)
(* create_file touches at most p; unless the caller's continuation for a   *)
(* created file runs, the content is unchanged and so is the caller's own  *)
(* state, or the skip continuation runs.                                   *)
(***************************************************************************)
LEMMA CreateFileShape ==
  ASSUME NEW p, NEW ACTION Skip, NEW ACTION Create, NEW STATE own,
         CreateFile(p, Skip, Create, own)
  PROVE  /\ touched' \subseteq touched \cup {p}
         /\ \/ Create
            \/ content' = content /\ (Skip \/ own' = own)
BY DEF CreateFile

(* Replacing the file at p by selected names with destination p.          *)
LEMMA ContentUpdate ==
  ASSUME ContentSelected, NEW p \in Paths, NEW s \in Seq(DOMAIN archive),
         \A i \in 1..Len(s) : Matches(filter, s[i]) /\ Dest(s[i]) = p,
         content \in [Paths -> Seq(DOMAIN archive)],
         content' = [content EXCEPT ![p] = s], filter' = filter
  PROVE  ContentSelected'
BY DEF ContentSelected

(* Every step keeps SelInv.                                                *)
LEMMA SelInvStep == SelInv /\ [Next]_vars => SelInv'
<1> SUFFICES ASSUME SelInv, [Next]_vars PROVE SelInv'
  OBVIOUS
<1>0. TypeOK'
  BY TypeOKStep DEF SelInv
<1>1. CASE Start
  BY <1>0, <1>1 DEF Start, Fail, SelInv, LinearOnlyAnything, ExportSelected,
                    TouchedSelected, ContentSelected
<1>2. ASSUME NEW n \in todo, Prepare(n) PROVE SelInv'
  <2>0. /\ pc = "prepare" /\ UNCHANGED <<archive, filter>>
        /\ Matches(filter, n) /\ n \in DOMAIN archive
    <3>1. pc = "prepare" /\ UNCHANGED <<archive, filter>>
      BY <1>2 DEF Prepare
    <3>2. filter.kind = "anything"
      BY <3>1 DEF SelInv, LinearOnlyAnything
    <3>3. QED
      BY <3>1, <3>2, AnythingMatches DEF SelInv, TypeOK
  <2>1. CASE Dest(n) \notin Paths /\ UNCHANGED <<pc, content, export, touched>>
    BY <1>0, <2>0, <2>1 DEF SelInv, LinearOnlyAnything, ExportSelected,
                            TouchedSelected, ContentSelected
  <2>2. ASSUME NEW p \in Paths, p = Dest(n),
               CreateFile(p,
                 UNCHANGED <<pc, err, export>>,
                 /\ content' = [content EXCEPT ![p] = <<>>]
                 /\ export' = export \cup {<<n, p>>}
                 /\ UNCHANGED <<pc, err>>,
                 export)
        PROVE SelInv'
    <3>1. touched' \subseteq touched \cup {p}
      BY <2>2, CreateFileShape
    <3>2. TouchedSelected'
      BY <2>0, <2>2, <3>1 DEF SelInv, TouchedSelected
    <3>3. pc' \in {pc, "failed"}
      BY <2>2 DEF CreateFile, Fail
    <3>4. LinearOnlyAnything'
      BY <2>0, <3>3 DEF SelInv, LinearOnlyAnything
    <3>5. CASE /\ content' = [content EXCEPT ![p] = <<>>]
               /\ export' = export \cup {<<n, p>>}
      <4>1. ContentSelected'
        <5>1. /\ <<>> \in Seq(DOMAIN archive)
              /\ \A i \in 1..Len(<<>>) : Matches(filter, <<>>[i]) /\ Dest(<<>>[i]) = p
          OBVIOUS
        <5>2. QED
          BY <2>0, <3>5, <5>1, ContentUpdate DEF SelInv, TypeOK
      <4>2. ExportSelected'
        BY <2>0, <2>2, <3>5 DEF SelInv, ExportSelected
      <4>3. QED
        BY <1>0, <3>2, <3>4, <4>1, <4>2 DEF SelInv
    <3>6. CASE content' = content /\ export' = export
      BY <1>0, <2>0, <3>2, <3>4, <3>6 DEF SelInv, ExportSelected, ContentSelected
    <3>7. QED
      <4>1. \/ content' = [content EXCEPT ![p] = <<>>] /\ export' = export \cup {<<n, p>>}
            \/ content' = content /\ export' = export
        BY <2>2 DEF CreateFile
      <4>2. QED
        BY <3>5, <3>6, <4>1
  <2>3. QED
    BY <1>2, <2>1, <2>2 DEF Prepare
<1>3. ASSUME NEW n \in todo, LinearWrite(n) PROVE SelInv'
  <2>1. PICK e \in export : e[1] = n /\ LinearWriteTo(n, e[2])
    BY <1>3 DEF LinearWrite
  <2>2. /\ UNCHANGED <<archive, filter, export, touched>> /\ pc = "linear"
        /\ e[2] \in Paths /\ n \in DOMAIN archive
        /\ Matches(filter, n) /\ Dest(n) = e[2]
    BY <1>3, <2>1 DEF LinearWrite, SelInv, TypeOK, ExportSelected
  <2>3. pc' \in {pc, "failed"}
    BY <2>1 DEF LinearWriteTo, Fail
  <2>4. ContentSelected'
    <3>1. CASE content' = [content EXCEPT ![e[2]] = Append(content[e[2]], n)]
      <4>1. content[e[2]] \in Seq(DOMAIN archive)
        BY <2>2 DEF SelInv, TypeOK
      <4>2. \A i \in 1..Len(content[e[2]]) :
              Matches(filter, content[e[2]][i]) /\ Dest(content[e[2]][i]) = e[2]
        BY <2>2 DEF SelInv, ContentSelected
      <4>3. LET s == Append(content[e[2]], n)
            IN  /\ s \in Seq(DOMAIN archive)
                /\ \A i \in 1..Len(s) : Matches(filter, s[i]) /\ Dest(s[i]) = e[2]
        BY <2>2, <4>1, <4>2
      <4>4. QED
        BY <2>2, <3>1, <4>3, ContentUpdate DEF SelInv, TypeOK
    <3>2. CASE content' = content
      BY <2>2, <3>2 DEF SelInv, ContentSelected
    <3>3. QED
      BY <2>1, <3>1, <3>2 DEF LinearWriteTo
  <2>5. QED
    BY <1>0, <2>2, <2>3, <2>4 DEF SelInv, LinearOnlyAnything, ExportSelected,
                                  TouchedSelected
<1>4. ASSUME NEW n \in todo, Filtered(n) PROVE SelInv'
  <2>0. /\ pc = "filtered" /\ UNCHANGED <<archive, filter, export>>
        /\ n \in DOMAIN archive
    BY <1>4 DEF Filtered, SelInv, TypeOK
  <2>1. CASE UNCHANGED <<pc, content, touched>>
    BY <1>0, <2>0, <2>1 DEF SelInv, LinearOnlyAnything, ExportSelected,
                            TouchedSelected, ContentSelected
  <2>2. ASSUME NEW p \in Paths, Matches(filter, n), p = Dest(n),
               CreateFile(p,
                 UNCHANGED <<pc, err>>,
                 IF archive[n] = "ok"
                 THEN content' = [content EXCEPT ![p] = <<n>>] /\ UNCHANGED <<pc, err>>
                 ELSE content' = [content EXCEPT ![p] = <<>>] /\ Fail("entry"),
                 <<>>)
        PROVE SelInv'
    <3>1. touched' \subseteq touched \cup {p}
      BY <2>2, CreateFileShape
    <3>2. TouchedSelected'
      BY <2>0, <2>2, <3>1 DEF SelInv, TouchedSelected
    <3>3. pc' \in {pc, "failed"}
      BY <2>2 DEF CreateFile, Fail
    <3>4. LinearOnlyAnything' /\ ExportSelected'
      BY <2>0, <3>3 DEF SelInv, LinearOnlyAnything, ExportSelected
    <3>5. ContentSelected'
      <4>1. CASE content' = [content EXCEPT ![p] = <<n>>]
        <5>1. /\ <<n>> \in Seq(DOMAIN archive)
              /\ \A i \in 1..Len(<<n>>) : Matches(filter, <<n>>[i]) /\ Dest(<<n>>[i]) = p
          BY <2>0, <2>2
        <5>2. QED
          BY <2>0, <4>1, <5>1, ContentUpdate DEF SelInv, TypeOK
      <4>2. CASE content' = [content EXCEPT ![p] = <<>>]
        <5>1. /\ <<>> \in Seq(DOMAIN archive)
              /\ \A i \in 1..Len(<<>>) : Matches(filter, <<>>[i]) /\ Dest(<<>>[i]) = p
          OBVIOUS
        <5>2. QED
          BY <2>0, <4>2, <5>1, ContentUpdate DEF SelInv, TypeOK
      <4>3. CASE content' = content
        BY <2>0, <4>3 DEF SelInv, ContentSelected
      <4>4. QED
        <5>1. \/ content' = [content EXCEPT ![p] = <<n>>]
              \/ content' = [content EXCEPT ![p] = <<>>]
              \/ content' = content
          BY <2>2 DEF CreateFile
        <5>2. QED
          BY <4>1, <4>2, <4>3, <5>1
    <3>6. QED
      BY <1>0, <3>2, <3>4, <3>5 DEF SelInv
  <2>3. QED
    BY <1>4, <2>1, <2>2 DEF Filtered
<1>5. CASE PrepareDone \/ LinearDone \/ FilteredDone \/ UNCHANGED vars
  BY <1>0, <1>5 DEF PrepareDone, LinearDone, FilteredDone, vars, SelInv,
                    LinearOnlyAnything, ExportSelected, TouchedSelected, ContentSelected
<1>6. ASSUME NEW n \in DOMAIN archive, LinearSkipped(n) PROVE SelInv'
  BY <1>0, <1>6 DEF LinearSkipped, Fail, SelInv, LinearOnlyAnything, ExportSelected,
                    TouchedSelected, ContentSelected
<1>7. QED
  BY <1>1, <1>2, <1>3, <1>4, <1>5, <1>6 DEF Next

(***************************************************************************)
(* WrittenOnlyAtSelectedDest for every archive, tree, matcher and depth:   *)
(* every file extract creates, truncates or appends to (create_file, the   *)
(* filtered loop's io::copy, the FileWriters of linear_extract) is the     *)
(* destination of a selected entry and holds only the data of selected     *)
(* entries whose destination it is.                                        *)
(***************************************************************************)
THEOREM WrittenOnlyAtSelectedDestThm == Spec => []WrittenOnlyAtSelectedDest
<1>1. Init => SelInv
  BY TreesAssumption
     DEF Init, SelInv, TypeOK, PCs, Errors, LinearOnlyAnything, ExportSelected,
         TouchedSelected, ContentSelected
<1>2. SelInv => WrittenOnlyAtSelectedDest
  <2> SUFFICES ASSUME SelInv, NEW p \in touched
               PROVE  /\ \E n \in DOMAIN archive : Matches(filter, n) /\ SpecDest(n) = p
                      /\ \A i \in 1..Len(content[p]) :
                           Matches(filter, content[p][i]) /\ SpecDest(content[p][i]) = p
    BY DEF WrittenOnlyAtSelectedDest
  <2>1. \E n \in DOMAIN archive : Matches(filter, n) /\ SpecDest(n) = p
    BY DestIsSpecDest DEF SelInv, TouchedSelected
  <2>2. p \in Paths
    BY DEF SelInv, TypeOK
  <2>3. \A i \in 1..Len(content[p]) :
          Matches(filter, content[p][i]) /\ SpecDest(content[p][i]) = p
    BY <2>2, DestIsSpecDest DEF SelInv, ContentSelected
  <2>4. QED
    BY <2>1, <2>3
<1>3. QED
  BY <1>1, <1>2, SelInvStep, PTL DEF Spec

-----------------------------------------------------------------------------
(***************************************************************************)
(* Every deliverable entry is delivered.  An entry is good when it is      *)
(* selected, readable and has a destination whose directories are not     *)
(* links; links never appear or disappear, so an entry stays good or not   *)
(* good for the whole run.  The strengthening, by path:                   *)
(*  - filtered loop (main.rs 491-527): every name handled sorts before     *)
(*    every name still to visit, and a good handled name that sorts after  *)
(*    every other good handled name with its destination is alone in its  *)
(*    file (File::create truncated it, io::copy wrote it);                 *)
(*  - prepare loop (479-487): every good handled name has its FileWriter   *)
(*    in the export map;                                                   *)
(*  - linear_extract: every good name has its FileWriter, and is still to  *)
(*    write or is in its file.                                             *)
(***************************************************************************)
Good(n) ==
  /\ Matches(filter, n)
  /\ archive[n] = "ok"
  /\ Dest(n) \in Paths
  /\ DirInside(Dest(n))

Handled == DOMAIN archive \ todo

FilteredOnlyNotAnything == pc = "filtered" => filter.kind # "anything"

DoneInv == pc = "done" => todo = {}

FilteredOrderInv ==
  pc \in {"filtered", "done"} /\ filter.kind # "anything" =>
    \A n \in Handled, m \in todo : NameLt(n, m)

FilteredLastInv ==
  pc \in {"filtered", "done"} /\ filter.kind # "anything" =>
    \A n \in Handled :
      (/\ Good(n)
       /\ \A m \in Handled \ {n} : Good(m) /\ Dest(m) = Dest(n) => NameLt(m, n))
      => content[Dest(n)] = <<n>>

PrepareInv ==
  pc = "prepare" => \A n \in Handled : Good(n) => <<n, Dest(n)>> \in export

LinearInv ==
  pc \in {"linear", "done"} /\ filter.kind = "anything" =>
    \A n \in DOMAIN archive :
      Good(n) =>
        /\ <<n, Dest(n)>> \in export
        /\ n \in todo \/ \E i \in 1..Len(content[Dest(n)]) : content[Dest(n)][i] = n

CompInv ==
  /\ SelInv
  /\ FilteredOnlyNotAnything
  /\ DoneInv
  /\ FilteredOrderInv
  /\ FilteredLastInv
  /\ PrepareInv
  /\ LinearInv

(* Every character of a rendered name has a byte value.                   *)
LEMMA ByteIsInt ==
  ASSUME NEW c \in RenderedChars
  PROVE  Byte(c) \in Int
BY NamesAssumption DEF RenderedChars, Byte, CurDir, RootDir, ParentDir

(***************************************************************************)
(* The byte order of strings (Ord for String) is asymmetric: no two        *)
(* strings of rendered characters each sort before the other.             *)
(***************************************************************************)
LEMMA StrLtAsymmetric ==
  ASSUME NEW s \in Seq(RenderedChars), NEW t \in Seq(RenderedChars),
         StrLt(s, t)
  PROVE  ~StrLt(t, s)
<1> SUFFICES ASSUME StrLt(t, s) PROVE FALSE
  OBVIOUS
<1>1. PICK a \in 0..Len(s) :
        /\ a <= Len(t) /\ Pre(s, a) = Pre(t, a)
        /\ \/ a = Len(s) /\ a < Len(t)
           \/ a < Len(s) /\ a < Len(t) /\ Byte(s[a + 1]) < Byte(t[a + 1])
  BY DEF StrLt
<1>2. PICK b \in 0..Len(t) :
        /\ b <= Len(s) /\ Pre(t, b) = Pre(s, b)
        /\ \/ b = Len(t) /\ b < Len(s)
           \/ b < Len(t) /\ b < Len(s) /\ Byte(t[b + 1]) < Byte(s[b + 1])
  BY DEF StrLt
<1>3. CASE a < b
  <2>1. a < Len(s) /\ a < Len(t)
    BY <1>1, <1>2, <1>3
  <2>2. s[a + 1] = t[a + 1]
    <3>1. Pre(t, b)[a + 1] = t[a + 1] /\ Pre(s, b)[a + 1] = s[a + 1]
      BY <1>1, <1>2, <1>3 DEF Pre
    <3>2. QED
      BY <1>2, <3>1
  <2>3. Byte(s[a + 1]) \in Int
    BY <2>1, ByteIsInt
  <2>4. QED
    BY <1>1, <2>1, <2>2, <2>3
<1>4. CASE b < a
  <2>1. b < Len(s) /\ b < Len(t)
    BY <1>1, <1>2, <1>4
  <2>2. s[b + 1] = t[b + 1]
    <3>1. Pre(t, a)[b + 1] = t[b + 1] /\ Pre(s, a)[b + 1] = s[b + 1]
      BY <1>1, <1>2, <1>4 DEF Pre
    <3>2. QED
      BY <1>1, <3>1
  <2>3. Byte(t[b + 1]) \in Int
    BY <2>1, ByteIsInt
  <2>4. QED
    BY <1>2, <2>1, <2>2, <2>3
<1>5. CASE a = b
  <2>1. CASE a < Len(s) /\ a < Len(t)
    <3>1. Byte(s[a + 1]) \in Int /\ Byte(t[a + 1]) \in Int
      BY <2>1, ByteIsInt
    <3>2. QED
      BY <1>1, <1>2, <1>5, <2>1, <3>1
  <2>2. QED
    BY <1>1, <1>2, <1>5, <2>1
<1>6. QED
  BY <1>3, <1>4, <1>5

(* Two names of an archive never sort before each other.                  *)
LEMMA NameLtAsymmetric ==
  ASSUME RenderTyped, NEW a \in Archives, NEW n \in DOMAIN a, NEW m \in DOMAIN a,
         NameLt(n, m)
  PROVE  ~NameLt(m, n)
<1>1. Render(n) \in Seq(RenderedChars) /\ Render(m) \in Seq(RenderedChars)
  BY DEF RenderTyped
<1>2. QED
  BY <1>1, StrLtAsymmetric DEF NameLt

(* Links neither appear nor disappear, so goodness never changes.          *)
LEMMA GoodStable ==
  ASSUME TypeOK, FsGrows, archive' = archive, filter' = filter, NEW x
  PROVE  Good(x)' <=> Good(x)
<1>1. CASE Dest(x) \in Paths
  <2>1. \A k \in 1..Len(Dest(x)) - 1 : fs'[Pre(Dest(x), k)] \in Links <=> fs[Pre(Dest(x), k)] \in Links
    <3> SUFFICES ASSUME NEW k \in 1..Len(Dest(x)) - 1
                 PROVE  fs'[Pre(Dest(x), k)] \in Links <=> fs[Pre(Dest(x), k)] \in Links
      OBVIOUS
    <3>1. Pre(Dest(x), k) \in Paths
      <4>1. Dest(x) \in Seq(NormalNames)
        BY <1>1 DEF Paths
      <4>2. k \in 1..Len(Dest(x))
        BY <4>1
      <4>3. QED
        BY <1>1, <4>2, PreInPaths
    <3>2. QED
      BY <3>1 DEF FsGrows, Links
  <2>2. DirInside(Dest(x))' <=> DirInside(Dest(x))
    BY <2>1 DEF DirInside
  <2>3. QED
    BY <2>2 DEF Good
<1>2. CASE Dest(x) \notin Paths
  BY <1>2 DEF Good
<1>3. QED
  BY <1>1, <1>2

(* The spec's deliverable entries are the good ones.                       *)
LEMMA DeliverableIsGood ==
  ASSUME NEW n
  PROVE  Deliverable(n) <=> Good(n)
BY DestIsSpecDest DEF Deliverable, Good, DirInside

(* What every step of extract keeps: SelInv, the archive, the matcher, the *)
(* links, and so which names are good.                                     *)
LEMMA CompBasics ==
  ASSUME CompInv, [Next]_vars
  PROVE  /\ SelInv'
         /\ archive' = archive /\ filter' = filter
         /\ FsGrows
         /\ \A x : Good(x)' <=> Good(x)
<1>1. SelInv'
  BY SelInvStep DEF CompInv
<1>2. archive' = archive /\ filter' = filter
  BY DEF Next, Start, Prepare, PrepareDone, LinearWrite, LinearSkipped, LinearDone,
         Filtered, FilteredDone, vars
<1>3. FsGrows
  BY StepGrows DEF CompInv, SelInv
<1>4. \A x : Good(x)' <=> Good(x)
  BY <1>2, <1>3, GoodStable DEF CompInv, SelInv
<1>5. QED
  BY <1>1, <1>2, <1>3, <1>4

(* A run that has failed keeps CompInv: it only speaks of running states.  *)
LEMMA CompFailed ==
  ASSUME SelInv', pc' = "failed"
  PROVE  CompInv'
BY DEF CompInv, FilteredOnlyNotAnything, DoneInv, FilteredOrderInv, FilteredLastInv,
       PrepareInv, LinearInv

(* The start of extract: no name is handled yet.                           *)
LEMMA CompStart ==
  ASSUME CompInv, Start
  PROVE  CompInv'
<1>0. SelInv'
  BY CompBasics DEF Next
<1>1. CASE pc' = "failed"
  BY <1>0, <1>1, CompFailed
<1>2. CASE pc' # "failed"
  <2>1. /\ pc' = IF filter.kind = "anything" THEN "prepare" ELSE "filtered"
        /\ todo' = DOMAIN archive /\ UNCHANGED <<archive, filter>>
    BY <1>2 DEF Start, Fail
  <2>2. Handled' = {}
    BY <2>1 DEF Handled
  <2>3. QED
    BY <1>0, <2>1, <2>2
       DEF CompInv, FilteredOnlyNotAnything, DoneInv, FilteredOrderInv, FilteredLastInv,
           PrepareInv, LinearInv
<1>3. QED
  BY <1>1, <1>2

(* The ends of the loops, and stuttering.                                  *)
LEMMA CompEnds ==
  ASSUME CompInv, LinearDone \/ FilteredDone \/ UNCHANGED vars
  PROVE  CompInv'
<1>0. /\ SelInv' /\ \A x : Good(x)' <=> Good(x)
      /\ UNCHANGED <<archive, filter, todo, content, export>>
  <2>1. UNCHANGED <<todo, content, export>>
    BY DEF LinearDone, FilteredDone, vars
  <2>2. QED
    BY <2>1, CompBasics DEF Next
<1>1. CASE UNCHANGED vars
  BY <1>0, <1>1
     DEF vars, CompInv, FilteredOnlyNotAnything, DoneInv, FilteredOrderInv, FilteredLastInv,
         PrepareInv, LinearInv, Handled
<1>2. CASE LinearDone
  <2>1. pc = "linear" /\ pc' = "done" /\ todo = {} /\ filter.kind = "anything"
    BY <1>2 DEF LinearDone, CompInv, SelInv, LinearOnlyAnything
  <2>2. QED
    BY <1>0, <2>1
       DEF CompInv, FilteredOnlyNotAnything, DoneInv, FilteredOrderInv, FilteredLastInv,
           PrepareInv, LinearInv, Handled
<1>3. CASE FilteredDone
  <2>1. pc = "filtered" /\ pc' = "done" /\ todo = {} /\ filter.kind # "anything"
    BY <1>3 DEF FilteredDone, CompInv, FilteredOnlyNotAnything
  <2>2. FilteredLastInv'
    BY <1>0, <2>1 DEF CompInv, FilteredLastInv, Handled
  <2>3. QED
    BY <1>0, <2>1, <2>2
       DEF CompInv, FilteredOnlyNotAnything, DoneInv, FilteredOrderInv,
           PrepareInv, LinearInv, Handled
<1>4. QED
  BY <1>1, <1>2, <1>3

(* linear_extract begins: every good name has its FileWriter, and all of   *)
(* them are still to write.                                                *)
LEMMA CompPrepareDone ==
  ASSUME CompInv, PrepareDone
  PROVE  CompInv'
<1>0. /\ SelInv' /\ \A x : Good(x)' <=> Good(x)
      /\ UNCHANGED <<archive, filter, content, export>>
      /\ pc = "prepare" /\ pc' = "linear" /\ todo = {} /\ todo' = {e[1] : e \in export}
  BY CompBasics DEF Next, PrepareDone
<1>1. filter.kind = "anything"
  BY <1>0 DEF CompInv, SelInv, LinearOnlyAnything
<1>2. \A n \in DOMAIN archive : Good(n) => <<n, Dest(n)>> \in export
  BY <1>0 DEF CompInv, PrepareInv, Handled
<1>3. LinearInv'
  BY <1>0, <1>1, <1>2 DEF LinearInv
<1>4. QED
  BY <1>0, <1>3
     DEF CompInv, FilteredOnlyNotAnything, DoneInv, FilteredOrderInv, FilteredLastInv,
         PrepareInv

(* One turn of the prepare loop: a good name gets its FileWriter, unless   *)
(* create_file fails and the run ends.                                     *)
LEMMA CompPrepare ==
  ASSUME CompInv, NEW n \in todo, Prepare(n)
  PROVE  CompInv'
<1>0. /\ SelInv' /\ \A x : Good(x)' <=> Good(x)
      /\ UNCHANGED <<archive, filter>>
      /\ pc = "prepare" /\ todo' = todo \ {n} /\ n \in DOMAIN archive
  BY CompBasics DEF Next, Prepare, CompInv, SelInv, TypeOK
<1>1. CASE pc' = "failed"
  BY <1>0, <1>1, CompFailed
<1>2. CASE pc' # "failed"
  <2>1. /\ pc' = "prepare"
        /\ export \subseteq export'
        /\ Good(n) => <<n, Dest(n)>> \in export'
    <3>1. CASE Dest(n) \notin Paths /\ UNCHANGED <<pc, export>>
      BY <1>0, <3>1 DEF Good
    <3>2. ASSUME NEW p \in Paths, p = Dest(n),
                 CreateFile(p,
                   UNCHANGED <<pc, err, export>>,
                   /\ content' = [content EXCEPT ![p] = <<>>]
                   /\ export' = export \cup {<<n, p>>}
                   /\ UNCHANGED <<pc, err>>,
                   export)
          PROVE  /\ pc' = "prepare"
                 /\ export \subseteq export'
                 /\ Good(n) => <<n, Dest(n)>> \in export'
      <4>1. CASE ~DirInside(p) /\ UNCHANGED <<pc, err, export>>
        BY <1>0, <3>2, <4>1 DEF Good
      <4>2. CASE export' = export \cup {<<n, p>>} /\ UNCHANGED pc
        BY <1>0, <3>2, <4>2
      <4>3. CASE pc' = "failed"
        BY <1>2, <4>3
      <4>4. QED
        BY <3>2, <4>1, <4>2, <4>3 DEF CreateFile, Fail
    <3>3. QED
      BY <1>0, <3>1, <3>2 DEF Prepare
  <2>2. PrepareInv'
    <3> SUFFICES ASSUME NEW x \in Handled', Good(x)' PROVE <<x, Dest(x)>> \in export'
      BY <2>1 DEF PrepareInv
    <3>1. CASE x = n
      BY <1>0, <2>1, <3>1
    <3>2. CASE x # n
      <4>1. x \in Handled /\ Good(x)
        BY <1>0, <3>2 DEF Handled
      <4>2. QED
        BY <1>0, <2>1, <4>1 DEF CompInv, PrepareInv
    <3>3. QED
      BY <3>1, <3>2
  <2>3. QED
    BY <1>0, <2>1, <2>2
       DEF CompInv, FilteredOnlyNotAnything, DoneInv, FilteredOrderInv, FilteredLastInv,
           LinearInv
<1>3. QED
  BY <1>1, <1>2

(* One write of linear_extract: a good name's data is appended to its own  *)
(* file, and what other files hold stays.                                  *)
LEMMA CompLinearWrite ==
  ASSUME CompInv, NEW n \in todo, LinearWrite(n)
  PROVE  CompInv'
<1>0. /\ SelInv' /\ \A x : Good(x)' <=> Good(x)
      /\ UNCHANGED <<archive, filter, export>>
      /\ pc = "linear" /\ todo' = todo \ {n} /\ filter.kind = "anything"
  BY CompBasics DEF Next, LinearWrite, CompInv, SelInv, LinearOnlyAnything
<1>1. CASE pc' = "failed"
  BY <1>0, <1>1, CompFailed
<1>2. CASE pc' # "failed"
  <2>1. PICK e \in export : e[1] = n /\ LinearWriteTo(n, e[2])
    BY DEF LinearWrite
  <2>2. e[2] = Dest(n) /\ e[2] \in Paths /\ content \in [Paths -> Seq(DOMAIN archive)]
    BY <2>1 DEF CompInv, SelInv, ExportSelected, TypeOK
  <2>3. /\ pc' = "linear"
        /\ \/ content' = content
           \/ content' = [content EXCEPT ![e[2]] = Append(content[e[2]], n)]
        /\ archive[n] = "ok" => content' = [content EXCEPT ![e[2]] = Append(content[e[2]], n)]
    BY <1>0, <1>2, <2>1 DEF LinearWriteTo, Fail
  <2>4. LinearInv'
    <3> SUFFICES ASSUME NEW x \in DOMAIN archive, Good(x)
                 PROVE  /\ <<x, Dest(x)>> \in export
                        /\ x \in todo' \/ \E i \in 1..Len(content'[Dest(x)]) : content'[Dest(x)][i] = x
      BY <1>0, <2>3 DEF LinearInv
    <3>1. <<x, Dest(x)>> \in export /\ (x \in todo \/ \E i \in 1..Len(content[Dest(x)]) : content[Dest(x)][i] = x)
      BY <1>0 DEF CompInv, LinearInv
    <3>2. Dest(x) \in Paths
      BY DEF Good
    <3>3. CASE x = n
      <4>1. content'[Dest(n)] = Append(content[Dest(n)], n)
        BY <2>2, <2>3, <3>3 DEF Good
      <4>2. QED
        BY <2>2, <3>1, <3>3, <4>1
    <3>4. CASE x # n /\ x \in todo
      BY <1>0, <3>1, <3>4
    <3>5. CASE x # n /\ x \notin todo
      <4>1. PICK i \in 1..Len(content[Dest(x)]) : content[Dest(x)][i] = x
        BY <3>1, <3>5
      <4>2. content'[Dest(x)] = content[Dest(x)]
            \/ content'[Dest(x)] = Append(content[Dest(x)], n)
        BY <2>2, <2>3, <3>2
      <4>3. i \in 1..Len(content'[Dest(x)]) /\ content'[Dest(x)][i] = x
        <5>1. content[Dest(x)] \in Seq(DOMAIN archive)
          BY <2>2, <3>2
        <5>2. CASE content'[Dest(x)] = content[Dest(x)]
          BY <4>1, <5>2
        <5>3. CASE content'[Dest(x)] = Append(content[Dest(x)], n)
          BY <4>1, <5>1, <5>3
        <5>4. QED
          BY <4>2, <5>2, <5>3
      <4>4. QED
        BY <3>1, <4>3
    <3>6. QED
      BY <3>3, <3>4, <3>5
  <2>5. QED
    BY <1>0, <2>3, <2>4
       DEF CompInv, FilteredOnlyNotAnything, DoneInv, FilteredOrderInv, FilteredLastInv,
           PrepareInv
<1>3. QED
  BY <1>1, <1>2

(* A turn of the filtered loop that does not end the run either leaves the *)
(* files alone, for a name that is not good, or makes the good name's file *)
(* hold exactly its data (File::create truncates, io::copy writes).       *)
LEMMA FilteredShape ==
  ASSUME CompInv, NEW n \in todo, Filtered(n), pc' # "failed"
  PROVE  \/ content' = content /\ ~Good(n)
         \/ content' = [content EXCEPT ![Dest(n)] = <<n>>] /\ Good(n)
<1>1. CASE /\ ~Matches(filter, n) \/ archive[n] \in {"lookupErr", "missing"}
              \/ Dest(n) \notin Paths
           /\ UNCHANGED content
  BY <1>1 DEF Good
<1>2. ASSUME NEW p \in Paths, Matches(filter, n), archive[n] \in {"ok", "corrupt"},
             p = Dest(n),
             CreateFile(p,
               UNCHANGED <<pc, err>>,
               IF archive[n] = "ok"
               THEN content' = [content EXCEPT ![p] = <<n>>] /\ UNCHANGED <<pc, err>>
               ELSE content' = [content EXCEPT ![p] = <<>>] /\ Fail("entry"),
               <<>>)
      PROVE  \/ content' = content /\ ~Good(n)
             \/ content' = [content EXCEPT ![Dest(n)] = <<n>>] /\ Good(n)
  <2>1. CASE ~DirInside(p) /\ UNCHANGED content
    BY <1>2, <2>1 DEF Good
  <2>2. CASE /\ DirInside(p)
             /\ IF archive[n] = "ok"
                THEN content' = [content EXCEPT ![p] = <<n>>] /\ UNCHANGED <<pc, err>>
                ELSE content' = [content EXCEPT ![p] = <<>>] /\ Fail("entry")
    <3>1. archive[n] = "ok"
      BY <2>2 DEF Fail
    <3>2. QED
      BY <1>2, <2>2, <3>1 DEF Good
  <2>3. QED
    BY <1>2, <2>1, <2>2 DEF CreateFile, Fail
<1>3. QED
  BY <1>1, <1>2 DEF Filtered

(***************************************************************************)
(* One turn of the filtered loop.  A good name that truncates the file of  *)
(* an earlier good name sorts after it (the names are visited in sorted    *)
(* order), so the earlier name no longer sorts after every good handled    *)
(* name with its destination; by the asymmetry of the byte order this is   *)
(* the only way an earlier name's file can change.                         *)
(***************************************************************************)
LEMMA CompFiltered ==
  ASSUME RenderTyped, CompInv, NEW n \in todo, Filtered(n)
  PROVE  CompInv'
<1>0. /\ SelInv' /\ \A x : Good(x)' <=> Good(x)
      /\ UNCHANGED <<archive, filter, export>>
      /\ pc = "filtered" /\ todo' = todo \ {n} /\ filter.kind # "anything"
      /\ \A m \in todo \ {n} : NameLt(n, m)
      /\ archive \in Archives /\ n \in DOMAIN archive /\ todo \subseteq DOMAIN archive
  BY CompBasics DEF Next, Filtered, IsFirst, CompInv, FilteredOnlyNotAnything, SelInv, TypeOK
<1>1. CASE pc' = "failed"
  BY <1>0, <1>1, CompFailed
<1>2. CASE pc' # "failed"
  <2>0. pc' = "filtered"
    BY <1>0, <1>2 DEF Filtered, CreateFile, Fail
  <2>1. Handled' = Handled \cup {n}
    BY <1>0 DEF Handled
  <2>2. FilteredOrderInv'
    <3> SUFFICES ASSUME NEW x \in Handled', NEW m \in todo' PROVE NameLt(x, m)
      BY <1>0, <2>0 DEF FilteredOrderInv
    <3>1. CASE x = n
      BY <1>0, <3>1
    <3>2. CASE x # n
      BY <1>0, <2>1, <3>2 DEF CompInv, FilteredOrderInv
    <3>3. QED
      BY <3>1, <3>2
  <2>3. FilteredLastInv'
    <3> SUFFICES ASSUME NEW x \in Handled', Good(x),
                        \A m \in Handled' \ {x} : Good(m) /\ Dest(m) = Dest(x) => NameLt(m, x)
                 PROVE  content'[Dest(x)] = <<x>>
      BY <1>0, <2>0 DEF FilteredLastInv
    <3>0. /\ \/ content' = content /\ ~Good(n)
             \/ content' = [content EXCEPT ![Dest(n)] = <<n>>] /\ Good(n)
          /\ content \in [Paths -> Seq(DOMAIN archive)]
          /\ Dest(x) \in Paths
      BY <1>2, FilteredShape DEF CompInv, SelInv, TypeOK, Good
    <3>1. CASE x = n
      BY <3>0, <3>1
    <3>2. CASE x # n
      <4>1. x \in Handled
        BY <2>1, <3>2
      <4>2. content[Dest(x)] = <<x>>
        BY <1>0, <2>1, <4>1 DEF CompInv, FilteredLastInv
      <4>3. CASE content' = content
        BY <4>2, <4>3
      <4>4. CASE content' = [content EXCEPT ![Dest(n)] = <<n>>] /\ Good(n)
        <5>1. CASE Dest(x) # Dest(n)
          BY <3>0, <4>2, <4>4, <5>1
        <5>2. CASE Dest(x) = Dest(n)
          <6>1. NameLt(n, x)
            BY <2>1, <3>2, <4>4, <5>2
          <6>2. NameLt(x, n)
            BY <1>0, <4>1 DEF CompInv, FilteredOrderInv
          <6>3. x \in DOMAIN archive
            BY <4>1 DEF Handled
          <6>4. QED
            BY <1>0, <6>1, <6>2, <6>3, NameLtAsymmetric
        <5>3. QED
          BY <5>1, <5>2
      <4>5. QED
        BY <3>0, <4>3, <4>4
    <3>3. QED
      BY <3>1, <3>2
  <2>4. QED
    BY <1>0, <2>0, <2>2, <2>3
       DEF CompInv, FilteredOnlyNotAnything, DoneInv, PrepareInv, LinearInv
<1>3. QED
  BY <1>1, <1>2

(* Every step keeps CompInv.                                               *)
LEMMA CompInvStep ==
  ASSUME RenderTyped
  PROVE  CompInv /\ [Next]_vars => CompInv'
<1> SUFFICES ASSUME CompInv, [Next]_vars PROVE CompInv'
  OBVIOUS
<1>1. CASE Start
  BY <1>1, CompStart
<1>2. ASSUME NEW n \in todo, Prepare(n) \/ LinearWrite(n) \/ Filtered(n) PROVE CompInv'
  BY <1>2, CompPrepare, CompLinearWrite, CompFiltered
<1>3. CASE PrepareDone
  BY <1>3, CompPrepareDone
<1>4. CASE LinearDone \/ FilteredDone \/ UNCHANGED vars
  BY <1>4, CompEnds
<1>5. ASSUME NEW n \in DOMAIN archive, LinearSkipped(n) PROVE CompInv'
  <2>1. SelInv' /\ pc' = "failed"
    BY <1>5, CompBasics DEF LinearSkipped, Fail
  <2>2. QED
    BY <2>1, CompFailed
<1>6. QED
  BY <1>1, <1>2, <1>3, <1>4, <1>5 DEF Next

(***************************************************************************)
(* Once the loop of either path has visited every name, every good entry  *)
(* is in its file unless a good entry sorting after it has the same        *)
(* destination.                                                            *)
(***************************************************************************)
GoodDelivered ==
  \A n \in DOMAIN archive :
    (/\ Good(n)
     /\ \A m \in DOMAIN archive \ {n} : Good(m) /\ Dest(m) = Dest(n) => NameLt(m, n))
    => \E i \in 1..Len(content[Dest(n)]) : content[Dest(n)][i] = n

LEMMA CompDelivered ==
  ASSUME CompInv, todo = {}, pc \in {"linear", "filtered", "done"}
  PROVE  GoodDelivered
<1> SUFFICES ASSUME NEW n \in DOMAIN archive, Good(n),
                    \A m \in DOMAIN archive \ {n} : Good(m) /\ Dest(m) = Dest(n) => NameLt(m, n)
             PROVE  \E i \in 1..Len(content[Dest(n)]) : content[Dest(n)][i] = n
  BY DEF GoodDelivered
<1>1. Handled = DOMAIN archive
  BY DEF Handled
<1>2. CASE filter.kind = "anything"
  <2>1. pc \in {"linear", "done"}
    BY <1>2 DEF CompInv, FilteredOnlyNotAnything
  <2>2. QED
    BY <1>2, <2>1 DEF CompInv, LinearInv
<1>3. CASE filter.kind # "anything"
  <2>1. pc \in {"filtered", "done"}
    BY <1>3 DEF CompInv, SelInv, LinearOnlyAnything
  <2>2. content[Dest(n)] = <<n>>
    BY <1>1, <1>3, <2>1 DEF CompInv, FilteredLastInv
  <2>3. QED
    BY <2>2
<1>4. QED
  BY <1>2, <1>3

(***************************************************************************)
(* ExtractComplete for every archive, tree, matcher and depth whose names  *)
(* render to strings of known characters: an extract that returns Ok(())   *)
(* has put every deliverable entry in its file, unless a deliverable entry *)
(* sorting after it has the same destination (the filtered loop truncates  *)
(* with File::create, main.rs 507-515; linear_extract appends through the  *)
(* FileWriters of every entry, 479-488).                                   *)
(***************************************************************************)
THEOREM ExtractCompleteThm ==
  ASSUME RenderTyped
  PROVE  Spec => []ExtractComplete
<1>1. Init => CompInv
  BY TreesAssumption
     DEF Init, CompInv, SelInv, TypeOK, PCs, Errors, LinearOnlyAnything, ExportSelected,
         TouchedSelected, ContentSelected, FilteredOnlyNotAnything, DoneInv,
         FilteredOrderInv, FilteredLastInv, PrepareInv, LinearInv
<1>2. CompInv => ExtractComplete
  <2> SUFFICES ASSUME CompInv, pc = "done", NEW n \in DOMAIN archive, Deliverable(n),
                      \A m \in DOMAIN archive \ {n} :
                        Deliverable(m) /\ SpecDest(m) = SpecDest(n) => NameLt(m, n)
               PROVE  \E i \in 1..Len(content[SpecDest(n)]) : content[SpecDest(n)][i] = n
    BY DEF ExtractComplete
  <2>1. /\ Good(n) /\ SpecDest(n) = Dest(n)
        /\ \A m \in DOMAIN archive \ {n} : Good(m) /\ Dest(m) = Dest(n) => NameLt(m, n)
    BY DeliverableIsGood, DestIsSpecDest
  <2>2. GoodDelivered
    BY CompDelivered DEF CompInv, DoneInv
  <2>3. QED
    BY <2>1, <2>2 DEF GoodDelivered
<1>3. QED
  BY <1>1, <1>2, CompInvStep, PTL DEF Spec

=============================================================================
