------------------------------ MODULE MCExtract ------------------------------
(***************************************************************************)
(* Small instances of Extract for TLC.  Two normal components: "a", and    *)
(* "l", the name of a pre-existing link in some trees.  Paths have at most *)
(* three components, so that a name can reach two levels below a link.     *)
(***************************************************************************)
EXTENDS Extract, FiniteSets

MCNormalNames == {"a", "l"}
MCByteOf == [c \in MCNormalNames |-> IF c = "a" THEN 97 ELSE 108]
MCMaxDepth == 3

(* Entry names, as component sequences, and the strings they stand for.    *)
NA    == <<"a">>                \* "a"
NDotA == <<".", "a">>           \* "./a"
NAbsA == <<"/", "a">>           \* "/a"
NAA   == <<"a", "a">>           \* "a/a"
NUpA  == <<"..", "a">>          \* "../a"
NLA   == <<"l", "a">>           \* "l/a"
NLAA  == <<"l", "a", "a">>      \* "l/a/a"
NAAA  == <<"a", "a", "a">>      \* "a/a/a"
NRoot == <<"/">>                \* "/"

(* All archives of one to Max names of C whose data states are in D.       *)
ArchivesOf(C, D, Max) ==
  UNION { [S -> D] : S \in {S \in SUBSET C : Cardinality(S) \in 1..Max} }

(* The tree whose paths are given kinds by the pairs of S.                 *)
Tree(S) ==
  [p \in Paths |-> IF \E e \in S : e[1] = p THEN (CHOOSE e \in S : e[1] = p)[2]
                   ELSE "none"]

EmptyTree    == Tree({})
LinkDirTree  == Tree({<<<<"l">>, "linkdir">>})
LinkDirATree == Tree({<<<<"l">>, "linkdir">>, <<<<"l", "a">>, "dir">>})
FileATree    == Tree({<<<<"a">>, "file">>})
DirATree     == Tree({<<<<"a">>, "dir">>})
LinkFileTree == Tree({<<<<"a">>, "linkfile">>})

(* The 'files' argument of extract takes one value.                       *)
AnyFilter     == [kind |-> "anything"]
BadGlobFilter == [kind |-> "badglob"]
FileFilter(n) == [kind |-> "files", names |-> {n}]
GlobFilter(p) == [kind |-> "glob", pats |-> {p}]

(* The names of every instance render to strings of the characters the    *)
(* byte order knows.                                                       *)
ASSUME RenderTypedAssumption == RenderTyped

(* Run MCExtract: every name kind, every data state, every tree without a  *)
(* link to a file, every matcher.                                          *)
PassNames == {NA, NDotA, NAbsA, NAA, NAAA, NUpA, NLA, NLAA, NRoot}
PassArchives ==
  ArchivesOf(PassNames, {"ok"}, 3)
    \cup ArchivesOf(PassNames, DataStates, 2)
PassTrees == {EmptyTree, LinkDirTree, LinkDirATree, FileATree, DirATree}
PassFilters ==
  {AnyFilter, BadGlobFilter, FileFilter(NA), FileFilter(NAbsA),
   GlobFilter(<<"*">>), GlobFilter(<<"a", "*">>)}

(* Run MCExtractLinkFile: the output directory holds a link "a" to a file  *)
(* outside it, and the archive has an entry "a".                           *)
LinkFileArchives == ArchivesOf({NA, NDotA}, {"ok"}, 2)
LinkFileTrees == {LinkFileTree}
LinkFileFilters == {AnyFilter, FileFilter(NA)}

(* Run MCExtractLinkDirMkdir: the output directory holds a link "l" to a   *)
(* directory outside it, and the archive has an entry "l/a/a".             *)
LinkDirArchives == ArchivesOf({NLAA, NA}, {"ok"}, 2)
LinkDirTrees == {LinkDirTree}
LinkDirFilters == {AnyFilter, GlobFilter(<<"*">>)}

(* Run MCExtractAbort: an entry "a" and an entry "a/a", all data readable. *)
AbortArchives == ArchivesOf({NA, NAA}, {"ok"}, 2)
AbortTrees == {EmptyTree}
AbortFilters == {AnyFilter, GlobFilter(<<"*">>)}

(* Run MCExtractCollide: entries "a", "./a" and "/a" share a destination.  *)
CollideArchives == ArchivesOf({NA, NDotA, NAbsA}, {"ok"}, 3)
CollideTrees == {EmptyTree}
CollideFilters == {AnyFilter, GlobFilter(<<"*">>)}

=============================================================================
