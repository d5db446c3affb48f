-------------------------------- MODULE MCList --------------------------------
(***************************************************************************)
(* Small instances of List for TLC: names whose strings are prefixes of    *)
(* one another, so that the byte order decides.                           *)
(***************************************************************************)
EXTENDS List, FiniteSets

MCNormalNames == {"a", "l"}
MCByteOf == [c \in MCNormalNames |-> IF c = "a" THEN 97 ELSE 108]
MCMaxDepth == 2

NA    == <<"a">>          \* "a"
NL    == <<"l">>          \* "l"
NDotA == <<".", "a">>     \* "./a"
NAbsA == <<"/", "a">>     \* "/a"
NAA   == <<"a", "a">>     \* "a/a"

ListNames == {NA, NL, NDotA, NAbsA, NAA}

(* Run MCList: every archive of one to three names with any data, with and *)
(* without -v.                                                             *)
PassArchives ==
  UNION { [S -> DataStates] : S \in {S \in SUBSET ListNames : Cardinality(S) \in 1..3} }
PassVerbosities == {0, 1, 2}
=============================================================================
