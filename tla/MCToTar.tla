------------------------------- MODULE MCToTar -------------------------------
(***************************************************************************)
(* Small instances of ToTar for TLC.  Names over "a" and "l": relative,    *)
(* absolute ("/a", made "./a" by add_file_to_tar) and with a "..".         *)
(***************************************************************************)
EXTENDS ToTar, FiniteSets

MCNormalNames == {"a", "l"}
MCByteOf == [c \in MCNormalNames |-> IF c = "a" THEN 97 ELSE 108]
MCMaxDepth == 2

NA    == <<"a">>          \* "a"
NAbsA == <<"/", "a">>     \* "/a"
NAA   == <<"a", "a">>     \* "a/a"
NUpA  == <<"..", "a">>    \* "../a"

TarNames == {NA, NAbsA, NAA, NUpA}

(* Run MCToTar: every archive of one to three names with any data.         *)
PassArchives ==
  UNION { [S -> DataStates] : S \in {S \in SUBSET TarNames : Cardinality(S) \in 1..3} }

(* Run MCToTarFinish: one readable entry.                                  *)
FinishArchives == {[n \in {NA} |-> "ok"]}
=============================================================================
