------------------------------ MODULE MCConvert ------------------------------
(***************************************************************************)
(* Small instances of Convert for TLC.  Names over "a" and "l" whose       *)
(* strings sort as "./a" < "/l" < "a" < "a/a" < "l": the sorted order of   *)
(* convert differs from any order of the components alone.                *)
(***************************************************************************)
EXTENDS Convert, FiniteSets

MCNormalNames == {"a", "l"}
MCByteOf == [c \in MCNormalNames |-> IF c = "a" THEN 97 ELSE 108]
MCMaxDepth == 2

NA    == <<"a">>          \* "a"
NL    == <<"l">>          \* "l"
NDotA == <<".", "a">>     \* "./a"
NAbsL == <<"/", "l">>     \* "/l"
NAA   == <<"a", "a">>     \* "a/a"

ConvNames == {NA, NL, NDotA, NAbsL, NAA}

(* Run MCConvert: every source archive of one to three names with any    *)
(* data, every argument list of up to two distinct files in any state.    *)
PassArchives ==
  UNION { [S -> DataStates] : S \in {S \in SUBSET ConvNames : Cardinality(S) \in 1..3} }

ArgNames == {NA, NDotA, NAA}
PassArgLists ==
  {<<>>}
    \cup {<<<<n, s>>>> : n \in ArgNames, s \in FileStates}
    \cup {<<<<p[1], s>>, <<p[2], t>>>> :
             p \in {q \in ArgNames \X ArgNames : q[1] # q[2]}, s, t \in FileStates}
=============================================================================
