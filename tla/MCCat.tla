-------------------------------- MODULE MCCat --------------------------------
(***************************************************************************)
(* Small instances of Cat for TLC.  Names over "a" and "l"; patterns that  *)
(* match one name, several, or none, and an invalid one.                  *)
(***************************************************************************)
EXTENDS Cat, FiniteSets

MCNormalNames == {"a", "l"}
MCByteOf == [c \in MCNormalNames |-> IF c = "a" THEN 97 ELSE 108]
MCMaxDepth == 2

NA    == <<"a">>          \* "a"
NL    == <<"l">>          \* "l"
NDotA == <<".", "a">>     \* "./a"
NAA   == <<"a", "a">>     \* "a/a"

CatNames == {NA, NL, NDotA, NAA}

PStar  == <<"*">>         \* "*"
PA     == <<"a">>         \* "a"
PAStar == <<"a", "*">>    \* "a*"
PQ     == <<"?">>         \* "?"
PBad   == <<"[">>         \* "[", an unclosed class

(* clap gives the 'files' argument exactly one value (main.rs 825-828).    *)
OneOf(S) == {<<x>> : x \in S}

(* Run MCCat: archives of one or two names with any data; one pattern or   *)
(* one name.                                                               *)
PassArchives ==
  UNION { [S -> DataStates] : S \in {S \in SUBSET CatNames : Cardinality(S) \in 1..2} }
PassRequests ==
  {[glob |-> TRUE, files |-> f] : f \in OneOf({PStar, PA, PAStar, PQ, PBad})}
    \cup {[glob |-> FALSE, files |-> f] : f \in OneOf({NA, NL, NAA})}
=============================================================================
