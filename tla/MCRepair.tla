------------------------------ MODULE MCRepair ------------------------------
(* Repair of sources of up to three entries, cut at every point.           *)
EXTENDS Repair

MCEntries == {<<>>, <<"e1">>, <<"e1", "e2">>, <<"e2", "e1">>, <<"e1", "e2", "e3">>}

MCSources ==
  UNION {{[entries |-> es, whole |-> w] : w \in 0..Len(es)} : es \in MCEntries}

=============================================================================
