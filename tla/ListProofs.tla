----------------------------- MODULE ListProofs -----------------------------
(***************************************************************************)
(* Proofs about List for every value of the constants.                     *)
(***************************************************************************)
EXTENDS List, TLAPS

(***************************************************************************)
(* ListOutputOnSuccess speaks of the final state only.  The loop invariant *)
(* of list: the names printed are names of the index, in strictly          *)
(* increasing order, each before every name still to print; every name is *)
(* printed or still to print; and with -v every name already handled      *)
(* could be looked up, with -vv its hash too (otherwise the command would *)
(* have ended).                                                            *)
(***************************************************************************)
ListTypeInv ==
  /\ archive \in Archives
  /\ verbose \in Verbosities
  /\ pc \in PCs
  /\ todo \subseteq DOMAIN archive
  /\ printed \in Seq(DOMAIN archive)

ListStartInv == pc = "init" => printed = <<>> /\ todo = {}

ListLoopInv ==
  pc \in {"loop", "done"} =>
    /\ \A i, j \in DOMAIN printed : i < j => NameLt(printed[i], printed[j])
    /\ \A i \in DOMAIN printed : \A m \in todo : NameLt(printed[i], m)
    /\ \A n \in DOMAIN archive : n \in todo \/ \E i \in DOMAIN printed : printed[i] = n
    /\ verbose > 0 => \A n \in DOMAIN archive \ todo : LookedUp(n)

ListDoneInv == pc = "done" => todo = {}

ListInv == ListTypeInv /\ ListStartInv /\ ListLoopInv /\ ListDoneInv

(* A name printed by the loop: the invariant's loop part is kept.          *)
LEMMA ListPrintKeepsLoop ==
  ASSUME ListInv, NEW n \in todo,
         pc = "loop", pc' = "loop", todo' = todo \ {n},
         \A m \in todo \ {n} : NameLt(n, m),
         printed' = Append(printed, n),
         verbose > 0 => LookedUp(n),
         UNCHANGED <<archive, verbose>>
  PROVE  ListLoopInv'
<1>0. /\ printed \in Seq(DOMAIN archive) /\ n \in DOMAIN archive
      /\ verbose \in Nat
  BY VerbositiesAssumption DEF ListInv, ListTypeInv
<1>1. /\ DOMAIN printed' = 1..Len(printed) + 1
      /\ printed'[Len(printed) + 1] = n
      /\ \A i \in 1..Len(printed) : printed'[i] = printed[i]
  BY <1>0
<1>2. \A i, j \in DOMAIN printed' : i < j => NameLt(printed'[i], printed'[j])
  BY <1>0, <1>1 DEF ListInv, ListLoopInv
<1>3. \A i \in DOMAIN printed' : \A m \in todo' : NameLt(printed'[i], m)
  BY <1>0, <1>1 DEF ListInv, ListLoopInv
<1>4. \A m \in DOMAIN archive' : m \in todo' \/ \E i \in DOMAIN printed' : printed'[i] = m
  BY <1>0, <1>1 DEF ListInv, ListLoopInv
<1>5. verbose' > 0 => \A m \in DOMAIN archive' \ todo' : LookedUp(m)'
  BY <1>0 DEF ListInv, ListLoopInv, LookedUp
<1>6. QED
  BY <1>2, <1>3, <1>4, <1>5 DEF ListLoopInv

(* Every step of list keeps the inductive invariant.                      *)
LEMMA ListInvStep == ListInv /\ [Next]_vars => ListInv'
<1> SUFFICES ASSUME ListInv, [Next]_vars PROVE ListInv'
  OBVIOUS
<1>1. CASE ListStart
  BY <1>1 DEF ListStart, Fail, ListInv, ListTypeInv, ListStartInv, ListLoopInv,
              ListDoneInv, PCs
<1>2. ASSUME NEW n \in todo, ListEntry(n) PROVE ListInv'
  <2>0. /\ pc = "loop" /\ todo' = todo \ {n} /\ UNCHANGED <<archive, verbose>>
        /\ \A m \in todo \ {n} : NameLt(n, m)
        /\ n \in DOMAIN archive /\ verbose \in Nat
    BY <1>2, VerbositiesAssumption DEF ListEntry, IsFirst, ListInv, ListTypeInv
  <2>1. CASE printed' = Append(printed, n) /\ UNCHANGED <<pc, err>>
    <3>1. verbose > 0 => LookedUp(n)
      BY <1>2, <2>1 DEF ListEntry, Fail
    <3>2. ListLoopInv'
      BY <2>0, <2>1, <3>1, ListPrintKeepsLoop
    <3>3. ListTypeInv'
      BY <2>0, <2>1 DEF ListInv, ListTypeInv
    <3>4. QED
      BY <2>0, <2>1, <3>2, <3>3 DEF ListInv, ListStartInv, ListDoneInv
  <2>2. CASE pc' = "failed" /\ UNCHANGED printed
    BY <2>0, <2>2 DEF ListInv, ListTypeInv, ListStartInv, ListLoopInv, ListDoneInv, PCs
  <2>3. QED
    BY <1>2, <2>1, <2>2 DEF ListEntry, Fail
<1>3. CASE ListDone
  BY <1>3 DEF ListDone, ListInv, ListTypeInv, ListStartInv, ListLoopInv, ListDoneInv, PCs,
              LookedUp
<1>4. CASE UNCHANGED vars
  BY <1>4 DEF vars, ListInv, ListTypeInv, ListStartInv, ListLoopInv, ListDoneInv, LookedUp
<1>5. QED
  BY <1>1, <1>2, <1>3, <1>4 DEF Next

(***************************************************************************)
(* ListOutputOnSuccess for every archive and number of -v flags: a list    *)
(* that returns Ok(()) (main.rs 418-442) has printed every name of the     *)
(* index once, in strictly increasing byte order, and with -v only after   *)
(* every entry could be looked up.                                         *)
(***************************************************************************)
THEOREM ListOutputOnSuccessThm == Spec => []ListOutputOnSuccess
<1>1. Init => ListInv
  BY DEF Init, ListInv, ListTypeInv, ListStartInv, ListLoopInv, ListDoneInv, PCs
<1>2. ListInv => ListOutputOnSuccess
  <2> SUFFICES ASSUME ListInv, pc = "done" PROVE ListOutputOnSuccess
    BY DEF ListOutputOnSuccess
  <2>1. todo = {} /\ printed \in Seq(DOMAIN archive)
    BY DEF ListInv, ListDoneInv, ListTypeInv
  <2>2. {printed[i] : i \in DOMAIN printed} = DOMAIN archive
    <3>1. \A i \in DOMAIN printed : printed[i] \in DOMAIN archive
      BY <2>1
    <3>2. \A n \in DOMAIN archive : \E i \in DOMAIN printed : printed[i] = n
      BY <2>1 DEF ListInv, ListLoopInv
    <3>3. QED
      BY <3>1, <3>2
  <2>3. QED
    BY <2>1, <2>2 DEF ListInv, ListLoopInv, ListOutputOnSuccess
<1>3. QED
  BY <1>1, <1>2, ListInvStep, PTL DEF Spec

=============================================================================
