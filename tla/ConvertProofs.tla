---------------------------- MODULE ConvertProofs ----------------------------
(***************************************************************************)
(* Proofs about Convert for every value of the constants.                  *)
(***************************************************************************)
EXTENDS Convert, TLAPS

(* Every step keeps the type invariant.                                   *)
LEMMA ConvertTypeOKStep == TypeOK /\ [Next]_vars => TypeOK'
<1> SUFFICES ASSUME TypeOK, [Next]_vars PROVE TypeOK'
  OBVIOUS
<1>1. CASE ConvertStart
  BY <1>1 DEF ConvertStart, WriterSetup, Fail, TypeOK, PCs, Errors, OutStates
<1>2. ASSUME NEW n \in todo, ConvertEntry(n) PROVE TypeOK'
  <2>1. n \in Names
    BY ArchivesAssumption DEF TypeOK
  <2>2. QED
    BY <1>2, <2>1 DEF ConvertEntry, Fail, TypeOK, PCs, Errors
<1>3. CASE ConvertFinalize \/ CreateFinalize
  BY <1>3 DEF ConvertFinalize, CreateFinalize, Fail, TypeOK, PCs, Errors, OutStates
<1>4. CASE CreateStart
  BY <1>4 DEF CreateStart, WriterSetup, Fail, TypeOK, PCs, Errors, OutStates
<1>5. CASE CreateAdd
  <2>1. args[next] \in Names \X FileStates
    BY <1>5, ArgListsAssumption DEF CreateAdd, TypeOK
  <2>2. next' \in 1..Len(args') + 1
    BY <1>5 DEF CreateAdd, TypeOK
  <2>3. out' \in Seq(Names)
    <3>1. out' = out \/ out' = Append(out, args[next][1])
      BY <1>5 DEF CreateAdd
    <3>2. QED
      BY <3>1, <2>1 DEF TypeOK
  <2>4. pc' \in PCs /\ err' \in Errors
    BY <1>5 DEF CreateAdd, Fail, TypeOK, PCs, Errors
  <2>5. QED
    BY <1>5, <2>2, <2>3, <2>4 DEF CreateAdd, TypeOK
<1>6. CASE UNCHANGED vars
  BY <1>6 DEF vars, TypeOK
<1>7. QED
  BY <1>1, <1>2, <1>3, <1>4, <1>5, <1>6 DEF Next

(* The type invariant holds in every state of every behaviour.             *)
THEOREM ConvertTypeCorrect == Spec => []TypeOK
<1>1. Init => TypeOK
  BY ArgListsAssumption DEF Init, TypeOK, Commands, PCs, Errors, OutStates
<1>2. QED
  BY <1>1, ConvertTypeOKStep, PTL DEF Spec

-----------------------------------------------------------------------------
(***************************************************************************)
(* ArchiveWrittenOnSuccess is not inductive: it speaks of the final state  *)
(* only.  The loop invariant of convert says that the entries added so far *)
(* are readable and sorted, that each sorts before every name still to     *)
(* visit (so that appending the least remaining name keeps the order; no   *)
(* transitivity of the byte order is needed), and that every readable      *)
(* entry is added or still to visit.  The loop invariant of create says    *)
(* that the entries added are the names of the arguments visited so far.   *)
(***************************************************************************)
ConvertLoopInv ==
  cmd = "convert" /\ pc \in {"loop", "done"} =>
    /\ \A i \in DOMAIN out : out[i] \in DOMAIN archive /\ archive[out[i]] = "ok"
    /\ \A i, j \in DOMAIN out : i < j => NameLt(out[i], out[j])
    /\ \A i \in DOMAIN out : \A k \in todo : NameLt(out[i], k)
    /\ \A n \in DOMAIN archive :
         archive[n] = "ok" => n \in todo \/ \E i \in DOMAIN out : out[i] = n

CreateLoopInv ==
  cmd = "create" /\ pc \in {"loop", "done"} => out = [i \in 1..next - 1 |-> args[i][1]]

DoneInv ==
  pc = "done" =>
    /\ outState = "finalized"
    /\ cmd = "convert" => todo = {}
    /\ cmd = "create" => next = Len(args) + 1

StartInv == pc = "init" => out = <<>> /\ todo = {} /\ next = 1

ConvInv == TypeOK /\ StartInv /\ ConvertLoopInv /\ CreateLoopInv /\ DoneInv

(* A step of convert's loop keeps its invariant.                          *)
LEMMA ConvertEntryKeepsInv ==
  ASSUME ConvInv, NEW n \in todo, ConvertEntry(n)
  PROVE  ConvertLoopInv'
<1> SUFFICES ASSUME pc' \in {"loop", "done"} PROVE ConvertLoopInv'
  BY DEF ConvertLoopInv
<1>0. /\ cmd = "convert" /\ pc = "loop" /\ pc' = "loop"
      /\ cmd' = cmd /\ archive' = archive /\ todo' = todo \ {n}
      /\ \A m \in todo \ {n} : NameLt(n, m)
  BY DEF ConvertEntry, IsFirst, Fail
<1>1. CASE archive[n] \in {"missing", "lookupErr"} /\ out' = out
  BY <1>0, <1>1 DEF ConvInv, ConvertLoopInv
<1>2. CASE archive[n] = "ok" /\ out' = Append(out, n)
  <2>1. out \in Seq(Names) /\ n \in DOMAIN archive
    BY DEF ConvInv, TypeOK
  <2>2. /\ DOMAIN out' = 1..Len(out) + 1
        /\ out'[Len(out) + 1] = n
        /\ \A i \in 1..Len(out) : out'[i] = out[i]
    BY <1>2, <2>1
  <2>3. \A i \in DOMAIN out' : out'[i] \in DOMAIN archive' /\ archive'[out'[i]] = "ok"
    BY <1>0, <1>2, <2>1, <2>2 DEF ConvInv, ConvertLoopInv
  <2>4. \A i, j \in DOMAIN out' : i < j => NameLt(out'[i], out'[j])
    BY <1>0, <2>1, <2>2 DEF ConvInv, ConvertLoopInv
  <2>5. \A i \in DOMAIN out' : \A k \in todo' : NameLt(out'[i], k)
    BY <1>0, <2>1, <2>2 DEF ConvInv, ConvertLoopInv
  <2>6. \A m \in DOMAIN archive' :
          archive'[m] = "ok" => m \in todo' \/ \E i \in DOMAIN out' : out'[i] = m
    BY <1>0, <2>1, <2>2 DEF ConvInv, ConvertLoopInv
  <2>7. QED
    BY <2>3, <2>4, <2>5, <2>6 DEF ConvertLoopInv
<1>3. QED
  BY <1>0, <1>1, <1>2 DEF ConvertEntry, Fail

(* A step of create's loop keeps its invariant.                           *)
LEMMA CreateAddKeepsInv ==
  ASSUME ConvInv, CreateAdd
  PROVE  CreateLoopInv'
<1> SUFFICES ASSUME pc' \in {"loop", "done"} PROVE CreateLoopInv'
  BY DEF CreateLoopInv
<1>0. /\ cmd = "create" /\ pc = "loop" /\ cmd' = cmd /\ args' = args
      /\ next \in 1..Len(args) /\ next' = next + 1
      /\ out' = Append(out, args[next][1])
      /\ out = [i \in 1..next - 1 |-> args[i][1]]
  BY DEF CreateAdd, Fail, ConvInv, TypeOK, CreateLoopInv
<1>1. out' = [i \in 1..next' - 1 |-> args'[i][1]]
  BY <1>0
<1>2. QED
  BY <1>0, <1>1 DEF CreateLoopInv

(* Every step keeps the inductive invariant.                              *)
LEMMA ConvInvStep == ConvInv /\ [Next]_vars => ConvInv'
<1> SUFFICES ASSUME ConvInv, [Next]_vars PROVE ConvInv'
  OBVIOUS
<1>1. TypeOK'
  BY ConvertTypeOKStep DEF ConvInv
<1>2. CASE ConvertStart
  BY <1>1, <1>2 DEF ConvertStart, WriterSetup, Fail, ConvInv, StartInv, ConvertLoopInv,
             CreateLoopInv, DoneInv
<1>3. ASSUME NEW n \in todo, ConvertEntry(n) PROVE ConvInv'
  <2>1. ConvertLoopInv'
    BY <1>3, ConvertEntryKeepsInv
  <2>2. QED
    BY <1>1, <1>3, <2>1 DEF ConvertEntry, Fail, ConvInv, StartInv, CreateLoopInv, DoneInv
<1>4. CASE ConvertFinalize
  BY <1>1, <1>4 DEF ConvertFinalize, Fail, ConvInv, StartInv, ConvertLoopInv,
                    CreateLoopInv, DoneInv
<1>5. CASE CreateStart
  BY <1>1, <1>5 DEF CreateStart, WriterSetup, Fail, ConvInv, StartInv, ConvertLoopInv,
             CreateLoopInv, DoneInv
<1>6. CASE CreateAdd
  <2>1. CreateLoopInv'
    BY <1>6, CreateAddKeepsInv
  <2>2. QED
    BY <1>1, <1>6, <2>1 DEF CreateAdd, Fail, ConvInv, StartInv, ConvertLoopInv, DoneInv
<1>7. CASE CreateFinalize
  BY <1>1, <1>7 DEF CreateFinalize, Fail, ConvInv, TypeOK, StartInv, ConvertLoopInv,
                    CreateLoopInv, DoneInv
<1>8. CASE UNCHANGED vars
  BY <1>8 DEF vars, ConvInv, TypeOK, StartInv, ConvertLoopInv, CreateLoopInv, DoneInv
<1>9. QED
  BY <1>2, <1>3, <1>4, <1>5, <1>6, <1>7, <1>8 DEF Next

(***************************************************************************)
(* A convert or create that succeeds leaves a finalized archive with       *)
(* exactly the readable entries in sorted order (convert) or the file      *)
(* arguments in order (create), for every archive and argument list.       *)
(***************************************************************************)
THEOREM ArchiveWrittenOnSuccessThm == Spec => []ArchiveWrittenOnSuccess
<1>1. Init => ConvInv
  BY ArgListsAssumption
     DEF Init, ConvInv, TypeOK, Commands, PCs, Errors, OutStates, StartInv,
         ConvertLoopInv, CreateLoopInv, DoneInv
<1>2. ConvInv => ArchiveWrittenOnSuccess
  <2> SUFFICES ASSUME ConvInv, pc = "done" PROVE ArchiveWrittenOnSuccess
    BY DEF ArchiveWrittenOnSuccess
  <2>1. CASE cmd = "convert"
    BY <2>1 DEF ConvInv, ConvertLoopInv, DoneInv, ArchiveWrittenOnSuccess
  <2>2. CASE cmd = "create"
    <3>1. args \in Seq(Names \X FileStates)
      BY ArgListsAssumption DEF ConvInv, TypeOK
    <3>2. QED
      BY <2>2, <3>1 DEF ConvInv, CreateLoopInv, DoneInv, ArchiveWrittenOnSuccess
  <2>3. QED
    BY <2>1, <2>2 DEF ConvInv, TypeOK, Commands
<1>3. QED
  BY <1>1, <1>2, ConvInvStep, PTL DEF Spec

=============================================================================
