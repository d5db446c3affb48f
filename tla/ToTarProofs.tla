---------------------------- MODULE ToTarProofs ----------------------------
(***************************************************************************)
(* Proofs about ToTar for every value of the constants.                    *)
(***************************************************************************)
EXTENDS ToTar, TLAPS

(***************************************************************************)
(* TarOutputOnSuccess speaks of the final state only.  The loop invariant  *)
(* of to_tar: every member holds a readable entry the loop has visited,    *)
(* under the path add_file_to_tar computes for it; no entry is appended    *)
(* twice; and every readable entry visited without a failure has been      *)
(* appended.  The loop visits the names in any order (list_files is a      *)
(* hash-map order), so, unlike list and convert, nothing is said of order. *)
(***************************************************************************)
Members == [entry : DOMAIN archive, path : {TarPath(n) : n \in DOMAIN archive}]

TarTypeInv ==
  /\ archive \in Archives
  /\ pc \in PCs
  /\ todo \subseteq DOMAIN archive
  /\ tar \in Seq(Members)

TarStartInv == pc = "init" => tar = <<>> /\ todo = {}

TarLoopInv ==
  pc \in {"loop", "done"} =>
    /\ \A i \in DOMAIN tar :
         /\ archive[tar[i].entry] = "ok"
         /\ tar[i].entry \notin todo
         /\ tar[i].path = TarPath(tar[i].entry)
    /\ \A i, j \in DOMAIN tar : i # j => tar[i].entry # tar[j].entry
    /\ \A n \in DOMAIN archive \ todo :
         archive[n] = "ok" => \E i \in DOMAIN tar : tar[i].entry = n

TarDoneInv == pc = "done" => todo = {}

TarInv == TarTypeInv /\ TarStartInv /\ TarLoopInv /\ TarDoneInv

(* A member appended by the loop: the invariant's loop part is kept.      *)
LEMMA TarAppendKeepsLoop ==
  ASSUME TarInv, NEW n \in todo, archive[n] = "ok",
         pc = "loop", pc' = "loop", todo' = todo \ {n},
         tar' = Append(tar, [entry |-> n, path |-> TarPath(n)]),
         UNCHANGED archive
  PROVE  TarLoopInv'
<1>0. tar \in Seq(Members) /\ n \in DOMAIN archive
  BY DEF TarInv, TarTypeInv
<1>1. /\ DOMAIN tar' = 1..Len(tar) + 1
      /\ tar'[Len(tar) + 1] = [entry |-> n, path |-> TarPath(n)]
      /\ \A i \in 1..Len(tar) : tar'[i] = tar[i]
  BY <1>0
<1>2. \A i \in 1..Len(tar) : tar[i].entry \notin todo
  BY <1>0 DEF TarInv, TarLoopInv
<1>3. \A i \in DOMAIN tar' :
        /\ archive'[tar'[i].entry] = "ok"
        /\ tar'[i].entry \notin todo'
        /\ tar'[i].path = TarPath(tar'[i].entry)
  BY <1>0, <1>1 DEF TarInv, TarLoopInv
<1>4. \A i, j \in DOMAIN tar' : i # j => tar'[i].entry # tar'[j].entry
  BY <1>0, <1>1, <1>2 DEF TarInv, TarLoopInv
<1>5. \A m \in DOMAIN archive' \ todo' :
        archive'[m] = "ok" => \E i \in DOMAIN tar' : tar'[i].entry = m
  BY <1>0, <1>1 DEF TarInv, TarLoopInv
<1>6. QED
  BY <1>3, <1>4, <1>5 DEF TarLoopInv

(* A name the loop skips (its lookup failed): the invariant is kept.       *)
LEMMA TarSkipKeepsLoop ==
  ASSUME TarInv, NEW n \in todo, archive[n] \in {"missing", "lookupErr"},
         pc = "loop", pc' = "loop", todo' = todo \ {n},
         UNCHANGED <<archive, tar>>
  PROVE  TarLoopInv'
BY DEF TarInv, TarLoopInv

(* Every step of to_tar keeps the inductive invariant.                    *)
LEMMA TarInvStep == TarInv /\ [Next]_vars => TarInv'
<1> SUFFICES ASSUME TarInv, [Next]_vars PROVE TarInv'
  OBVIOUS
<1>1. CASE TarStart
  BY <1>1 DEF TarStart, DropBuilder, TarInv, TarTypeInv, TarStartInv, TarLoopInv,
              TarDoneInv, PCs, Members
<1>2. ASSUME NEW n \in todo, TarEntry(n) PROVE TarInv'
  <2>0. /\ pc = "loop" /\ todo' = todo \ {n} /\ UNCHANGED archive
        /\ n \in DOMAIN archive /\ tar \in Seq(Members)
    BY <1>2 DEF TarEntry, TarInv, TarTypeInv
  <2>1. CASE archive[n] \in {"missing", "lookupErr"} /\ UNCHANGED <<pc, tar>>
    <3>1. TarLoopInv'
      BY <2>0, <2>1, TarSkipKeepsLoop
    <3>2. QED
      BY <2>0, <2>1, <3>1 DEF TarInv, TarTypeInv, TarStartInv, TarDoneInv, Members
  <2>2. CASE /\ archive[n] = "ok" /\ pc' = "loop"
             /\ tar' = Append(tar, [entry |-> n, path |-> TarPath(n)])
    <3>1. TarLoopInv'
      BY <2>0, <2>2, TarAppendKeepsLoop
    <3>2. [entry |-> n, path |-> TarPath(n)] \in Members
      BY <2>0 DEF Members
    <3>3. TarTypeInv'
      BY <2>0, <2>2, <3>2 DEF TarInv, TarTypeInv, PCs, Members
    <3>4. QED
      BY <2>0, <2>2, <3>1, <3>3 DEF TarInv, TarStartInv, TarDoneInv
  <2>3. CASE pc' = "failed" /\ UNCHANGED tar
    BY <2>0, <2>3 DEF TarInv, TarTypeInv, TarStartInv, TarLoopInv, TarDoneInv, PCs,
                    Members
  <2>4. QED
    BY <1>2, <2>1, <2>2, <2>3 DEF TarEntry, AddFileToTar, Panic
<1>3. CASE TarDone
  BY <1>3 DEF TarDone, DropBuilder, TarInv, TarTypeInv, TarStartInv, TarLoopInv,
              TarDoneInv, PCs, Members
<1>4. CASE UNCHANGED vars
  BY <1>4 DEF vars, TarInv, TarTypeInv, TarStartInv, TarLoopInv, TarDoneInv, Members
<1>5. QED
  BY <1>1, <1>2, <1>3, <1>4 DEF Next

(***************************************************************************)
(* TarOutputOnSuccess for every archive: a to-tar that returns Ok(())      *)
(* (main.rs 598-631) has appended every readable entry exactly once, under *)
(* the './'-prefixed path of add_file_to_tar, and nothing else.            *)
(***************************************************************************)
THEOREM TarOutputOnSuccessThm == Spec => []TarOutputOnSuccess
<1>1. Init => TarInv
  BY DEF Init, TarInv, TarTypeInv, TarStartInv, TarLoopInv, TarDoneInv, PCs
<1>2. TarInv => TarOutputOnSuccess
  <2> SUFFICES ASSUME TarInv, pc = "done" PROVE TarOutputOnSuccess
    BY DEF TarOutputOnSuccess
  <2>1. todo = {} /\ tar \in Seq(Members)
    BY DEF TarInv, TarDoneInv, TarTypeInv
  <2>2. \A i \in DOMAIN tar : tar[i].entry \in DOMAIN archive /\ archive[tar[i].entry] = "ok"
    <3>1. \A i \in DOMAIN tar : tar[i] \in Members
      BY <2>1
    <3>2. \A i \in DOMAIN tar : tar[i].entry \in DOMAIN archive
      BY <3>1 DEF Members
    <3>3. QED
      BY <3>2 DEF TarInv, TarLoopInv
  <2>3. \A n \in DOMAIN archive : archive[n] = "ok" => \E i \in DOMAIN tar : tar[i].entry = n
    BY <2>1 DEF TarInv, TarLoopInv
  <2>4. {tar[i].entry : i \in DOMAIN tar} = {n \in DOMAIN archive : archive[n] = "ok"}
    BY <2>2, <2>3
  <2>5. QED
    BY <2>4 DEF TarInv, TarLoopInv, TarOutputOnSuccess
<1>3. QED
  BY <1>1, <1>2, TarInvStep, PTL DEF Spec

=============================================================================
