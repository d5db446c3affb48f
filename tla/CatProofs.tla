----------------------------- MODULE CatProofs -----------------------------
(***************************************************************************)
(* Proofs about Cat for every value of the constants.                      *)
(***************************************************************************)
EXTENDS Cat, TLAPS

(* Every step keeps the type invariant.                                   *)
LEMMA CatTypeOKStep == TypeOK /\ [Next]_vars => TypeOK'
<1> SUFFICES ASSUME TypeOK, [Next]_vars PROVE TypeOK'
  OBVIOUS
<1>0. req.files \in Seq(IF req.glob THEN Patterns ELSE Names)
  BY RequestsAssumption DEF TypeOK
<1>1. CASE CatStart
  BY <1>1 DEF CatStart, Fail, TypeOK, PCs, Errors
<1>2. CASE CatPatternBegin
  <2>1. CASE ValidPattern(req.files[k])
    BY <1>2, <2>1 DEF CatPatternBegin, TypeOK, Phases
  <2>2. CASE ~ValidPattern(req.files[k])
    BY <1>2, <2>2 DEF CatPatternBegin, TypeOK
  <2>3. QED
    BY <2>1, <2>2
<1>3. CASE CatPatternEnd \/ CatDone
  BY <1>3 DEF CatPatternEnd, CatDone, TypeOK, Phases, PCs
<1>4. ASSUME NEW i \in Nat \ {0}, NEW n \in Names, CopyEntry(i, n)
      PROVE  dest' \in Seq(Copies) /\ pc' \in PCs
             /\ err' \in Errors
  <2>1. CASE dest' = Append(dest, [arg |-> i, name |-> n]) /\ UNCHANGED <<pc, err>>
    BY <2>1 DEF TypeOK, Copies
  <2>2. CASE UNCHANGED dest /\ pc' \in PCs /\ err' \in Errors
    BY <2>2 DEF TypeOK
  <2>3. QED
    BY <1>4, <2>1, <2>2 DEF CopyEntry, Fail, TypeOK, PCs, Errors
<1>5. ASSUME NEW n \in todo, CatGlobEntry(n) PROVE TypeOK'
  <2>1. n \in Names
    BY CatArchivesAssumption DEF TypeOK
  <2>2. CASE GlobMatch(req.files[k], Render(n))
    <3>1. CopyEntry(k, n)
      BY <1>5, <2>2 DEF CatGlobEntry
    <3>2. QED
      BY <1>5, <2>1, <3>1, <1>4 DEF CatGlobEntry, TypeOK
  <2>3. CASE ~GlobMatch(req.files[k], Render(n))
    BY <1>5, <2>3 DEF CatGlobEntry, TypeOK
  <2>4. QED
    BY <2>2, <2>3
<1>6. CASE CatExactEntry
  <2>1. k \in 1..Len(req.files) /\ ~req.glob
    BY <1>6 DEF CatExactEntry, TypeOK
  <2>2. req.files[k] \in Names
    BY <1>0, <2>1
  <2>3. CopyEntry(k, req.files[k])
    BY <1>6 DEF CatExactEntry
  <2>4. dest' \in Seq(Copies) /\ pc' \in PCs /\ err' \in Errors
    <3>1. k \in Nat \ {0}
      BY <2>1
    <3>2. QED
      BY <2>2, <2>3, <3>1, <1>4
  <2>5. QED
    BY <1>6, <2>1, <2>4 DEF CatExactEntry, TypeOK
<1>7. CASE UNCHANGED vars
  BY <1>7 DEF vars, TypeOK
<1>8. QED
  BY <1>1, <1>2, <1>3, <1>5, <1>6, <1>7 DEF Next

(* The type invariant holds in every state of every behaviour.             *)
THEOREM CatTypeCorrect == Spec => []TypeOK
<1>1. Init => TypeOK
  BY RequestsAssumption DEF Init, TypeOK, PCs, Phases, Errors
<1>2. QED
  BY <1>1, CatTypeOKStep, PTL DEF Spec

-----------------------------------------------------------------------------
(***************************************************************************)
(* CatOutputOnSuccess speaks of the final state only.  The loop invariant  *)
(* follows the two nested loops of --glob with a cursor: argument k, and   *)
(* within a valid pattern the sorted names still to test.  Every copy is   *)
(* sound (SoundInv); every copy owed by an argument before the cursor is   *)
(* made (CompleteInv); copies are in order (OrderInv), and each comes      *)
(* before the cursor (CursorInv), which is what keeps them in order when   *)
(* the least remaining name is copied next.                               *)
(***************************************************************************)
(* Argument i asked for the readable entry n, and it was copied for it.   *)
Emits(i, n) == \E j \in DOMAIN dest : dest[j].arg = i /\ dest[j].name = n

CatStartInv == pc = "init" => dest = <<>> /\ k = 1 /\ phase = "next"

(* Every copy is of a readable entry its argument asks for.               *)
SoundInv ==
  \A j \in DOMAIN dest :
    /\ dest[j].name \in DOMAIN archive
    /\ Asked(dest[j].arg, dest[j].name)
    /\ archive[dest[j].name] = "ok"

(* Every readable entry asked for by an argument before the cursor, or by *)
(* the current pattern and sorted before the names still to test, is      *)
(* copied.                                                                 *)
CompleteInv ==
  pc \in {"loop", "done"} =>
    \A i \in 1..Len(req.files), n \in DOMAIN archive :
      /\ Asked(i, n) /\ archive[n] = "ok"
      /\ i < k \/ (i = k /\ phase = "entries" /\ n \notin todo)
      => Emits(i, n)

OrderInv ==
  \A i, j \in DOMAIN dest :
    i < j => \/ dest[i].arg < dest[j].arg
             \/ dest[i].arg = dest[j].arg /\ NameLt(dest[i].name, dest[j].name)

(* The copies made so far come before the cursor.                         *)
CursorInv ==
  \A j \in DOMAIN dest :
    \/ dest[j].arg < k
    \/ /\ phase = "entries" /\ dest[j].arg = k
       /\ \A m \in todo : NameLt(dest[j].name, m)

PhaseInv ==
  /\ k <= Len(req.files) + 1
  /\ phase = "entries" => req.glob /\ k <= Len(req.files) /\ ValidPattern(req.files[k])

CatDoneInv == pc = "done" => k = Len(req.files) + 1 /\ phase = "next"

CatInv ==
  /\ TypeOK /\ CatStartInv /\ SoundInv /\ CompleteInv /\ OrderInv /\ CursorInv
  /\ PhaseInv /\ CatDoneInv

(* The copies are typed.                                                   *)
LEMMA DestTyped ==
  ASSUME TypeOK
  PROVE  \A j \in DOMAIN dest : dest[j].arg \in Nat \ {0} /\ dest[j].name \in Names
<1> SUFFICES ASSUME NEW j \in DOMAIN dest
             PROVE  dest[j].arg \in Nat \ {0} /\ dest[j].name \in Names
  OBVIOUS
<1>1. dest[j] \in Copies
  BY DEF TypeOK
<1>2. QED
  BY <1>1 DEF Copies

(* Opening the destination and the archive keeps the invariant.           *)
LEMMA CatStartKeepsInv == ASSUME CatInv, CatStart PROVE CatInv'
<1>1. TypeOK'
  BY CatTypeOKStep DEF CatInv, Next
<1>2. QED
  BY <1>1 DEF CatStart, Fail, CatInv, TypeOK, CatStartInv, SoundInv, CompleteInv,
              OrderInv, CursorInv, PhaseInv, CatDoneInv, Emits, Asked

(* Starting the next pattern, or skipping an invalid one.                 *)
LEMMA CatPatternBeginKeepsInv == ASSUME CatInv, CatPatternBegin PROVE CatInv'
<1>1. TypeOK'
  BY CatTypeOKStep DEF CatInv, Next
<1>0. /\ req.glob /\ pc = "loop" /\ phase = "next" /\ k <= Len(req.files)
      /\ UNCHANGED <<archive, req, pc, dest, err>>
      /\ \A j \in DOMAIN dest : dest[j].arg < k
  BY DEF CatPatternBegin, CatInv, CursorInv
<1>2. CASE ValidPattern(req.files[k])
  <2>1. phase' = "entries" /\ todo' = DOMAIN archive /\ k' = k
    BY <1>2 DEF CatPatternBegin
  <2>2. CompleteInv'
    BY <1>0, <2>1 DEF CatInv, CompleteInv, Emits, Asked
  <2>3. QED
    BY <1>0, <1>1, <1>2, <2>1, <2>2
       DEF CatInv, CatStartInv, SoundInv, OrderInv, CursorInv, PhaseInv, CatDoneInv, Emits, Asked
<1>3. CASE ~ValidPattern(req.files[k])
  <2>1. k' = k + 1 /\ UNCHANGED <<phase, todo>>
    BY <1>3 DEF CatPatternBegin
  <2>2. \A n \in DOMAIN archive : ~Asked(k, n)
    BY <1>0, <1>3 DEF Asked
  <2>3. CompleteInv'
    BY <1>0, <2>1, <2>2 DEF CatInv, TypeOK, CompleteInv, Emits, Asked
  <2>4. CursorInv'
    BY <1>0, <2>1, DestTyped DEF CatInv, TypeOK, CursorInv
  <2>5. QED
    BY <1>0, <1>1, <2>1, <2>3, <2>4
       DEF CatInv, TypeOK, CatStartInv, SoundInv, OrderInv, CursorInv, PhaseInv, CatDoneInv, Emits, Asked
<1>4. QED
  BY <1>2, <1>3

(* All names tested against pattern k: the cursor moves to k + 1.          *)
LEMMA CatPatternEndKeepsInv == ASSUME CatInv, CatPatternEnd PROVE CatInv'
<1>1. TypeOK'
  BY CatTypeOKStep DEF CatInv, Next
<1>0. /\ req.glob /\ pc = "loop" /\ phase = "entries" /\ todo = {}
      /\ k' = k + 1 /\ phase' = "next"
      /\ UNCHANGED <<archive, req, pc, todo, dest, err>>
      /\ k \in 1..Len(req.files)
  BY DEF CatPatternEnd, CatInv, TypeOK, PhaseInv
<1>2. CompleteInv'
  BY <1>0 DEF CatInv, TypeOK, CompleteInv, Emits, Asked
<1>3. CursorInv'
  BY <1>0, DestTyped DEF CatInv, TypeOK, CursorInv
<1>4. QED
  BY <1>0, <1>1, <1>2, <1>3
     DEF CatInv, CatStartInv, SoundInv, OrderInv, PhaseInv, CatDoneInv, Emits, Asked

(* All arguments done.                                                    *)
LEMMA CatDoneKeepsInv == ASSUME CatInv, CatDone PROVE CatInv'
<1>1. TypeOK'
  BY CatTypeOKStep DEF CatInv, Next
<1>2. QED
  BY <1>1 DEF CatDone, CatInv, TypeOK, CatStartInv, SoundInv, CompleteInv, OrderInv,
              CursorInv, PhaseInv, CatDoneInv, Emits, Asked

(***************************************************************************)
(* --glob, one name tested against pattern k.  The name is the least of    *)
(* those still to test, so a copy of it sorts after every earlier copy for *)
(* pattern k and before every later one.                                   *)
(***************************************************************************)
LEMMA CatGlobEntryKeepsInv ==
  ASSUME CatInv, NEW n \in todo, CatGlobEntry(n)
  PROVE  CatInv'
<1>1. TypeOK'
  BY CatTypeOKStep DEF CatInv, Next
<1>0. /\ req.glob /\ pc = "loop" /\ phase = "entries"
      /\ todo' = todo \ {n} /\ \A m \in todo \ {n} : NameLt(n, m)
      /\ UNCHANGED <<archive, req, k, phase>>
      /\ n \in DOMAIN archive /\ k \in 1..Len(req.files) /\ ValidPattern(req.files[k])
  BY DEF CatGlobEntry, IsFirst, CatInv, TypeOK, PhaseInv
<1>2. CASE UNCHANGED <<pc, dest, err>> /\ ~(Asked(k, n) /\ archive[n] = "ok")
  <2>1. CompleteInv'
    BY <1>0, <1>2 DEF CatInv, CompleteInv, Emits, Asked
  <2>2. CursorInv'
    BY <1>0, <1>2 DEF CatInv, CursorInv
  <2>3. QED
    BY <1>0, <1>1, <1>2, <2>1, <2>2
       DEF CatInv, CatStartInv, SoundInv, OrderInv, PhaseInv, CatDoneInv, Asked
<1>3. CASE /\ dest' = Append(dest, [arg |-> k, name |-> n])
           /\ UNCHANGED <<pc, err>>
           /\ Asked(k, n) /\ archive[n] = "ok"
  <2>0. /\ DOMAIN dest' = 1..Len(dest) + 1
        /\ dest'[Len(dest) + 1] = [arg |-> k, name |-> n]
        /\ \A j \in 1..Len(dest) : dest'[j] = dest[j]
        /\ DOMAIN dest = 1..Len(dest)
    BY <1>3 DEF CatInv, TypeOK
  <2>1. SoundInv'
    BY <1>0, <1>3, <2>0 DEF CatInv, SoundInv, Asked
  <2>2. CompleteInv'
    <3> SUFFICES ASSUME NEW i \in 1..Len(req.files), NEW m \in DOMAIN archive,
                        Asked(i, m), archive[m] = "ok",
                        i < k \/ (i = k /\ m \notin todo \ {n})
                 PROVE  Emits(i, m)'
      BY <1>0, <1>3 DEF CompleteInv, Asked
    <3>1. CASE i = k /\ m = n
      BY <3>1, <1>3, <2>0 DEF Emits
    <3>2. CASE ~(i = k /\ m = n)
      <4>1. Emits(i, m)
        BY <1>0, <1>3, <3>2 DEF CatInv, CompleteInv
      <4>2. QED
        BY <4>1, <2>0 DEF Emits
    <3>3. QED
      BY <3>1, <3>2
  <2>3. OrderInv'
    <3> SUFFICES ASSUME NEW i \in DOMAIN dest', NEW j \in DOMAIN dest', i < j
                 PROVE  \/ dest'[i].arg < dest'[j].arg
                        \/ dest'[i].arg = dest'[j].arg /\ NameLt(dest'[i].name, dest'[j].name)
      BY DEF OrderInv
    <3>1. CASE j = Len(dest) + 1
      <4>1. i \in DOMAIN dest /\ dest'[i] = dest[i] /\ dest'[j] = [arg |-> k, name |-> n]
        BY <2>0, <3>1
      <4>2. dest[i].arg < k \/ (dest[i].arg = k /\ NameLt(dest[i].name, n))
        BY <1>0, <4>1 DEF CatInv, CursorInv
      <4>3. QED
        BY <4>1, <4>2
    <3>2. CASE j # Len(dest) + 1
      <4>1. i \in DOMAIN dest /\ j \in DOMAIN dest
        BY <2>0, <3>2
      <4>2. dest'[i] = dest[i] /\ dest'[j] = dest[j]
        BY <2>0, <4>1
      <4>3. QED
        BY <4>1, <4>2 DEF CatInv, OrderInv
    <3>3. QED
      BY <3>1, <3>2
  <2>4. CursorInv'
    BY <1>0, <2>0 DEF CatInv, CursorInv
  <2>5. QED
    BY <1>0, <1>1, <1>3, <2>1, <2>2, <2>3, <2>4
       DEF CatInv, CatStartInv, PhaseInv, CatDoneInv
<1>4. CASE pc' = "failed" /\ UNCHANGED dest
  <2>1. CursorInv'
    BY <1>0, <1>4 DEF CatInv, CursorInv
  <2>2. QED
    BY <1>0, <1>1, <1>4, <2>1
       DEF CatInv, CatStartInv, SoundInv, CompleteInv, OrderInv, PhaseInv, CatDoneInv, Asked
<1>5. Lookup(n) = archive[n]
  BY <1>0 DEF Lookup
<1>6. CASE GlobMatch(req.files[k], Render(n))
  <2>1. CopyEntry(k, n) /\ Asked(k, n)
    BY <1>0, <1>6 DEF CatGlobEntry, Asked
  <2>2. QED
    BY <1>2, <1>3, <1>4, <1>5, <2>1 DEF CopyEntry, Fail
<1>7. CASE ~GlobMatch(req.files[k], Render(n))
  <2>1. UNCHANGED <<pc, dest, err>> /\ ~Asked(k, n)
    BY <1>0, <1>7 DEF CatGlobEntry, Asked
  <2>2. QED
    BY <1>2, <2>1
<1>8. QED
  BY <1>6, <1>7

(***************************************************************************)
(* Without --glob, the entry named by argument k: it is copied at most     *)
(* once, and every copy made before is for an earlier argument.            *)
(***************************************************************************)
LEMMA CatExactEntryKeepsInv ==
  ASSUME CatInv, CatExactEntry
  PROVE  CatInv'
<1>1. TypeOK'
  BY CatTypeOKStep DEF CatInv, Next
<1> DEFINE f == req.files[k]
<1>a. /\ ~req.glob /\ pc = "loop" /\ k' = k + 1
      /\ UNCHANGED <<archive, req, phase, todo>>
      /\ CopyEntry(k, f)
  BY DEF CatExactEntry
<1>b. k \in 1..Len(req.files)
  BY <1>a DEF CatExactEntry, CatInv, TypeOK
<1>c. phase = "next"
  BY <1>a DEF CatInv, TypeOK, Phases, PhaseInv
<1>d. \A j \in DOMAIN dest : dest[j].arg < k
  BY <1>c DEF CatInv, CursorInv
<1>e. \A i \in 1..Len(req.files), m \in DOMAIN archive : Asked(i, m) <=> m = req.files[i]
  BY <1>a DEF Asked
<1>0. /\ ~req.glob /\ pc = "loop" /\ phase = "next"
      /\ k \in 1..Len(req.files) /\ k' = k + 1
      /\ UNCHANGED <<archive, req, phase, todo>>
      /\ CopyEntry(k, f)
      /\ \A j \in DOMAIN dest : dest[j].arg < k
      /\ \A i \in 1..Len(req.files), m \in DOMAIN archive : Asked(i, m) <=> m = req.files[i]
  BY <1>a, <1>b, <1>c, <1>d, <1>e
<1>2. CASE UNCHANGED <<pc, dest, err>> /\ Lookup(f) \in {"missing", "lookupErr"}
  <2>1. f \in DOMAIN archive => archive[f] # "ok"
    BY <1>2 DEF Lookup
  <2>2. CompleteInv'
    BY <1>0, <1>2, <2>1 DEF CatInv, TypeOK, CompleteInv, Emits, Asked
  <2>3. CursorInv'
    BY <1>0, <1>2, DestTyped DEF CatInv, TypeOK, CursorInv
  <2>4. QED
    BY <1>0, <1>1, <1>2, <2>2, <2>3
       DEF CatInv, CatStartInv, SoundInv, OrderInv, PhaseInv, CatDoneInv, Asked
<1>3. CASE /\ dest' = Append(dest, [arg |-> k, name |-> f])
           /\ UNCHANGED <<pc, err>> /\ Lookup(f) = "ok"
  <2>0. /\ DOMAIN dest' = 1..Len(dest) + 1
        /\ dest'[Len(dest) + 1] = [arg |-> k, name |-> f]
        /\ \A j \in 1..Len(dest) : dest'[j] = dest[j]
        /\ DOMAIN dest = 1..Len(dest)
    BY <1>3 DEF CatInv, TypeOK
  <2>1. f \in DOMAIN archive /\ archive[f] = "ok" /\ Asked(k, f)
    BY <1>0, <1>3 DEF Lookup, Asked
  <2>2. SoundInv'
    BY <1>0, <2>0, <2>1 DEF CatInv, SoundInv, Asked
  <2>3. CompleteInv'
    <3> SUFFICES ASSUME NEW i \in 1..Len(req.files), NEW m \in DOMAIN archive,
                        Asked(i, m), archive[m] = "ok", i < k + 1
                 PROVE  Emits(i, m)'
      BY <1>0, <1>3 DEF CompleteInv, Asked
    <3>1. CASE i = k
      <4>1. m = f
        BY <1>0, <3>1
      <4>2. QED
        BY <4>1, <3>1, <1>3, <2>0 DEF Emits
    <3>2. CASE i # k
      <4>1. Emits(i, m)
        BY <1>0, <3>2 DEF CatInv, CompleteInv
      <4>2. QED
        BY <4>1, <2>0 DEF Emits
    <3>3. QED
      BY <3>1, <3>2
  <2>4. OrderInv'
    <3> SUFFICES ASSUME NEW i \in DOMAIN dest', NEW j \in DOMAIN dest', i < j
                 PROVE  \/ dest'[i].arg < dest'[j].arg
                        \/ dest'[i].arg = dest'[j].arg /\ NameLt(dest'[i].name, dest'[j].name)
      BY DEF OrderInv
    <3>1. CASE j = Len(dest) + 1
      <4>1. i \in DOMAIN dest /\ dest'[i] = dest[i] /\ dest'[j].arg = k
        BY <2>0, <3>1
      <4>2. dest[i].arg < k
        BY <1>0, <4>1
      <4>3. QED
        BY <4>1, <4>2
    <3>2. CASE j # Len(dest) + 1
      <4>1. i \in DOMAIN dest /\ j \in DOMAIN dest
        BY <2>0, <3>2
      <4>2. dest'[i] = dest[i] /\ dest'[j] = dest[j]
        BY <2>0, <4>1
      <4>3. QED
        BY <4>1, <4>2 DEF CatInv, OrderInv
    <3>3. QED
      BY <3>1, <3>2
  <2>5. CursorInv'
    BY <1>0, <2>0, DestTyped DEF CatInv, TypeOK, CursorInv
  <2>6. QED
    BY <1>0, <1>1, <1>3, <2>2, <2>3, <2>4, <2>5
       DEF CatInv, CatStartInv, PhaseInv, CatDoneInv
<1>4. CASE pc' = "failed" /\ UNCHANGED dest
  <2>1. CursorInv'
    BY <1>0, <1>4, DestTyped DEF CatInv, TypeOK, CursorInv
  <2>2. QED
    BY <1>0, <1>1, <1>4, <2>1
       DEF CatInv, CatStartInv, SoundInv, CompleteInv, OrderInv, PhaseInv, CatDoneInv, Asked
<1>5. QED
  BY <1>0, <1>2, <1>3, <1>4 DEF CopyEntry, Fail

(* Every step keeps the inductive invariant.                              *)
LEMMA CatInvStep == CatInv /\ [Next]_vars => CatInv'
<1> SUFFICES ASSUME CatInv, [Next]_vars PROVE CatInv'
  OBVIOUS
<1>1. CASE UNCHANGED vars
  BY <1>1 DEF vars, CatInv, TypeOK, CatStartInv, SoundInv, CompleteInv, Emits,
              OrderInv, CursorInv, PhaseInv, CatDoneInv, Asked
<1>2. QED
  BY <1>1, CatStartKeepsInv, CatPatternBeginKeepsInv, CatGlobEntryKeepsInv,
     CatPatternEndKeepsInv, CatExactEntryKeepsInv, CatDoneKeepsInv DEF Next

(***************************************************************************)
(* A cat that succeeds has copied, for every argument and every archive,   *)
(* exactly the readable entries each argument asks for, in argument order  *)
(* and, within a glob pattern, in sorted name order.                       *)
(***************************************************************************)
THEOREM CatOutputOnSuccessThm == Spec => []CatOutputOnSuccess
<1>1. Init => CatInv
  <2> SUFFICES ASSUME Init PROVE CatInv
    OBVIOUS
  <2>1. TypeOK
    BY RequestsAssumption DEF Init, TypeOK, PCs, Phases, Errors
  <2>2. dest = <<>> /\ pc = "init" /\ k = 1 /\ phase = "next"
    BY DEF Init
  <2>3. SoundInv /\ OrderInv /\ CursorInv
    BY <2>2 DEF SoundInv, OrderInv, CursorInv
  <2>4. CatStartInv /\ CompleteInv /\ CatDoneInv
    BY <2>2 DEF CatStartInv, CompleteInv, CatDoneInv
  <2>5. PhaseInv
    BY <2>2 DEF PhaseInv
  <2>6. QED
    BY <2>1, <2>3, <2>4, <2>5 DEF CatInv
<1>2. CatInv => CatOutputOnSuccess
  <2> SUFFICES ASSUME CatInv, pc = "done" PROVE CatOutputOnSuccess
    BY DEF CatOutputOnSuccess
  <2>0. /\ k = Len(req.files) + 1
        /\ \A j \in DOMAIN dest : dest[j].arg \in 1..Len(req.files)
                                  /\ dest[j].name \in DOMAIN archive
    BY DestTyped DEF CatInv, CatDoneInv, CursorInv, SoundInv
  <2>1. {<<dest[i].arg, dest[i].name>> : i \in DOMAIN dest}
          \subseteq {e \in (1..Len(req.files)) \X DOMAIN archive :
                       Asked(e[1], e[2]) /\ archive[e[2]] = "ok"}
    BY <2>0 DEF CatInv, SoundInv
  <2>2. {e \in (1..Len(req.files)) \X DOMAIN archive :
           Asked(e[1], e[2]) /\ archive[e[2]] = "ok"}
          \subseteq {<<dest[i].arg, dest[i].name>> : i \in DOMAIN dest}
    BY <2>0 DEF CatInv, CompleteInv, Emits
  <2>3. QED
    BY <2>1, <2>2 DEF CatInv, OrderInv, CatOutputOnSuccess
<1>3. QED
  BY <1>1, <1>2, CatInvStep, PTL DEF Spec

=============================================================================
