--------------------------- MODULE CatStreamProofs ---------------------------
(***************************************************************************)
(* Proof that cat implements the ordered output stream (OrderedOutput):   *)
(* the safety part of CatImplementsStream, for every value of the          *)
(* constants.  The argument rests on CatInv of CatProofs and on FreshInv:  *)
(* a name copied for the pattern being scanned has left todo, so the next  *)
(* copy is never one already written.                                      *)
(***************************************************************************)
EXTENDS CatProofs

FreshInv ==
  \A j \in DOMAIN dest : dest[j].arg = k /\ phase = "entries" => dest[j].name \notin todo

RefInv == CatInv /\ FreshInv

(* A copy is the record of its argument and its name.                      *)
LEMMA DestRecords ==
  ASSUME TypeOK
  PROVE  \A j \in DOMAIN dest : dest[j] = [arg |-> dest[j].arg, name |-> dest[j].name]
<1> SUFFICES ASSUME NEW j \in DOMAIN dest
             PROVE  dest[j] = [arg |-> dest[j].arg, name |-> dest[j].name]
  OBVIOUS
<1>1. dest[j] \in Copies
  BY DEF TypeOK
<1>2. QED
  BY <1>1 DEF Copies

(* Every step keeps FreshInv.                                              *)
LEMMA FreshStep == RefInv /\ [Next]_vars => FreshInv'
<1> SUFFICES ASSUME RefInv, [Next]_vars PROVE FreshInv'
  OBVIOUS
<1>1. CASE CatStart
  BY <1>1 DEF CatStart, Fail, RefInv, CatInv, CatStartInv, FreshInv
<1>2. CASE CatPatternBegin
  <2>1. \A j \in DOMAIN dest : dest[j].arg < k
    BY <1>2 DEF CatPatternBegin, RefInv, CatInv, CursorInv
  <2>2. /\ UNCHANGED dest /\ phase = "next"
        /\ k' = k \/ phase' = "next"
    BY <1>2 DEF CatPatternBegin
  <2>3. QED
    BY <2>1, <2>2, DestTyped DEF FreshInv, RefInv, CatInv, TypeOK
<1>3. ASSUME NEW n \in todo, CatGlobEntry(n) PROVE FreshInv'
  <2>1. /\ todo' = todo \ {n} /\ UNCHANGED <<k, phase>>
        /\ dest' = dest \/ dest' = Append(dest, [arg |-> k, name |-> n])
    BY <1>3 DEF CatGlobEntry, CopyEntry, Fail
  <2>2. dest \in Seq(Copies)
    BY DEF RefInv, CatInv, TypeOK
  <2>3. QED
    BY <2>1, <2>2 DEF RefInv, FreshInv
<1>4. CASE CatPatternEnd \/ CatExactEntry \/ CatDone
  BY <1>4 DEF CatPatternEnd, CatExactEntry, CatDone, CopyEntry, Fail, RefInv, CatInv,
              PhaseInv, FreshInv
<1>5. CASE UNCHANGED vars
  BY <1>5 DEF vars, RefInv, FreshInv
<1>6. QED
  BY <1>1, <1>2, <1>3, <1>4, <1>5 DEF Next


(* The wanted copies depend only on the archive and the command line.      *)
LEMMA WantedStable ==
  ASSUME UNCHANGED <<archive, req>>
  PROVE  WantedCopies' = WantedCopies
BY DEF WantedCopies, Asked

(* A wanted copy is a record of a readable entry its argument asks for.    *)
LEMMA WantedShape ==
  ASSUME NEW f \in WantedCopies
  PROVE  /\ f = [arg |-> f.arg, name |-> f.name]
         /\ f.arg \in 1..Len(req.files) /\ f.name \in DOMAIN archive
         /\ Asked(f.arg, f.name) /\ archive[f.name] = "ok"
BY DEF WantedCopies

(* A copy is in the stream's output exactly when cat has emitted it.       *)
LEMMA WrittenIsEmits ==
  ASSUME TypeOK, NEW i, NEW m
  PROVE  [arg |-> i, name |-> m] \in Stream!Written <=> Emits(i, m)
<1>1. ASSUME NEW j \in DOMAIN dest, dest[j] = [arg |-> i, name |-> m] PROVE Emits(i, m)
  BY <1>1 DEF Emits
<1>2. ASSUME NEW j \in DOMAIN dest, dest[j].arg = i, dest[j].name = m
      PROVE  dest[j] = [arg |-> i, name |-> m]
  BY <1>2, DestRecords
<1>3. QED
  BY <1>1, <1>2 DEF Stream!Written, Emits

(* Appending a wanted copy that is new and least is a Write of the stream. *)
LEMMA EmitIsWrite ==
  ASSUME NEW c, c \in Stream!Remaining,
         \A f \in Stream!Remaining \ {c} : CopyBefore(c, f),
         dest' = Append(dest, c), pc \in {"init", "loop"}, pc' = pc,
         UNCHANGED <<archive, req>>
  PROVE  Stream!Next
<1>1. Stream!Write(c)
  BY WantedStable DEF Stream!Write, StreamState
<1>2. QED
  BY <1>1 DEF Stream!Next


(* A step that writes nothing and keeps running is a stutter of the stream; *)
(* one that fails is a Stop.                                               *)
LEMMA QuietStep ==
  ASSUME UNCHANGED <<archive, req, dest>>,
         \/ StreamState' = StreamState
         \/ pc \in {"init", "loop"} /\ pc' = "failed"
  PROVE  [Stream!Next]_Stream!vars
BY WantedStable DEF Stream!Next, Stream!Stop, Stream!vars, StreamState

(***************************************************************************)
(* --glob: copying name n for pattern k writes the least copy still to     *)
(* write.  A wanted copy for an earlier argument, or for k and a name      *)
(* already scanned, has been written (CompleteInv); one for k and a name   *)
(* still to scan sorts after n (IsFirst); the rest are for later arguments.*)
(***************************************************************************)
LEMMA GlobEntryRefines ==
  ASSUME RefInv, NEW n \in todo, CatGlobEntry(n)
  PROVE  [Stream!Next]_Stream!vars
<1>0. /\ req.glob /\ pc = "loop" /\ phase = "entries"
      /\ todo' = todo \ {n} /\ \A m \in todo \ {n} : NameLt(n, m)
      /\ UNCHANGED <<archive, req, k, phase>>
      /\ n \in DOMAIN archive /\ k \in 1..Len(req.files) /\ ValidPattern(req.files[k])
      /\ TypeOK
  BY DEF CatGlobEntry, IsFirst, RefInv, CatInv, TypeOK, PhaseInv
<1> DEFINE c == [arg |-> k, name |-> n]
<1>1. CASE /\ GlobMatch(req.files[k], Render(n)) /\ archive[n] = "ok"
           /\ dest' = Append(dest, c) /\ pc' = pc
  <2>1. c \in WantedCopies
    BY <1>0, <1>1 DEF WantedCopies, Asked
  <2>2. c \notin Stream!Written
    <3> SUFFICES ASSUME NEW j \in DOMAIN dest, dest[j] = c PROVE FALSE
      BY DEF Stream!Written
    <3>1. dest[j].name \notin todo
      BY <1>0 DEF RefInv, FreshInv
    <3>2. QED
      BY <3>1
  <2>3. \A f \in Stream!Remaining \ {c} : CopyBefore(c, f)
    <3> SUFFICES ASSUME NEW f \in WantedCopies, f \notin Stream!Written, f # c
                 PROVE  CopyBefore(c, f)
      BY DEF Stream!Remaining
    <3>1. /\ f = [arg |-> f.arg, name |-> f.name]
          /\ f.arg \in 1..Len(req.files) /\ f.name \in DOMAIN archive
          /\ Asked(f.arg, f.name) /\ archive[f.name] = "ok"
      BY WantedShape
    <3>2. ~Emits(f.arg, f.name)
      BY <1>0, <3>1, WrittenIsEmits
    <3>3. ~(f.arg < k) /\ ~(f.arg = k /\ f.name \notin todo)
      BY <1>0, <3>1, <3>2 DEF RefInv, CatInv, CompleteInv
    <3>4. CASE f.arg = k
      <4>1. f.name \in todo \ {n}
        BY <3>1, <3>3, <3>4
      <4>2. QED
        BY <1>0, <4>1, <3>4 DEF CopyBefore
    <3>5. CASE f.arg # k
      BY <1>0, <3>1, <3>3, <3>5 DEF CopyBefore
    <3>6. QED
      BY <3>4, <3>5
  <2>4. QED
    BY <1>0, <1>1, <2>1, <2>2, <2>3, EmitIsWrite DEF Stream!Remaining
<1>2. CASE UNCHANGED <<dest, pc>>
  BY <1>0, <1>2, QuietStep DEF StreamState
<1>3. CASE UNCHANGED dest /\ pc' = "failed"
  BY <1>0, <1>3, QuietStep
<1>4. Lookup(n) = archive[n]
  BY <1>0 DEF Lookup
<1>5. QED
  BY <1>1, <1>2, <1>3, <1>4 DEF CatGlobEntry, CopyEntry, Fail


(***************************************************************************)
(* Without --glob: copying the entry named by argument k writes the least  *)
(* copy still to write: every copy for an earlier argument is written, and *)
(* argument k asks for that one entry only.                                *)
(***************************************************************************)
LEMMA ExactEntryRefines ==
  ASSUME RefInv, CatExactEntry
  PROVE  [Stream!Next]_Stream!vars
<1> DEFINE fn == req.files[k]
<1> DEFINE c == [arg |-> k, name |-> fn]
<1>0. /\ ~req.glob /\ pc = "loop" /\ k \in 1..Len(req.files)
      /\ UNCHANGED <<archive, req>> /\ CopyEntry(k, fn)
      /\ \A j \in DOMAIN dest : dest[j].arg < k
      /\ TypeOK
  <2>1. /\ ~req.glob /\ pc = "loop" /\ UNCHANGED <<archive, req>> /\ CopyEntry(k, fn)
        /\ k \in 1..Len(req.files) /\ TypeOK
    BY DEF CatExactEntry, RefInv, CatInv, TypeOK
  <2>2. phase = "next"
    BY <2>1 DEF RefInv, CatInv, TypeOK, Phases, PhaseInv
  <2>3. QED
    BY <2>1, <2>2 DEF RefInv, CatInv, CursorInv
<1>1. CASE Lookup(fn) = "ok" /\ dest' = Append(dest, c) /\ pc' = pc
  <2>1. c \in WantedCopies
    BY <1>0, <1>1 DEF WantedCopies, Asked, Lookup
  <2>2. c \notin Stream!Written
    BY <1>0 DEF Stream!Written
  <2>3. \A f \in Stream!Remaining \ {c} : CopyBefore(c, f)
    <3> SUFFICES ASSUME NEW f \in WantedCopies, f \notin Stream!Written, f # c
                 PROVE  CopyBefore(c, f)
      BY DEF Stream!Remaining
    <3>1. /\ f = [arg |-> f.arg, name |-> f.name]
          /\ f.arg \in 1..Len(req.files) /\ f.name \in DOMAIN archive
          /\ Asked(f.arg, f.name) /\ archive[f.name] = "ok"
      BY WantedShape
    <3>2. ~Emits(f.arg, f.name)
      BY <1>0, <3>1, WrittenIsEmits
    <3>3. ~(f.arg < k)
      BY <1>0, <3>1, <3>2 DEF RefInv, CatInv, CompleteInv
    <3>4. f.arg # k
      BY <1>0, <3>1 DEF Asked
    <3>5. QED
      BY <1>0, <3>1, <3>3, <3>4 DEF CopyBefore
  <2>4. QED
    BY <1>0, <1>1, <2>1, <2>2, <2>3, EmitIsWrite DEF Stream!Remaining
<1>2. CASE UNCHANGED <<dest, pc>>
  BY <1>0, <1>2, QuietStep DEF StreamState
<1>3. CASE UNCHANGED dest /\ pc' = "failed"
  BY <1>0, <1>3, QuietStep
<1>4. QED
  BY <1>0, <1>1, <1>2, <1>3 DEF CopyEntry, Fail

(* The last argument done: everything wanted is written, a Finish.         *)
LEMMA DoneRefines ==
  ASSUME RefInv, CatDone
  PROVE  Stream!Next
<1>0. /\ pc = "loop" /\ pc' = "done" /\ k = Len(req.files) + 1
      /\ UNCHANGED <<archive, req, dest>> /\ TypeOK
  BY DEF CatDone, RefInv, CatInv, TypeOK, PhaseInv
<1>1. Stream!Remaining = {}
  <2> SUFFICES ASSUME NEW f \in WantedCopies PROVE f \in Stream!Written
    BY DEF Stream!Remaining
  <2>1. /\ f = [arg |-> f.arg, name |-> f.name]
        /\ f.arg \in 1..Len(req.files) /\ f.name \in DOMAIN archive
        /\ Asked(f.arg, f.name) /\ archive[f.name] = "ok"
    BY WantedShape
  <2>2. Emits(f.arg, f.name)
    BY <1>0, <2>1 DEF RefInv, CatInv, CompleteInv
  <2>3. QED
    BY <1>0, <2>1, <2>2, WrittenIsEmits
<1>2. QED
  BY <1>0, <1>1, WantedStable DEF Stream!Next, Stream!Finish, StreamState

(* Every step of cat is a step or a stutter of the stream.                 *)
LEMMA StreamStep == RefInv /\ [Next]_vars => [Stream!Next]_Stream!vars
<1> SUFFICES ASSUME RefInv, [Next]_vars PROVE [Stream!Next]_Stream!vars
  OBVIOUS
<1>1. CASE CatStart
  BY <1>1, QuietStep DEF CatStart, Fail, StreamState
<1>2. CASE CatPatternBegin \/ CatPatternEnd
  <2>1. UNCHANGED <<archive, req, dest, pc>>
    BY <1>2 DEF CatPatternBegin, CatPatternEnd
  <2>2. QED
    BY <2>1, QuietStep DEF StreamState
<1>3. CASE \E n \in todo : CatGlobEntry(n)
  BY <1>3, GlobEntryRefines
<1>4. CASE CatExactEntry
  BY <1>4, ExactEntryRefines
<1>5. CASE CatDone
  BY <1>5, DoneRefines
<1>6. CASE UNCHANGED vars
  <2>1. UNCHANGED <<archive, req, dest, pc>>
    BY <1>6 DEF vars
  <2>2. QED
    BY <2>1, QuietStep DEF StreamState
<1>7. QED
  BY <1>1, <1>2, <1>3, <1>4, <1>5, <1>6 DEF Next

(***************************************************************************)
(* cat implements the ordered stream, for every archive and command line: *)
(* its output is at every moment a prefix of the complete output, in       *)
(* order and without repetition, and it succeeds only once it is complete. *)
(* (The fairness part of CatImplementsStream is checked by TLC.)          *)
(***************************************************************************)
THEOREM CatRefinesStream == Spec => Stream!Init /\ [][Stream!Next]_Stream!vars
<1>1. Init => RefInv
  BY RequestsAssumption
     DEF Init, RefInv, FreshInv, CatInv, TypeOK, PCs, Phases, Errors, CatStartInv,
         SoundInv, CompleteInv, OrderInv, CursorInv, PhaseInv, CatDoneInv
<1>2. RefInv /\ [Next]_vars => RefInv'
  BY CatInvStep, FreshStep DEF RefInv
<1>3. Init => Stream!Init
  BY DEF Init, Stream!Init, StreamState
<1>4. QED
  BY <1>1, <1>2, <1>3, StreamStep, PTL DEF Spec

=============================================================================
