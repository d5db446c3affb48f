---------------------------- MODULE OrderedOutput ----------------------------
(***************************************************************************)
(* What a command that streams a set of items to one output promises,     *)
(* whatever loops it runs to find them: it writes the items it is asked    *)
(* for, each once, always the least one still to write, and it may stop   *)
(* (fail) at any point.  So what has been written when it stops is a       *)
(* prefix of the complete output, and it ends successfully only when       *)
(* nothing is left to write.                                               *)
(*                                                                         *)
(* wanted is the set of items the command is asked for; Before(e, f) is    *)
(* the order the items must come out in.                                   *)
(***************************************************************************)
EXTENDS Sequences

CONSTANT Before(_, _)

VARIABLES
  wanted,   \* the items the output must hold
  written,  \* the items written so far, in order
  st        \* "run", "done" or "failed"

vars == <<wanted, written, st>>

Written == {written[i] : i \in DOMAIN written}

Remaining == wanted \ Written

Init == written = <<>> /\ st = "run"

(* Write the least item not yet written.                                   *)
Write(e) ==
  /\ st = "run"
  /\ e \in Remaining
  /\ \A f \in Remaining \ {e} : Before(e, f)
  /\ written' = Append(written, e)
  /\ UNCHANGED <<wanted, st>>

(* Stop at any point, keeping what was written.                            *)
Stop == st = "run" /\ st' = "failed" /\ UNCHANGED <<wanted, written>>

(* Succeed once everything is written.                                     *)
Finish == st = "run" /\ Remaining = {} /\ st' = "done" /\ UNCHANGED <<wanted, written>>

Next == (\E e \in Remaining : Write(e)) \/ Stop \/ Finish

Spec == Init /\ [][Next]_vars /\ WF_vars(Next)

=============================================================================
