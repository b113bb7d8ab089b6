--------------------------- MODULE OrderedStream ----------------------------
(***************************************************************************)
(* What the sync takes a stream of the central source for: the items       *)
(* 1 .. total, each once and in their order, then the end, unless an error *)
(* comes first.                                                            *)
(***************************************************************************)
EXTENDS Naturals

VARIABLES total, given, status

streamVars == <<total, given, status>>

Init == total \in Nat /\ given = 0 /\ status = "open"

Give ==
  /\ status = "open" /\ given < total
  /\ given' = given + 1
  /\ UNCHANGED <<total, status>>

Finish ==
  /\ status = "open" /\ given = total
  /\ status' = "ended"
  /\ UNCHANGED <<total, given>>

Break == status = "open" /\ status' = "failed" /\ UNCHANGED <<total, given>>

Next == Give \/ Finish \/ Break

Spec == Init /\ [][Next]_streamVars
=============================================================================
