------------------------------ MODULE MESIState ------------------------------
(***************************************************************************)
(* Line states of the MESI protocol and the pure functions on them:        *)
(* the bit tests of SMPCacheState, the transition table asserted by        *)
(* MESIProtocol::changeState and MESIProtocol::combineResponses.  A state  *)
(* word is its symbolic name; each bit test is the set of names that have  *)
(* the bit.                                                                *)
(***************************************************************************)

Stable    == {"SHARED", "EXCLUSIVE", "MODIFIED"}
Transient == {"TRANS_RSV", "TRANS_RD", "TRANS_RD_MEM", "TRANS_WR",
              "TRANS_WR_MEM", "TRANS_INV", "TRANS_INV_D"}
LineState == {"INVALID"} \cup Stable \cup Transient

isValid(s)      == s # "INVALID"
isLocked(s)     == s \in Transient
isDirty(s)      == s \in {"MODIFIED", "TRANS_INV_D"}
canBeRead(s)    == s \in Stable
canBeWritten(s) == s \in {"EXCLUSIVE", "MODIFIED"}

(* The state preInvalidate moves a valid line to.                          *)
preInvalidate(s) == IF isDirty(s) THEN "TRANS_INV_D" ELSE "TRANS_INV"

(* What one snooped cache c, holding the line in the unlocked valid state  *)
(* local, adds to the response collected in the request q.                 *)
combineResponses(q, local, c) ==
  IF local = "SHARED"
    THEN IF q.found THEN q
         ELSE [q EXCEPT !.found = TRUE, !.supplier = c, !.state = local]
    ELSE [q EXCEPT !.found = TRUE, !.supplier = c, !.state = local,
                   !.writeDown = q.writeDown \/ local = "MODIFIED"]
=============================================================================
