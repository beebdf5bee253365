----------------------------- MODULE CacheCore -----------------------------
(***************************************************************************)
(* The tag array of a cache (CacheAssoc and CacheDM of libsuc, the latter  *)
(* with one way).  A set is the sequence of its lines in the order of      *)
(* `content': the most recently used one first.  The state of a line is    *)
(* CState of libmem.                                                       *)
(***************************************************************************)
EXTENDS Naturals, Sequences, FiniteSetsExt

CONSTANT NoTag  (* the tag of an invalid line                               *)

Line(Tags) == [tag: Tags \cup {NoTag}, valid: BOOLEAN, dirty: BOOLEAN,
               locked: BOOLEAN]

invalid == [tag |-> NoTag, valid |-> FALSE, dirty |-> FALSE, locked |-> FALSE]

validate(l) == [l EXCEPT !.valid = TRUE, !.locked = FALSE]

ways(w, a) == {i \in DOMAIN w : w[i].tag = a}
holds(w, a) == ways(w, a) # {}
lineOf(w, a) == w[CHOOSE i \in ways(w, a) : TRUE]

toFront(w, i) == <<w[i]>> \o SubSeq(w, 1, i - 1) \o SubSeq(w, i + 1, Len(w))

(* findLineTag, of a line that is there: whoever looks a line up moves it  *)
(* to the front.                                                           *)
findLineTag(w, a) == toFront(w, CHOOSE i \in ways(w, a) : TRUE)

(* Mutant: a locked line is replaced.                                      *)
mutIgnoreLocked(w, a) ==
  LET free == {i \in DOMAIN w : ~w[i].valid} IN
  IF free # {} THEN Min(free) ELSE Len(w)

(* findLine2Replace: the youngest invalid line, else the oldest one that   *)
(* is not locked; 0: there is none.                                        *)
findLine2Replace(w, a) ==
  LET free     == {i \in DOMAIN w : ~w[i].valid}
      unlocked == {i \in DOMAIN w : ~w[i].locked} IN
  CASE holds(w, a)                                       -> Min(ways(w, a))
    [] ~holds(w, a) /\ free # {}                         -> Min(free)
    [] ~holds(w, a) /\ free = {} /\ unlocked # {}        -> Max(unlocked)
    [] ~holds(w, a) /\ free = {} /\ unlocked = {}        -> 0

(* fillLine: the line chosen has the new tag at once, whatever else has to *)
(* happen before the old one is gone.                                      *)
fillLine(w, i, a) == toFront([w EXCEPT ![i].tag = a], i)
=============================================================================
