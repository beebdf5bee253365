-------------------------------- MODULE Port --------------------------------
(***************************************************************************)
(* Ports (libsuc/Port.cpp): contention for units that take a use every ocp *)
(* clocks.  PortGeneric::create chooses among five representations; lTime  *)
(* is of the first four, busy (portBusyUntil) of PortNPipe.  An operation  *)
(* returns the clock t at which the use begins and the port after it.      *)
(* lock4nCycles is called nowhere.                                         *)
(***************************************************************************)
EXTENDS Naturals, Sequences, SequencesExt, FiniteSetsExt

PortNPipe(nUnits, occ, now) ==
  [kind |-> "NPipe", nUnits |-> nUnits, ocp |-> occ, lTime |-> 0, freeUnits |-> 0,
   busy |-> [i \in 1 .. nUnits |-> now]]

create(nUnits, occ, now) ==
  LET kind == IF occ = 0 \/ nUnits = 0 THEN "Unlimited"
              ELSE IF occ = 1 THEN (IF nUnits = 1 THEN "FullyPipe" ELSE "FullyNPipe")
              ELSE (IF nUnits = 1 THEN "Pipe" ELSE "NPipe")
      lTime == IF kind = "Pipe" THEN (IF now > occ THEN now - occ ELSE 0) ELSE now
  IN  IF kind = "NPipe" THEN PortNPipe(nUnits, occ, now)
      ELSE [kind |-> kind, nUnits |-> nUnits, ocp |-> occ, lTime |-> lTime,
            freeUnits |-> nUnits, busy |-> <<>>]

(* lTime, but not in the past.                                             *)
notPast(p, now) == IF p.lTime < now THEN now ELSE p.lTime

calcNextSlot(p, now) ==
  CASE p.kind = "NPipe" -> Max({now, Min(Range(p.busy))})
    [] p.kind = "FullyNPipe" ->
         IF p.lTime < now THEN now
         ELSE p.lTime + (IF p.freeUnits = 0 THEN 1 ELSE 0)
    [] OTHER -> notPast(p, now)

(* The unit a use of a PortNPipe takes: the first that is idle since an    *)
(* earlier clock, or else the first of those that are free soonest.        *)
freeUnit(p, now) ==
  LET idle == {i \in DOMAIN p.busy : p.busy[i] < now}
      soonest == {i \in DOMAIN p.busy : p.busy[i] = Min(Range(p.busy))}
  IN  IF idle # {} THEN Min(idle) ELSE Min(soonest)

(* Mutant: a unit that is idle starts its occupancy where the last ended.  *)
mutLateUnit(p, now) ==
  LET u == freeUnit(p, now)
  IN  [t |-> Max({now, p.busy[u]}), p |-> [p EXCEPT !.busy[u] = @ + p.ocp]]

nextSlotNPipe(p, now) ==
  LET u == freeUnit(p, now)
      t == Max({now, p.busy[u]})
  IN  [t |-> t, p |-> [p EXCEPT !.busy[u] = t + p.ocp]]

nextSlotFullyNPipe(p, now) ==
  LET fresh == [p EXCEPT !.lTime = now, !.freeUnits = p.nUnits - 1]
      next == [p EXCEPT !.lTime = @ + 1, !.freeUnits = p.nUnits - 1]
      q == IF p.lTime < now THEN fresh
           ELSE IF p.freeUnits > 0 THEN [p EXCEPT !.freeUnits = @ - 1] ELSE next
  IN  [t |-> q.lTime, p |-> q]

(* PortFullyPipe::nextSlot, PortPipe::nextSlot, PortUnlimited::nextSlot.   *)
nextSlotPipe(p, now) ==
  LET t == notPast(p, now)
  IN  [t |-> t, p |-> [p EXCEPT !.lTime = IF p.kind = "Unlimited" THEN t
                                          ELSE t + p.ocp]]

nextSlot(p, now) ==
  CASE p.kind = "NPipe" -> nextSlotNPipe(p, now)
    [] p.kind = "FullyNPipe" -> nextSlotFullyNPipe(p, now)
    [] OTHER -> nextSlotPipe(p, now)

(* n calls of nextSlot, at least one; the time of the first.               *)
slotBySlot(p, n, now) ==
  LET first == nextSlot(p, now)
      again(q, i) == nextSlot(q, now).p
  IN  [t |-> first.t, p |-> FoldLeft(again, first.p, [i \in 1 .. n - 1 |-> i])]

occupySlots(p, n, now) ==
  LET t == notPast(p, now)
      taken == CASE p.kind = "Unlimited" -> 0
                 [] p.kind = "FullyNPipe" -> n \div p.nUnits
                 [] OTHER -> p.ocp * n
  IN  IF p.kind = "NPipe" THEN slotBySlot(p, n, now)
      ELSE [t |-> t, p |-> [p EXCEPT !.lTime = t + taken]]
=============================================================================
