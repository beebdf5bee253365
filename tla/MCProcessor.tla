----------------------------- MODULE MCProcessor -----------------------------
(***************************************************************************)
(* Small programs, each chosen for what it makes the processor do.         *)
(***************************************************************************)
EXTENDS Processor

Inst(op, w, s, d) == [op |-> op, word |-> w, src1 |-> s, src2 |-> NoDependence, dest |-> d]
Alu == Inst("alu", NoWord, 1, 1)
Branch == Inst("branch", NoWord, 1, InvalidOutput)
Load(w) == Inst("load", w, NoDependence, 1)
Store(w) == Inst("store", w, 1, InvalidOutput)
Other(op) == Inst(op, NoWord, NoDependence, InvalidOutput)
Fence == Other("memfence")
FetchOp == Other("fetchop")

Conf(prog1, prog2, inOrder, recycleAt, misPath) ==
  [prog |-> <<prog1, prog2>>, inOrder |-> inOrder, recycleAt |-> recycleAt,
   misPath |-> misPath]

MCFake == {<<Store(1), Load(1)>>, <<Load(1), Branch>>}

MCConfs ==
  (* one processor, out of order *)
  {Conf(prog, <<>>, FALSE, at, FALSE) :
     prog \in {<<Alu, Store(1), Store(1), Load(1)>>, <<Load(1), Branch, Alu>>,
               <<FetchOp, Store(1), Fence, FetchOp>>, <<Store(1), Fence, Store(1)>>,
               <<Other("event"), Load(1), Other("acquire")>>},
     at \in {"Issue", "Execute"}}
  (* entries of the window held to retirement *)
  \cup {Conf(<<Alu, Store(1), Load(1)>>, <<>>, FALSE, "Retire", FALSE)}
  (* two processors, of which one reads what the other writes *)
  \cup {Conf(<<Alu, Store(1)>>, <<Load(1)>>, FALSE, "Issue", FALSE),
        Conf(<<Store(1), Load(2)>>, <<Store(2)>>, FALSE, "Execute", FALSE)}
  (* wrong paths *)
  \cup {Conf(<<Branch, Load(1)>>, <<>>, FALSE, "Issue", TRUE)}
  (* in order *)
  \cup {Conf(<<Alu, Load(1), Branch>>, <<>>, TRUE, "Issue", FALSE)}

(* Two processors that write the same word.                                *)
MCSharedWord == {Conf(<<Alu, Store(1), Load(1)>>, <<Store(1)>>, FALSE, "Issue", FALSE)}
=============================================================================
