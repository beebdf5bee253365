------------------------------ MODULE Pipeline ------------------------------
(***************************************************************************)
(* The front-end pipeline of a processor (Pipeline.cpp): the buckets of    *)
(* instructions between fetch and rename.  The instruction cache answers   *)
(* in any order; the pipeline puts the buckets back in fetch order.        *)
(*                                                                         *)
(* A pipeline is a record, a method an operator on it.  A bucket is the    *)
(* sequence of its instructions; the clean mark holds the null pointer.    *)
(* `order' are the buckets from minItemCntr to maxItemCntr - 1, by pipeId: *)
(* the k-th has pipeId minItemCntr + k - 1, and is in `received' when it   *)
(* is ready.  Free buckets are interchangeable: bucketPool counts them.    *)
(* The age of a bucket is left out: time may or may not have passed.       *)
(***************************************************************************)
EXTENDS Naturals, Sequences, FiniteSetsExt

CONSTANTS
  PipeLength,    (* decodeDelay + renameDelay                              *)
  MaxIRequests   (* buckets the instruction cache may work on              *)

ASSUME PipelineAssumption == PipeLength \in Nat /\ MaxIRequests \in Nat

bucketPoolMaxSize == PipeLength + 1 + MaxIRequests

cleanItem == <<0>>

NewPipeline ==
  [order |-> <<>>, buffer |-> <<>>, bucketPool |-> bucketPoolMaxSize,
   cleanBucketPool |-> bucketPoolMaxSize, nIRequests |-> MaxIRequests,
   nCleanMarks |-> 0]

hasNewItem(pl) == pl.nIRequests # 0 /\ pl.bucketPool # 0

(* newItem and the fetch that fills the bucket.                            *)
newItem(pl, insts) ==
  [pl EXCEPT !.nIRequests = @ - 1, !.bucketPool = @ - 1,
             !.order = Append(@, [ready |-> FALSE, insts |-> insts])]

doneItem(pl) == [pl EXCEPT !.bucketPool = @ + 1]

(* Buckets that are ready and next in order go on; an empty one is done.   *)
clearItems(pl) ==
  LET n == Max({0} \cup {k \in 1..Len(pl.order) :
                           \A j \in 1..k : pl.order[j].ready})
      full == {k \in 1..n : pl.order[k].insts # <<>>}
      nth(i) == CHOOSE k \in full : Cardinality({j \in full : j <= k}) = i
  IN  [pl EXCEPT !.order = SubSeq(@, n + 1, Len(@)),
                 !.buffer = @ \o [i \in 1..Cardinality(full) |-> pl.order[nth(i)].insts],
                 !.bucketPool = @ + (n - Cardinality(full))]

(* Mutant: a bucket goes on as soon as it is ready.                        *)
readyItemUnordered(pl, k) ==
  [pl EXCEPT !.nIRequests = @ + 1,
             !.order = SubSeq(@, 1, k - 1) \o SubSeq(@, k + 1, Len(@)),
             !.buffer = Append(@, pl.order[k].insts)]

readyItem(pl, k) ==
  clearItems([pl EXCEPT !.nIRequests = @ + 1, !.order[k].ready = TRUE])

cleanMark(pl) ==
  LET marked == [pl EXCEPT
        !.nCleanMarks = @ + 1, !.cleanBucketPool = @ - 1,
        !.nIRequests = @ - 1,
        !.order = Append(@, [ready |-> FALSE, insts |-> cleanItem])]
  IN  readyItem(marked, Len(marked.order))

(* What is left of a bucket when the instructions at its front that are    *)
(* in fakes, those of a wrong path, are swallowed.                         *)
Swallow(b, fakes) ==
  LET n == Max({0} \cup {k \in 1..Len(b) : \A j \in 1..k : b[j] \in fakes})
  IN  SubSeq(b, n + 1, Len(b))

(* What nextItem makes of the bucket at the top of the buffer.             *)
topItem(pl, fakes) ==
  IF pl.nCleanMarks > 0 THEN Swallow(Head(pl.buffer), fakes)
                        ELSE Head(pl.buffer)

(* An iteration of nextItem: the top of the buffer is a clean mark, or a   *)
(* bucket of which nothing is left, or the item it returns.  After each of *)
(* the first two the next bucket may still be too young.                   *)
nextItem(pl, fakes) ==
  LET rest == [pl EXCEPT !.buffer = Tail(@)]
  IN  IF Head(pl.buffer) = cleanItem
      THEN [rest EXCEPT !.nCleanMarks = @ - 1, !.cleanBucketPool = @ + 1]
      ELSE IF topItem(pl, fakes) = <<>> THEN doneItem(rest) ELSE rest
=============================================================================
