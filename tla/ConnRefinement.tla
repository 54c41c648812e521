--------------------------- MODULE ConnRefinement ----------------------------
(***************************************************************************)
(* The refinement mapping from ConnWrap to ConnStats.  A Read or Write     *)
(* takes effect when it gets the lock: while a goroutine is in the         *)
(* critical section, the abstract counter and error are the ones it is     *)
(* about to store.  A map takes effect when ToMap releases the lock.       *)
(***************************************************************************)
EXTENDS ConnWrap

InCrit(d) == mu # NoProc /\ pc[mu] = Crit(d)

statsBytes == [d \in Dir |-> IF InCrit(d) THEN Total(mu) ELSE Bytes[d]]

statsErr ==
  [d \in Dir |->
     IF InCrit(d) /\ (d = "tx" \/ res[mu].err = "net") THEN res[mu].err ELSE Err[d]]

statsView == [p \in Procs |-> IF pc[p] = "toMap" THEN NoView ELSE view[p]]

Stats == INSTANCE ConnStats
           WITH Bytes <- statsBytes, Err <- statsErr, view <- statsView

\* Every execution of the wrapper's methods, however they interleave, is one in
\* which each of them acts on the statistics at a single instant; in particular
\* a map from ToMap is never a mixture of two states.
ImplementsStats == Stats!Spec

=============================================================================
