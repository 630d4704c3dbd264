--------------------------- MODULE MCDataPathGuard ---------------------------
(* Instances of DataPathGuard for TLC.                                     *)
EXTENDS DataPathGuard, TLC

\* The goroutines of the pool are interchangeable.
PoolSymmetry == Permutations(Pool)

\* While the wake monitor is at work at most one other task is.
WakerWithOne == task[Waker] # Idle => Cardinality({p \in Task : task[p] # Idle}) <= 2
=============================================================================
