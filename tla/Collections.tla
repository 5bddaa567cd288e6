---------------------------- MODULE Collections -----------------------------
(***************************************************************************)
(* What the properties say of volumes, shares and capital, and of queues.  *)
(***************************************************************************)
EXTENDS Integers, Sequences, FiniteSets, FiniteSetsExt

\* The sum of f over the finite set S.
SumOver(f, S) == MapThenSumSet(LAMBDA x : f[x], S)

\* Numbers in increasing order: a queue in order of arrival.
Ascending(q) == \A i, j \in 1..Len(q) : i < j => q[i] < q[j]
=============================================================================
