---------------------------- MODULE MemoryBlocks ----------------------------
(***************************************************************************)
(* How much memory a table of per-service amounts stands for: the number   *)
(* of unit blocks <<service, 1>>, ..., <<service, amount>> in it.  Counting *)
(* a set, rather than adding up a fold, is what lets ForgeProofs derive    *)
(* the arithmetic of the ledger from the theorems on cardinality.          *)
(***************************************************************************)
EXTENDS Integers, FiniteSets

BlocksOf(f, s) == {s} \X (1..f[s])

Blocks(f, S) == UNION {BlocksOf(f, s) : s \in S}

\* The sum of f[s] over the services s in S.
Total(f, S) == Cardinality(Blocks(f, S))
=============================================================================
