--------------------------- MODULE RunningTotals ----------------------------
(***************************************************************************)
(* What the running totals of the contracts must equal.  They keep a sum   *)
(* next to the entries it summarises: a vault its outstandingExposure next *)
(* to advancedPrincipal, the share token its totalSupply next to the       *)
(* balances; and what a receiver holds is the sum of what it owes.         *)
(* Entries are a function from a finite set to Nat, and their total is the *)
(* number of their units: the k-th unit of entry x is <<x, k>>.  Counting  *)
(* units instead of folding keeps the sum free of recursion, so facts      *)
(* about it follow from the library's facts about cardinality.             *)
(***************************************************************************)
EXTENDS Naturals, FiniteSets

UnitsOf(x, n) == {x} \X (1 .. n)

Units(f) == UNION {UnitsOf(x, f[x]) : x \in DOMAIN f}

Total(f) == Cardinality(Units(f))
=============================================================================
