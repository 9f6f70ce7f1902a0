----------------------------- MODULE MCPartStore -----------------------------
(* PartStore for TLC: two contents of two chunks, of one, and an empty one *)
(* when it is among the Files.                                             *)
EXTENDS PartStore

MCSize == [f \in Files |-> CASE f = "long" -> 2 [] f = "short" -> 1 [] f = "other" -> 2
                             [] f = "empty" -> 0]
=============================================================================
