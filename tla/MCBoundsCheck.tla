------------------------------ MODULE MCBoundsCheck ------------------------------
(* Every pair of ints of five bits, and a buffer that half of them fit into.   *)
EXTENDS BoundsCheck
====
