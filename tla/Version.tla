------------------------------ MODULE Version -------------------------------
(***************************************************************************)
(* Release versions as the updater compares them (sda-updater/src/         *)
(* checker.rs).  parse_version turns a dotted string into its segments: a  *)
(* segment counts up to its first non-digit, and one without digits, or    *)
(* too large for a u64, counts as zero.  A version here is what it         *)
(* returns, a sequence of numbers; "0.2.0-rc1" and "0.2.0" are the same.   *)
(***************************************************************************)
EXTENDS Integers, Sequences

Segments == Seq(Nat)

(* Vec::resize with zeros, to at least the length of v. *)
resize(v, n) == [i \in 1..n |-> IF i <= Len(v) THEN v[i] ELSE 0]

(* The order Rust gives vectors: the first difference decides, and a proper
   prefix is the smaller one. *)
vec_gt(a, b) ==
  \/ \E i \in 1..Len(a) :
       /\ i <= Len(b) /\ a[i] > b[i]
       /\ \A j \in 1..(i - 1) : a[j] = b[j]
  \/ Len(a) > Len(b) /\ \A j \in 1..Len(b) : a[j] = b[j]

is_newer(a, b) ==
  LET len == IF Len(a) > Len(b) THEN Len(a) ELSE Len(b)
  IN  vec_gt(resize(a, len), resize(b, len))
=============================================================================
