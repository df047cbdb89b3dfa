------------------------------ MODULE Partition ------------------------------
(***************************************************************************)
(* The partition of the parallel transfers (lengthPerThread, lines 371-374 *)
(* of the upload and 708-711 of the download, and the offsets of lines    *)
(* 376-383 and 713-720): n tasks of ceil(F / n) bytes each, task t from   *)
(* offset t * ceil(F / n).  These are the arithmetic facts the proofs of  *)
(* the transfers rest on, for every length F and task count n.            *)
(***************************************************************************)
EXTENDS Integers, TLAPS

(* ceil(F / N), as the code computes it with / and %.                      *)
CeilLen(F, N) == F \div N + (IF F % N > 0 THEN 1 ELSE 0)

(* The part length is a natural number.                                    *)
LEMMA CeilLenNat ==
  ASSUME NEW F \in Nat, NEW N \in Nat \ {0}
  PROVE  CeilLen(F, N) \in Nat
BY Z3 DEF CeilLen

(* N parts of ceil(F / N) bytes are at least F bytes.                      *)
LEMMA CeilLenCovers ==
  ASSUME NEW F \in Nat, NEW N \in Nat \ {0}
  PROVE  F <= N * CeilLen(F, N)
BY Z3 DEF CeilLen

(* Integer division of a natural number: the quotient and its bounds.     *)
LEMMA DivBounds ==
  ASSUME NEW a \in Nat, NEW b \in Nat \ {0}
  PROVE  a \div b \in Nat /\ (a \div b) * b <= a /\ a < (a \div b) * b + b
BY Z3

(* Every offset below F lies in the range of one of the N tasks.           *)
LEMMA PartsCover ==
  ASSUME NEW F \in Nat, NEW N \in Nat \ {0}, NEW k \in 0..(F - 1)
  PROVE  \E t \in 0..(N - 1) : t * CeilLen(F, N) <= k /\ k < t * CeilLen(F, N) + CeilLen(F, N)
<1>. DEFINE L == CeilLen(F, N)
<1>1. L \in Nat /\ F <= N * L
  BY CeilLenNat, CeilLenCovers
<1>2. L # 0
  <2>1. F \in Nat \ {0}
    OBVIOUS
  <2>. QED
    BY <2>1, Z3 DEF CeilLen
<1>. DEFINE q == k \div L
<1>3. q \in Nat /\ q * L <= k /\ k < q * L + L
  <2>1. k \in Nat /\ L \in Nat \ {0}
    BY <1>1, <1>2
  <2>. QED
    BY <2>1, DivBounds
<1>4. q <= N - 1
  <2>1. SUFFICES ASSUME q >= N PROVE FALSE
    BY <1>3
  <2>2. q * L >= N * L
    BY <1>1, <1>3, <2>1, Z3
  <2>. QED
    BY <1>1, <1>3, <2>2
<1>. QED
  BY <1>3, <1>4

=============================================================================
