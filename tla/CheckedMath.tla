---------------------------- MODULE CheckedMath ----------------------------
(***************************************************************************)
(* The unsigned integers of the on-chain programs.                         *)
(*                                                                         *)
(* Arithmetic there is checked: an operation yields a number or an error,  *)
(* and the error aborts the transaction.  Operators of this project that   *)
(* compute return the SET of their results: a singleton, or {} for an      *)
(* error.  A handler reads  \E amount \in SomeAmount(...) : ...  and is     *)
(* disabled when there is none.                                            *)
(***************************************************************************)
EXTENDS Integers

CONSTANTS
  U64_MAX,   \* largest u64: token amounts, the interest index
  U128_MAX   \* largest u128: managed assets, values in WAD, every product

ASSUME WidthAssumption ==
  /\ U64_MAX \in Nat
  /\ U128_MAX \in Nat
  /\ U64_MAX <= U128_MAX

FloorDiv(a, d) == a \div d

CeilDiv(a, d) == IF a % d = 0 THEN a \div d ELSE a \div d + 1

(* The number n, when it fits.                                             *)
U64(n) == {m \in {n} : m \in 0 .. U64_MAX}

U128(n) == {m \in {n} : m \in 0 .. U128_MAX}

(* checked_mul in u128, then checked_div.                                  *)
MulDiv(a, b, d) == IF d = 0 THEN {} ELSE {FloorDiv(p, d) : p \in U128(a * b)}
=============================================================================
