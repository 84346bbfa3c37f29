-------------------------- MODULE CushionVaultProofs --------------------------
(***************************************************************************)
(* Safety of the vault for every set of users, every configuration, every  *)
(* amount and every width.                                                 *)
(*                                                                         *)
(* First what the share conversions guarantee.  Throughout, A is assets +  *)
(* VirtualAssets, R is supply + VirtualShares, x is an amount of assets    *)
(* and q an amount of shares.  All a user can do is trade x against q, and *)
(* the rounding makes every trade fair:                                    *)
(*   entering (deposit, mint)      q * A <= x * R                          *)
(*   leaving (redeem, withdraw)    x * R <= q * A                          *)
(*                                                                         *)
(* The inductive invariant is VaultInv: the types, that the price of a     *)
(* share stays at or above the virtual one it opened at, and that the      *)
(* supply is the sum of the users' shares.  Coverage of claims, one by one *)
(* and all together, the absence of profit in a round trip and the absence *)
(* of dilution follow from it and from the fairness of each trade.         *)
(***************************************************************************)
EXTENDS CushionVault, FiniteSetTheorems, WellFoundedInduction, TLAPS

(* Integer division, as the conversions use it.                            *)
LEMMA DivBounds ==
  ASSUME NEW a \in Nat, NEW d \in Nat \ {0}
  PROVE  /\ FloorDiv(a, d) \in Nat
         /\ FloorDiv(a, d) * d <= a
         /\ CeilDiv(a, d) \in Nat
         /\ a <= CeilDiv(a, d) * d
  BY DEF FloorDiv, CeilDiv

LEMMA ProductInNat ==
  ASSUME NEW a \in Nat, NEW b \in Nat
  PROVE  a * b \in Nat
  OBVIOUS

LEMMA MulMonotone ==
  ASSUME NEW a \in Nat, NEW b \in Nat, NEW c \in Nat, a <= b
  PROVE  a * c <= b * c
  OBVIOUS

LEMMA MulCancel ==
  ASSUME NEW a \in Int, NEW b \in Int, NEW c \in Nat \ {0}, a * c <= b * c
  PROVE  a <= b
  OBVIOUS

LEMMA Distribute ==
  ASSUME NEW a \in Int, NEW b \in Int, NEW c \in Int
  PROVE  /\ (a + b) * c = a * c + b * c
         /\ (a - b) * c = a * c - b * c
         /\ c * (a + b) = c * a + c * b
         /\ c * (a - b) = c * a - c * b
         /\ a * b = b * a
         /\ (a * b) * c = a * (b * c)
  OBVIOUS

(* Both directions of ConvertFloor and ConvertCeil.                        *)
LEMMA FloorConversion ==
  ASSUME NEW x \in Nat, NEW r \in Nat, NEW d \in Nat \ {0}, NEW q \in ConvertFloor(x, r, d)
  PROVE  q \in 0 .. U64_MAX /\ q * d <= x * r
<1>1. x * r \in Nat
  BY ProductInNat
<1>2. QED
  BY <1>1, DivBounds, WidthAssumption DEF ConvertFloor

LEMMA CeilConversion ==
  ASSUME NEW x \in Nat, NEW r \in Nat, NEW d \in Nat \ {0}, NEW q \in ConvertCeil(x, r, d)
  PROVE  q \in 0 .. U64_MAX /\ x * r <= q * d
<1>1. x * r \in Nat
  BY ProductInNat
<1>2. QED
  BY <1>1, DivBounds, WidthAssumption DEF ConvertCeil

(* Every conversion of a natural number yields natural numbers.            *)
LEMMA ConversionIsNat ==
  ASSUME NEW x \in Nat, NEW t \in Nat, NEW s \in Nat
  PROVE  /\ SharesFloor(x, t, s) \subseteq Nat
         /\ AssetsFloor(x, t, s) \subseteq Nat
         /\ AssetsCeil(x, t, s) \subseteq Nat
         /\ SharesCeil(x, t, s) \subseteq Nat
<1> DEFINE A == t + VirtualAssets
           R == s + VirtualShares
<1>1. A \in Nat /\ R \in Nat
  BY VirtualAssumption, WidthAssumption
<1>2. CASE Degenerate(t, s)
  BY <1>2 DEF SharesFloor, AssetsFloor, AssetsCeil, SharesCeil, OneToOne
<1>3. CASE ~ Degenerate(t, s)
  <2>1. A \in Nat \ {0} /\ R \in Nat \ {0}
    BY <1>1, <1>3 DEF Degenerate
  <2>2. ConvertFloor(x, R, A) \subseteq Nat /\ ConvertFloor(x, A, R) \subseteq Nat
    BY <2>1, FloorConversion, WidthAssumption
  <2>3. ConvertCeil(x, R, A) \subseteq Nat /\ ConvertCeil(x, A, R) \subseteq Nat
    BY <2>1, CeilConversion, WidthAssumption
  <2>4. QED
    BY <1>3, <2>2, <2>3 DEF SharesFloor, AssetsFloor, AssetsCeil, SharesCeil
<1>4. QED
  BY <1>2, <1>3

(* A trade that enters the vault is fair to those already in it.           *)
LEMMA EnteringIsFair ==
  ASSUME NEW t \in Nat, NEW s \in Nat, NEW x \in Nat, NEW q \in Nat,
         q \in SharesFloor(x, t, s) \/ x \in AssetsCeil(q, t, s)
  PROVE  q * (t + VirtualAssets) <= x * (s + VirtualShares)
<1> DEFINE A == t + VirtualAssets
           R == s + VirtualShares
<1>1. A \in Nat /\ R \in Nat
  BY VirtualAssumption, WidthAssumption
<1>2. CASE Degenerate(t, s)
  <2>1. t = 0 /\ s = 0 /\ x = q
    BY <1>2 DEF SharesFloor, AssetsCeil, OneToOne
  <2>2. A = 0
    BY <1>2, <2>1, VirtualAssumption, WidthAssumption, VirtualPairAssumption DEF Degenerate
  <2>3. q * A = 0 /\ x * R \in Nat
    BY <2>2, <1>1, ProductInNat
  <2>4. QED
    BY <2>3
<1>3. CASE ~ Degenerate(t, s)
  <2>1. A \in Nat \ {0} /\ R \in Nat \ {0}
    BY <1>1, <1>3 DEF Degenerate
  <2>2. CASE q \in SharesFloor(x, t, s)
    <3>1. q \in ConvertFloor(x, R, A)
      BY <1>3, <2>2 DEF SharesFloor
    <3>2. QED
      BY <3>1, <2>1, FloorConversion
  <2>3. CASE x \in AssetsCeil(q, t, s)
    <3>1. x \in ConvertCeil(q, A, R)
      BY <1>3, <2>3 DEF AssetsCeil
    <3>2. q * A <= x * R
      BY <3>1, <2>1, CeilConversion
    <3>3. QED
      BY <3>2
  <2>4. QED
    BY <2>2, <2>3
<1>4. QED
  BY <1>2, <1>3

(* A trade that leaves the vault is fair to those who stay.  An empty      *)
(* vault is the exception, and has no share that could leave.              *)
LEMMA LeavingIsFair ==
  ASSUME NEW t \in Nat, NEW s \in Nat, NEW x \in Nat, NEW q \in 1 .. s,
         x \in AssetsFloor(q, t, s) \/ q \in SharesCeil(x, t, s)
  PROVE  /\ x * (s + VirtualShares) <= q * (t + VirtualAssets)
         /\ t + VirtualAssets > 0
<1> DEFINE A == t + VirtualAssets
           R == s + VirtualShares
<1>1. A \in Nat /\ R \in Nat
  BY VirtualAssumption, WidthAssumption
<1>2. ~ Degenerate(t, s)
  BY DEF AssetsFloor, SharesCeil, OneToOne
<1>3. A \in Nat \ {0} /\ R \in Nat \ {0}
  BY <1>1, <1>2 DEF Degenerate
<1>4. CASE x \in AssetsFloor(q, t, s)
  <2>1. x \in ConvertFloor(q, A, R)
    BY <1>2, <1>4 DEF AssetsFloor
  <2>2. QED
    BY <2>1, <1>3, FloorConversion
<1>5. CASE q \in SharesCeil(x, t, s)
  <2>1. q \in ConvertCeil(x, R, A)
    BY <1>2, <1>5 DEF SharesCeil
  <2>2. QED
    BY <2>1, <1>3, CeilConversion
<1>6. QED
  BY <1>4, <1>5
-----------------------------------------------------------------------------
(* The opening price is a floor: entering trades keep it.                  *)
LEMMA EnteringKeepsOpeningPrice ==
  ASSUME NEW t \in Nat, NEW s \in Nat, NEW x \in Nat, NEW q \in Nat,
         q * (t + VirtualAssets) <= x * (s + VirtualShares),
         t * VirtualShares >= s * VirtualAssets
  PROVE  (t + x) * VirtualShares >= (s + q) * VirtualAssets
<1> DEFINE VA == VirtualAssets
           VS == VirtualShares
<1>1. VA \in Nat /\ VS \in Nat
  BY VirtualAssumption, WidthAssumption
<1>2. x * VS >= q * VA
  <2>1. CASE VA = 0
    BY <2>1, <1>1, ProductInNat
  <2>2. CASE VA > 0
    <3> DEFINE A == t + VA
               R == s + VS
    <3>1. A \in Nat \ {0} /\ R \in Nat
      BY <1>1, <2>2
    <3>2. R * VA <= A * VS
      BY <1>1, Distribute
    <3>3. (q * VA) * A <= (x * R) * VA
      <4>1. q * A \in Nat /\ x * R \in Nat
        BY <3>1, ProductInNat
      <4>2. (q * A) * VA <= (x * R) * VA
        BY <4>1, <1>1, MulMonotone
      <4>3. (q * A) * VA = (q * VA) * A
        BY <1>1, <3>1, Distribute
      <4>4. QED
        BY <4>2, <4>3
    <3>4. (x * R) * VA <= (x * VS) * A
      <4>1. R * VA \in Nat /\ A * VS \in Nat
        BY <1>1, <3>1, ProductInNat
      <4>2. (R * VA) * x <= (A * VS) * x
        BY <4>1, <3>2, MulMonotone
      <4>3. (R * VA) * x = (x * R) * VA /\ (A * VS) * x = (x * VS) * A
        BY <1>1, <3>1, Distribute
      <4>4. QED
        BY <4>2, <4>3
    <3>5. (q * VA) * A <= (x * VS) * A
      <4>1. q * VA \in Nat /\ x * VS \in Nat /\ x * R \in Nat
        BY <1>1, <3>1, ProductInNat
      <4>2. (q * VA) * A \in Nat /\ (x * VS) * A \in Nat /\ (x * R) * VA \in Nat
        BY <4>1, <1>1, <3>1, ProductInNat
      <4>3. QED
        BY <4>2, <3>3, <3>4
    <3>6. QED
      BY <3>5, <3>1, <1>1, ProductInNat, MulCancel
  <2>3. QED
    BY <1>1, <2>1, <2>2
<1>3. (t + x) * VS = t * VS + x * VS /\ (s + q) * VA = s * VA + q * VA
  BY <1>1, Distribute
<1>4. t * VS \in Nat /\ s * VA \in Nat /\ x * VS \in Nat /\ q * VA \in Nat
  BY <1>1, ProductInNat
<1>5. QED
  BY <1>2, <1>3, <1>4

(* A claim on existing shares is covered by what the vault manages.        *)
LEMMA ClaimIsCovered ==
  ASSUME NEW t \in Nat, NEW s \in Nat, NEW x \in Nat, NEW q \in 1 .. s,
         x * (s + VirtualShares) <= q * (t + VirtualAssets),
         t * VirtualShares >= s * VirtualAssets
  PROVE  x <= t
<1> DEFINE VA == VirtualAssets
           VS == VirtualShares
           R == s + VS
<1>1. VA \in Nat /\ VS \in Nat /\ R \in Nat \ {0}
  BY VirtualAssumption, WidthAssumption
<1>2. q * t <= s * t /\ q * VA <= s * VA
  BY <1>1, MulMonotone
<1>3. q * (t + VA) = q * t + q * VA /\ t * R = s * t + t * VS
  BY <1>1, Distribute
<1>4. /\ q * t \in Nat /\ q * VA \in Nat /\ s * t \in Nat
      /\ s * VA \in Nat /\ t * VS \in Nat /\ x * R \in Nat
  BY <1>1, ProductInNat
<1>5. x * R <= t * R
  BY <1>2, <1>3, <1>4
<1>6. QED
  BY <1>1, <1>5, MulCancel

(* A leaving trade takes out no more of the assets than of the shares.     *)
LEMMA LeavingDoesNotDilute ==
  ASSUME NEW A \in Nat, NEW R \in Nat, NEW x \in Nat, NEW q \in Nat, x * R <= q * A
  PROVE  (A - x) * R >= A * (R - q)
<1>1. (A - x) * R = A * R - x * R /\ A * (R - q) = A * R - q * A
  BY Distribute
<1>2. A * R \in Nat /\ x * R \in Nat /\ q * A \in Nat
  BY ProductInNat
<1>3. QED
  BY <1>1, <1>2

(* An entering trade brings in no less of the assets than of the shares.   *)
LEMMA EnteringDoesNotDilute ==
  ASSUME NEW A \in Nat, NEW R \in Nat, NEW x \in Nat, NEW q \in Nat, q * A <= x * R
  PROVE  (A + x) * R >= A * (R + q)
<1>1. (A + x) * R = A * R + x * R /\ A * (R + q) = A * R + q * A
  BY Distribute
<1>2. A * R \in Nat /\ x * R \in Nat /\ q * A \in Nat
  BY ProductInNat
<1>3. QED
  BY <1>1, <1>2

(* Leaving trades keep the opening price.                                  *)
LEMMA LeavingKeepsOpeningPrice ==
  ASSUME NEW t \in Nat, NEW s \in Nat, NEW x \in 0 .. t, NEW q \in 1 .. s,
         x * (s + VirtualShares) <= q * (t + VirtualAssets),
         t * VirtualShares >= s * VirtualAssets
  PROVE  (t - x) * VirtualShares >= (s - q) * VirtualAssets
<1> DEFINE VA == VirtualAssets
           VS == VirtualShares
           A == t + VA
           R == s + VS
           u == A - x
           v == R - q
<1>1. /\ VA \in Nat /\ VS \in Nat /\ A \in Nat /\ R \in Nat \ {0}
      /\ u \in Nat /\ v \in Nat
  BY VirtualAssumption, WidthAssumption
<1>2. R * VA <= A * VS
  BY <1>1, Distribute
<1>3. A * v <= u * R
  BY <1>1, LeavingDoesNotDilute
<1>4. (v * VA) * R <= (u * VS) * R
  <2>1. A * v \in Nat /\ u * R \in Nat /\ R * VA \in Nat /\ A * VS \in Nat
    BY <1>1, ProductInNat
  <2>2. (R * VA) * v <= (A * VS) * v
    BY <2>1, <1>1, <1>2, MulMonotone
  <2>3. (A * v) * VS <= (u * R) * VS
    BY <2>1, <1>1, <1>3, MulMonotone
  <2>4. (R * VA) * v = (v * VA) * R
    BY <1>1, Distribute
  <2>5. (A * VS) * v = (A * v) * VS
    BY <1>1, Distribute
  <2>6. (u * R) * VS = (u * VS) * R
    BY <1>1, Distribute
  <2>7. (R * VA) * v \in Nat /\ (A * v) * VS \in Nat /\ (u * R) * VS \in Nat
    BY <2>1, <1>1, ProductInNat
  <2>8. QED
    BY <2>2, <2>3, <2>4, <2>5, <2>6, <2>7
<1>5. v * VA <= u * VS
  BY <1>1, <1>4, ProductInNat, MulCancel
<1>6. /\ u * VS = (t - x) * VS + VA * VS
      /\ v * VA = (s - q) * VA + VA * VS
  BY <1>1, Distribute
<1>7. (t - x) * VS \in Nat /\ (s - q) * VA \in Nat /\ VA * VS \in Nat
  BY <1>1, ProductInNat
<1>8. QED
  BY <1>5, <1>6, <1>7

(* What entered for q shares is not exceeded by what q shares give back.   *)
LEMMA NothingGainedByRedeeming ==
  ASSUME NEW A \in Nat, NEW R \in Nat, NEW x \in Nat, NEW q \in Nat \ {0}, NEW y \in Nat,
         q * A <= x * R,
         y * (R + q) <= q * (A + x)
  PROVE  y <= x
<1>1. q * (A + x) = q * A + q * x /\ x * (R + q) = x * R + q * x
  BY Distribute
<1>2. q * A \in Nat /\ q * x \in Nat /\ x * R \in Nat /\ y * (R + q) \in Nat
  BY ProductInNat
<1>3. y * (R + q) <= x * (R + q)
  BY <1>1, <1>2
<1>4. QED
  BY <1>3, MulCancel

(* Taking x back out burns at least the q shares it bought.                *)
LEMMA NothingGainedByWithdrawing ==
  ASSUME NEW A \in Nat, NEW R \in Nat, NEW x \in Nat \ {0}, NEW q \in Nat, NEW b \in Nat,
         q * A <= x * R,
         x * (R + q) <= b * (A + x)
  PROVE  q <= b
<1>1. q * (A + x) = q * A + q * x /\ x * (R + q) = x * R + q * x
  BY Distribute
<1>2. q * A \in Nat /\ q * x \in Nat /\ x * R \in Nat /\ b * (A + x) \in Nat
  BY ProductInNat
<1>3. q * (A + x) <= b * (A + x)
  BY <1>1, <1>2
<1>4. QED
  BY <1>3, MulCancel

(* The same two facts of the conversions themselves: x assets enter a      *)
(* vault of t assets and s shares for q shares (deposit or mint) and the   *)
(* very next instruction leaves.                                           *)
THEOREM RoundTrip ==
  ASSUME NEW t \in Nat, NEW s \in Nat, NEW x \in Nat \ {0}, NEW q \in Nat \ {0},
         q \in SharesFloor(x, t, s) \/ x \in AssetsCeil(q, t, s)
  PROVE  /\ \A y \in AssetsFloor(q, t + x, s + q) : y <= x
         /\ \A b \in SharesCeil(x, t + x, s + q) : q <= b
<1> DEFINE A == t + VirtualAssets
           R == s + VirtualShares
<1>1. A \in Nat /\ R \in Nat
  BY VirtualAssumption, WidthAssumption
<1>2. q * A <= x * R
  BY EnteringIsFair
<1>3. ~ Degenerate(t + x, s + q)
  BY VirtualAssumption, WidthAssumption DEF Degenerate
<1>4. A + x = (t + x) + VirtualAssets /\ R + q = (s + q) + VirtualShares
  BY VirtualAssumption, WidthAssumption
<1>5. A + x \in Nat \ {0} /\ R + q \in Nat \ {0}
  BY <1>1
<1>6. ASSUME NEW y \in AssetsFloor(q, t + x, s + q)
      PROVE  y <= x
  <2>1. y \in ConvertFloor(q, A + x, R + q)
    BY <1>3, <1>4, <1>6 DEF AssetsFloor
  <2>2. y \in Nat /\ y * (R + q) <= q * (A + x)
    BY <2>1, <1>5, FloorConversion, WidthAssumption
  <2>3. QED
    BY <1>1, <1>2, <2>2, NothingGainedByRedeeming
<1>7. ASSUME NEW b \in SharesCeil(x, t + x, s + q)
      PROVE  q <= b
  <2>1. b \in ConvertCeil(x, R + q, A + x)
    BY <1>3, <1>4, <1>7 DEF SharesCeil
  <2>2. b \in Nat /\ x * (R + q) <= b * (A + x)
    BY <2>1, <1>5, CeilConversion, WidthAssumption
  <2>3. QED
    BY <1>1, <1>2, <2>2, NothingGainedByWithdrawing
<1>8. QED
  BY <1>6, <1>7

-----------------------------------------------------------------------------
(* Induction, and sums.                                                    *)

(* Every set of natural numbers that is not empty has a least member.      *)
LEMMA LeastMember ==
  ASSUME NEW S \in SUBSET Nat, S # {}
  PROVE  \E m \in S : \A k \in S : m <= k
<1>1. IsWellFoundedOn(OpToRel(<, Nat), Nat)
  BY NatLessThanWellFounded, Zenon
<1>2. PICK m \in S : \A k \in S : ~(<<k, m>> \in OpToRel(<, Nat))
  BY <1>1, WFMin, Zenon
<1>3. \A k \in S : <<k, m>> \in Nat \X Nat
  OBVIOUS
<1>4. \A k \in S : ~(k < m)
  BY <1>2, <1>3, Zenon DEF OpToRel
<1> QED
  BY <1>4

(* A sum over the subsets of S, whichever member is taken out first.       *)
SumsOver(f, sum, S) ==
  /\ sum \in [SUBSET S -> Int]
  /\ sum[{}] = 0
  /\ \A T \in SUBSET S : \A x \in T : sum[T] = f[x] + sum[T \ {x}]

(* What SumFunction of module Functions chooses.                           *)
Folds(f, iter, S) ==
  iter = [s \in SUBSET S |->
            IF s = {} THEN 0 ELSE f[CHOOSE x \in s : TRUE] + iter[s \ {CHOOSE x \in s : TRUE}]]

(* SumFunction, unfolded.                                                  *)
LEMMA FoldIsChosen ==
  ASSUME NEW f
  PROVE  SumFunction(f) = (CHOOSE iter : Folds(f, iter, DOMAIN f))[DOMAIN f]
BY DEF SumFunction, SumFunctionOnSet, FoldFunctionOnSet, MapThenFoldSet, Folds

(* With one more index there is a sum again.                               *)
LEMMA SumGrows ==
  ASSUME NEW U, NEW f, NEW x \in U, f \in [U -> Int],
         NEW h, SumsOver(f, h, U \ {x})
  PROVE  \E g : SumsOver(f, g, U)
<1> DEFINE V == U \ {x}
           g == [T \in SUBSET U |-> IF x \in T THEN f[x] + h[T \ {x}] ELSE h[T]]
<1>1. g \in [SUBSET U -> Int]
  <2>1. \A T \in SUBSET U : T \ {x} \in SUBSET V /\ (x \notin T => T \in SUBSET V)
    OBVIOUS
  <2>2. f[x] \in Int /\ \A T \in SUBSET V : h[T] \in Int
    BY DEF SumsOver
  <2>3. \A T \in SUBSET U : (IF x \in T THEN f[x] + h[T \ {x}] ELSE h[T]) \in Int
    BY <2>1, <2>2
  <2> QED
    BY <2>3
<1>2. g[{}] = 0
  BY DEF SumsOver
<1>3. ASSUME NEW T \in SUBSET U, NEW y \in T
      PROVE  g[T] = f[y] + g[T \ {y}]
  <2>1. CASE y = x
    BY <2>1
  <2>2. CASE y # x /\ x \in T
    <3>1. T \ {x} \in SUBSET V /\ y \in T \ {x} /\ (T \ {x}) \ {y} \in SUBSET V
      BY <2>2
    <3>2. h[T \ {x}] = f[y] + h[(T \ {x}) \ {y}]
      BY <3>1 DEF SumsOver
    <3>3. (T \ {y}) \ {x} = (T \ {x}) \ {y}
      OBVIOUS
    <3>4. g[T] = f[x] + h[T \ {x}] /\ g[T \ {y}] = f[x] + h[(T \ {x}) \ {y}]
      BY <2>2, <3>3
    <3>5. f[x] \in Int /\ f[y] \in Int /\ h[(T \ {x}) \ {y}] \in Int
      BY <3>1 DEF SumsOver
    <3> HIDE DEF g
    <3> QED
      BY <3>2, <3>4, <3>5
  <2>3. CASE x \notin T
    <3>1. T \in SUBSET V
      BY <2>3
    <3>2. h[T] = f[y] + h[T \ {y}]
      BY <3>1 DEF SumsOver
    <3> QED
      BY <2>3, <3>2
  <2> QED
    BY <2>1, <2>2, <2>3
<1> HIDE DEF g
<1> QED
  BY <1>1, <1>2, <1>3 DEF SumsOver

(* By induction on the size of the set, as are the lemmas that follow: the *)
(* least size of a counterexample is looked at.                            *)
LEMMA SumExists ==
  ASSUME NEW S, IsFiniteSet(S), NEW f \in [S -> Int]
  PROVE  \E g : SumsOver(f, g, S)
<1> DEFINE Bad == {U \in SUBSET S : ~ \E g : SumsOver(f, g, U)}
           Sizes == {Cardinality(U) : U \in Bad}
<1> SUFFICES ASSUME Bad # {}
             PROVE  FALSE
  OBVIOUS
<1>1. \A U \in SUBSET S : IsFiniteSet(U) /\ Cardinality(U) \in Nat
  BY FS_Subset, FS_CardinalityType
<1>2. Sizes \in SUBSET Nat /\ Sizes # {}
  BY <1>1
<1>3. PICK n \in Sizes : \A k \in Sizes : n <= k
  BY <1>2, LeastMember
<1>4. PICK U \in Bad : n = Cardinality(U)
  BY <1>3
<1>5. U # {}
  <2> SUFFICES ASSUME U = {}
               PROVE  FALSE
    OBVIOUS
  <2>1. [T \in SUBSET {} |-> 0] \in [SUBSET {} -> Int]
    OBVIOUS
  <2>2. SumsOver(f, [T \in SUBSET {} |-> 0], {})
    BY <2>1 DEF SumsOver
  <2> QED
    BY <1>4, <2>2
<1>6. PICK x \in U : TRUE
  BY <1>5
<1>7. Cardinality(U \ {x}) = Cardinality(U) - 1 /\ Cardinality(U) \in Nat
  BY <1>1, <1>4, <1>6, FS_RemoveElement
<1>8. U \ {x} \in SUBSET S /\ U \ {x} \notin Bad
  BY <1>3, <1>4, <1>7
<1>9. PICK h : SumsOver(f, h, U \ {x})
  BY <1>8
<1>10. SumsOver([y \in U |-> f[y]], h, U \ {x})
  BY <1>6, <1>9 DEF SumsOver
<1>11. PICK g : SumsOver([y \in U |-> f[y]], g, U)
  BY <1>4, <1>6, <1>10, SumGrows
<1>12. SumsOver(f, g, U)
  BY <1>11 DEF SumsOver
<1> QED
  BY <1>4, <1>12

(* A fold agrees with every sum.                                           *)
LEMMA FoldsAreSums ==
  ASSUME NEW S, IsFiniteSet(S), NEW f \in [S -> Int],
         NEW g, SumsOver(f, g, S), NEW iter, Folds(f, iter, S)
  PROVE  \A T \in SUBSET S : iter[T] = g[T]
<1> DEFINE Bad == {T \in SUBSET S : iter[T] # g[T]}
           Sizes == {Cardinality(T) : T \in Bad}
<1> SUFFICES ASSUME Bad # {}
             PROVE  FALSE
  OBVIOUS
<1>1. \A U \in SUBSET S : IsFiniteSet(U) /\ Cardinality(U) \in Nat
  BY FS_Subset, FS_CardinalityType
<1>2. Sizes \in SUBSET Nat /\ Sizes # {}
  BY <1>1
<1>3. PICK n \in Sizes : \A k \in Sizes : n <= k
  BY <1>2, LeastMember
<1>4. PICK T \in Bad : n = Cardinality(T)
  BY <1>3
<1> DEFINE x == CHOOSE y \in T : TRUE
<1>5. iter[T] = IF T = {} THEN 0 ELSE f[x] + iter[T \ {x}]
  BY <1>4 DEF Folds
<1>6. CASE T = {}
  BY <1>4, <1>5, <1>6 DEF SumsOver
<1>7. CASE T # {}
  <2>1. x \in T
    BY <1>7
  <2>2. Cardinality(T \ {x}) = Cardinality(T) - 1 /\ Cardinality(T) \in Nat
    BY <1>1, <1>4, <2>1, FS_RemoveElement
  <2>3. T \ {x} \in SUBSET S /\ T \ {x} \notin Bad
    BY <1>3, <1>4, <2>2
  <2>4. iter[T \ {x}] = g[T \ {x}]
    BY <2>3
  <2>5. g[T] = f[x] + g[T \ {x}]
    BY <2>1 DEF SumsOver
  <2> QED
    BY <1>4, <1>5, <1>7, <2>4, <2>5
<1> QED
  BY <1>6, <1>7

LEMMA SumFolds ==
  ASSUME NEW S, NEW f \in [S -> Int], NEW g, SumsOver(f, g, S)
  PROVE  Folds(f, g, S)
<1>1. ASSUME NEW T \in SUBSET S
      PROVE  g[T] = IF T = {} THEN 0
                    ELSE f[CHOOSE x \in T : TRUE] + g[T \ {CHOOSE x \in T : TRUE}]
  BY DEF SumsOver
<1>2. g = [T \in SUBSET S |-> g[T]]
  BY DEF SumsOver
<1> QED
  BY <1>1, <1>2 DEF Folds

LEMMA FoldIsSum ==
  ASSUME NEW S, IsFiniteSet(S), NEW f \in [S -> Int], NEW g, SumsOver(f, g, S)
  PROVE  SumFunction(f) = g[S]
<1>1. Folds(f, CHOOSE iter : Folds(f, iter, S), S)
  BY SumFolds
<1>2. (CHOOSE iter : Folds(f, iter, S))[S] = g[S]
  BY <1>1, FoldsAreSums
<1>3. DOMAIN f = S
  OBVIOUS
<1> QED
  BY <1>2, <1>3, FoldIsChosen

(* Two functions that agree on a set have the same sums there.             *)
LEMMA SumsAgree ==
  ASSUME NEW S, IsFiniteSet(S), NEW f \in [S -> Int], NEW g, SumsOver(f, g, S),
         NEW e \in [S -> Int], NEW h, SumsOver(e, h, S),
         NEW A \in SUBSET S, \A x \in A : f[x] = e[x]
  PROVE  g[A] = h[A]
<1> DEFINE Bad == {T \in SUBSET A : h[T] # g[T]}
           Sizes == {Cardinality(T) : T \in Bad}
<1> SUFFICES ASSUME Bad # {}
             PROVE  FALSE
  OBVIOUS
<1>1. \A U \in SUBSET A : IsFiniteSet(U) /\ Cardinality(U) \in Nat
  BY FS_Subset, FS_CardinalityType
<1>2. Sizes \in SUBSET Nat /\ Sizes # {}
  BY <1>1
<1>3. PICK n \in Sizes : \A k \in Sizes : n <= k
  BY <1>2, LeastMember
<1>4. PICK T \in Bad : n = Cardinality(T)
  BY <1>3
<1>5. T # {}
  BY <1>4 DEF SumsOver
<1>6. PICK x \in T : TRUE
  BY <1>5
<1>7. Cardinality(T \ {x}) = Cardinality(T) - 1 /\ Cardinality(T) \in Nat
  BY <1>1, <1>4, <1>6, FS_RemoveElement
<1>8. T \ {x} \in SUBSET A /\ T \ {x} \notin Bad
  BY <1>3, <1>4, <1>7
<1>9. g[T \ {x}] = h[T \ {x}]
  BY <1>8
<1>10. g[T] = f[x] + g[T \ {x}] /\ h[T] = e[x] + h[T \ {x}]
  BY <1>4, <1>6 DEF SumsOver
<1> QED
  BY <1>4, <1>6, <1>9, <1>10

LEMMA SumIsInteger ==
  ASSUME NEW S, IsFiniteSet(S), NEW f \in [S -> Int]
  PROVE  SumFunction(f) \in Int
<1>1. PICK g : SumsOver(f, g, S)
  BY SumExists
<1>2. SumFunction(f) = g[S] /\ g[S] \in Int
  BY <1>1, FoldIsSum DEF SumsOver
<1> QED
  BY <1>2

(* The sum of a function follows a change of one of its values.            *)
LEMMA SumAfterUpdate ==
  ASSUME NEW S, IsFiniteSet(S), NEW f \in [S -> Int], NEW x \in S, NEW v \in Int
  PROVE  /\ SumFunction(f) \in Int
         /\ SumFunction([f EXCEPT ![x] = v]) = SumFunction(f) - f[x] + v
<1> DEFINE e == [f EXCEPT ![x] = v]
<1>1. e \in [S -> Int] /\ e[x] = v /\ \A y \in S \ {x} : f[y] = e[y]
  OBVIOUS
<1>2. PICK g : SumsOver(f, g, S)
  BY SumExists
<1> HIDE DEF e
<1>3. PICK h : SumsOver(e, h, S)
  BY <1>1, SumExists
<1>4. SumFunction(f) = g[S]
  BY <1>2, FoldIsSum
<1>5. SumFunction(e) = h[S]
  BY <1>1, <1>3, FoldIsSum
<1>6. S \ {x} \in SUBSET S
  OBVIOUS
<1>7. g[S \ {x}] = h[S \ {x}]
  BY <1>1, <1>2, <1>3, <1>6, SumsAgree
<1>8. g[S] = f[x] + g[S \ {x}] /\ h[S] = v + h[S \ {x}]
  BY <1>1, <1>2, <1>3 DEF SumsOver
<1>9. g[S] \in Int /\ g[S \ {x}] \in Int /\ f[x] \in Int
  BY <1>2, <1>6 DEF SumsOver
<1>10. h[S] = g[S] - f[x] + v
  BY <1>7, <1>8, <1>9
<1> QED
  BY <1>4, <1>5, <1>9, <1>10, Zenon DEF e

(* Nothing adds up to nothing.                                             *)
LEMMA SumOfZeros ==
  ASSUME NEW S, IsFiniteSet(S)
  PROVE  SumFunction([x \in S |-> 0]) = 0
<1> DEFINE f == [x \in S |-> 0]
           g == [T \in SUBSET S |-> 0]
<1>1. f \in [S -> Int] /\ g \in [SUBSET S -> Int]
  OBVIOUS
<1>2. SumsOver(f, g, S)
  BY <1>1 DEF SumsOver
<1>3. g[S] = 0
  OBVIOUS
<1> HIDE DEF f, g
<1>4. SumFunction(f) = g[S]
  BY <1>1, <1>2, FoldIsSum
<1> QED
  BY <1>3, <1>4, Zenon DEF f

(* What holds of each value in proportion holds of the sums.               *)
LEMMA SumsInProportion ==
  ASSUME NEW S, IsFiniteSet(S), NEW f \in [S -> Nat], NEW e \in [S -> Nat],
         NEW r \in Nat, NEW a \in Nat, \A x \in S : f[x] * r <= e[x] * a
  PROVE  /\ SumFunction(f) \in Nat
         /\ SumFunction(f) * r <= SumFunction(e) * a
<1>1. f \in [S -> Int] /\ e \in [S -> Int]
  OBVIOUS
<1>2. PICK g : SumsOver(f, g, S)
  BY <1>1, SumExists
<1>3. PICK h : SumsOver(e, h, S)
  BY <1>1, SumExists
<1> DEFINE Good(T) == g[T] \in Nat /\ h[T] \in Nat /\ g[T] * r <= h[T] * a
           Bad == {T \in SUBSET S : ~Good(T)}
           Sizes == {Cardinality(T) : T \in Bad}
<1> HIDE DEF Good
<1>4. ASSUME Bad # {}
      PROVE  FALSE
  <2>1. \A U \in SUBSET S : IsFiniteSet(U) /\ Cardinality(U) \in Nat
    BY FS_Subset, FS_CardinalityType
  <2>2. Sizes \in SUBSET Nat /\ Sizes # {}
    BY <1>4, <2>1
  <2>3. PICK n \in Sizes : \A k \in Sizes : n <= k
    BY <2>2, LeastMember
  <2>4. PICK T \in Bad : n = Cardinality(T)
    BY <2>3
  <2>5. T # {}
    <3>1. 0 * r <= 0 * a
      OBVIOUS
    <3>2. Good({})
      BY <1>2, <1>3, <3>1 DEF SumsOver, Good
    <3> QED
      BY <2>4, <3>2
  <2>6. PICK x \in T : TRUE
    BY <2>5
  <2>7. Cardinality(T \ {x}) = Cardinality(T) - 1 /\ Cardinality(T) \in Nat
    BY <2>1, <2>4, <2>6, FS_RemoveElement
  <2>8. T \ {x} \in SUBSET S /\ T \ {x} \notin Bad
    <3>1. T \ {x} \in SUBSET S
      BY <2>4
    <3>2. T \ {x} \in Bad => Cardinality(T \ {x}) \in Sizes
      OBVIOUS
    <3>3. ~(n <= Cardinality(T \ {x}))
      BY <2>4, <2>7
    <3> QED
      BY <2>3, <3>1, <3>2, <3>3
  <2> DEFINE G == g[T \ {x}]
             H == h[T \ {x}]
  <2>9. G \in Nat /\ H \in Nat /\ G * r <= H * a
    BY <2>8 DEF Good
  <2>10. g[T] = f[x] + G /\ h[T] = e[x] + H
    BY <1>2, <1>3, <2>4, <2>6 DEF SumsOver
  <2>11. f[x] \in Nat /\ e[x] \in Nat /\ f[x] * r <= e[x] * a
    BY <2>4, <2>6
  <2> HIDE DEF G, H
  <2>12. (f[x] + G) * r = f[x] * r + G * r /\ (e[x] + H) * a = e[x] * a + H * a
    BY <2>9, <2>11, Distribute
  <2>13. f[x] * r \in Nat /\ G * r \in Nat /\ e[x] * a \in Nat /\ H * a \in Nat
    BY <2>9, <2>11, ProductInNat
  <2>14. (f[x] + G) * r <= (e[x] + H) * a
    BY <2>9, <2>11, <2>12, <2>13
  <2>15. Good(T)
    BY <2>9, <2>10, <2>11, <2>14 DEF Good
  <2> QED
    BY <2>4, <2>15
<1>5. Good(S)
  BY <1>4
<1> USE DEF Good
<1>6. SumFunction(f) = g[S] /\ SumFunction(e) = h[S]
  BY <1>1, <1>2, <1>3, FoldIsSum
<1> QED
  BY <1>5, <1>6

-----------------------------------------------------------------------------
(* The vault.                                                              *)

(* Every share of the supply is in some depositor's account.               *)
SharesAddUp == SumFunction(userShares) = shareSupply

VaultInv == VaultTypeOK /\ SharePriceCovered /\ SharesAddUp

(* The two ways a liquidity instruction changes the vault.                 *)
Enter(u, x, q) == PayVault(u, x) /\ MintTo(u, q) /\ IncreaseManagedAssets(x)
Leave(u, x, q) == Burn(u, q) /\ PayUser(u, x) /\ DecreaseManagedAssets(x)

LEMMA InitEstablishes == VaultInit => VaultInv
<1> SUFFICES ASSUME VaultInit
             PROVE  VaultInv
  OBVIOUS
<1>1. VaultTypeOK
  BY WidthAssumption, BoundAssumption DEF VaultInit, VaultTypeOK
<1>2. SharePriceCovered
  BY VirtualAssumption, WidthAssumption DEF VaultInit, SharePriceCovered
<1>3. SharesAddUp
  BY UsersAssumption, SumOfZeros DEF VaultInit, SharesAddUp
<1>4. QED
  BY <1>1, <1>2, <1>3 DEF VaultInv

(* deposit and mint enter with a fair trade ...                            *)
LEMMA DepositEnters ==
  ASSUME VaultInv, NEW u \in Users, NEW amount \in Amounts, NEW limit \in Limits,
         Deposit(u, amount, limit)
  PROVE  \E q \in Nat \ {0} :
           /\ Enter(u, amount, q)
           /\ amount \in Nat \ {0}
           /\ q * (totalManagedAssets + VirtualAssets) <= amount * (shareSupply + VirtualShares)
<1>1. PICK q \in PreviewDeposit(amount) : /\ q > 0
                                          /\ PayVault(u, amount)
                                          /\ MintTo(u, q)
  BY DEF Deposit
<1>2. /\ totalManagedAssets \in Nat /\ shareSupply \in Nat
      /\ amount \in Nat \ {0}
  BY BoundAssumption DEF VaultInv, VaultTypeOK, Deposit
<1>3. q \in SharesFloor(amount, totalManagedAssets, shareSupply)
  BY <1>1 DEF PreviewDeposit
<1>4. q \in Nat \ {0}
  <2>1. q \in Nat
    BY <1>2, <1>3, ConversionIsNat
  <2>2. QED
    BY <1>1, <2>1
<1>5. q * (totalManagedAssets + VirtualAssets) <= amount * (shareSupply + VirtualShares)
  BY <1>2, <1>3, <1>4, EnteringIsFair
<1>6. Enter(u, amount, q)
  BY <1>1 DEF Deposit, Enter
<1>7. QED
  BY <1>2, <1>4, <1>5, <1>6

LEMMA MintEnters ==
  ASSUME VaultInv, NEW u \in Users, NEW amount \in Amounts, NEW limit \in Limits,
         Mint(u, amount, limit)
  PROVE  \E x \in Nat \ {0} :
           /\ Enter(u, x, amount)
           /\ amount \in Nat \ {0}
           /\ amount * (totalManagedAssets + VirtualAssets) <= x * (shareSupply + VirtualShares)
<1>1. PICK x \in PreviewMint(amount) : /\ x > 0
                                       /\ Enter(u, x, amount)
  BY DEF Mint, Enter
<1>2. /\ totalManagedAssets \in Nat /\ shareSupply \in Nat
      /\ amount \in Nat \ {0}
  BY BoundAssumption DEF VaultInv, VaultTypeOK, Mint
<1>3. x \in AssetsCeil(amount, totalManagedAssets, shareSupply)
  BY <1>1 DEF PreviewMint
<1>4. x \in Nat \ {0}
  <2>1. x \in Nat
    BY <1>2, <1>3, ConversionIsNat
  <2>2. QED
    BY <1>1, <2>1
<1>5. amount * (totalManagedAssets + VirtualAssets) <= x * (shareSupply + VirtualShares)
  BY <1>2, <1>3, <1>4, EnteringIsFair
<1>6. QED
  BY <1>1, <1>2, <1>4, <1>5

(* ... redeem and withdraw leave with one.                                 *)
LEMMA RedeemLeaves ==
  ASSUME VaultInv, NEW u \in Users, NEW amount \in Amounts, NEW limit \in Limits,
         Redeem(u, amount, limit)
  PROVE  \E x \in Nat :
           /\ Leave(u, x, amount)
           /\ amount \in 1 .. shareSupply
           /\ x * (shareSupply + VirtualShares) <= amount * (totalManagedAssets + VirtualAssets)
<1>1. PICK x \in PreviewRedeem(amount) : Leave(u, x, amount)
  BY DEF Redeem, Leave
<1>2. totalManagedAssets \in Nat /\ shareSupply \in Nat
  BY DEF VaultInv, VaultTypeOK
<1>3. amount \in 1 .. shareSupply
  BY <1>1, <1>2, BoundAssumption DEF Redeem, Leave, Burn
<1>4. x \in AssetsFloor(amount, totalManagedAssets, shareSupply)
  BY <1>1 DEF PreviewRedeem
<1>5. x \in Nat
  BY <1>2, <1>3, <1>4, ConversionIsNat
<1>6. x * (shareSupply + VirtualShares) <= amount * (totalManagedAssets + VirtualAssets)
  BY <1>2, <1>3, <1>4, <1>5, LeavingIsFair
<1>7. QED
  BY <1>1, <1>3, <1>5, <1>6

LEMMA WithdrawLeaves ==
  ASSUME VaultInv, NEW u \in Users, NEW amount \in Amounts, NEW limit \in Limits,
         Withdraw(u, amount, limit)
  PROVE  \E q \in 1 .. shareSupply :
           /\ Leave(u, amount, q)
           /\ amount \in Nat
           /\ amount * (shareSupply + VirtualShares) <= q * (totalManagedAssets + VirtualAssets)
<1>1. PICK q \in PreviewWithdraw(amount) : q > 0 /\ Leave(u, amount, q)
  BY DEF Withdraw, Leave
<1>2. /\ totalManagedAssets \in Nat /\ shareSupply \in Nat
      /\ amount \in Nat
  BY BoundAssumption DEF VaultInv, VaultTypeOK, Withdraw
<1>3. q \in SharesCeil(amount, totalManagedAssets, shareSupply)
  BY <1>1 DEF PreviewWithdraw
<1>4. q \in 1 .. shareSupply
  <2>1. q \in Nat
    BY <1>2, <1>3, ConversionIsNat
  <2>2. QED
    BY <1>1, <1>2, <2>1 DEF Leave, Burn
<1>5. amount * (shareSupply + VirtualShares) <= q * (totalManagedAssets + VirtualAssets)
  BY <1>2, <1>3, <1>4, LeavingIsFair
<1>6. QED
  BY <1>1, <1>2, <1>4, <1>5

-----------------------------------------------------------------------------
(* Minting and burning keep the accounts and the supply together.          *)
LEMMA SharesFollow ==
  ASSUME VaultInv, NEW u \in Users, NEW v \in Int,
         userShares' = [userShares EXCEPT ![u] = v],
         shareSupply' = shareSupply - userShares[u] + v
  PROVE  SharesAddUp'
<1>1. userShares \in [Users -> Int]
  BY WidthAssumption DEF VaultInv, VaultTypeOK
<1>2. SumFunction([userShares EXCEPT ![u] = v]) = SumFunction(userShares) - userShares[u] + v
  BY <1>1, UsersAssumption, SumAfterUpdate
<1>3. SumFunction(userShares') = shareSupply'
  BY <1>2, Zenon DEF VaultInv, SharesAddUp
<1> QED
  BY <1>3 DEF SharesAddUp

(* A fair entry keeps the invariant and dilutes nobody ...                 *)
LEMMA EnterStep ==
  ASSUME VaultInv, NEW u \in Users, NEW x \in Nat \ {0}, NEW q \in Nat \ {0},
         Enter(u, x, q),
         q * (totalManagedAssets + VirtualAssets) <= x * (shareSupply + VirtualShares)
  PROVE  VaultInv' /\ PriceDoesNotFall
<1> DEFINE t == totalManagedAssets
           s == shareSupply
<1>1. /\ t \in Nat /\ s \in Nat
      /\ VirtualAssets \in Nat /\ VirtualShares \in Nat
  BY VirtualAssumption, WidthAssumption DEF VaultInv, VaultTypeOK
<1>2. t' = t + x /\ s' = s + q
  BY DEF Enter, IncreaseManagedAssets, MintTo
<1>3. VaultTypeOK'
  <2>1. totalManagedAssets' \in 0 .. U128_MAX
    BY <1>1, WidthAssumption DEF Enter, IncreaseManagedAssets
  <2>2. shareSupply' \in 0 .. U64_MAX
    BY <1>1, WidthAssumption DEF Enter, MintTo
  <2>3. userShares' \in [Users -> 0 .. U64_MAX]
    <3>1. userShares[u] + q \in 0 .. U64_MAX
      BY WidthAssumption DEF VaultInv, VaultTypeOK, Enter, MintTo
    <3>2. QED
      BY <3>1 DEF VaultInv, VaultTypeOK, Enter, MintTo
  <2>4. userAssets' \in [Users -> Nat]
    <3>1. userAssets[u] - x \in Nat
      BY DEF VaultInv, VaultTypeOK, Enter, PayVault
    <3>2. QED
      BY <3>1 DEF VaultInv, VaultTypeOK, Enter, PayVault
  <2>5. vaultToken' \in Nat
    BY DEF VaultInv, VaultTypeOK, Enter, PayVault
  <2>6. QED
    BY <2>1, <2>2, <2>3, <2>4, <2>5 DEF VaultTypeOK
<1>4. SharePriceCovered'
  <2>1. t * VirtualShares >= s * VirtualAssets
    BY DEF VaultInv, SharePriceCovered
  <2>2. (t + x) * VirtualShares >= (s + q) * VirtualAssets
    BY <1>1, <2>1, EnteringKeepsOpeningPrice
  <2>3. QED
    BY <1>2, <2>2 DEF SharePriceCovered
<1>5. PriceDoesNotFall
  <2> DEFINE A == t + VirtualAssets
             R == s + VirtualShares
  <2>1. A \in Nat /\ R \in Nat
    BY <1>1
  <2>2. (A + x) * R >= A * (R + q)
    BY <2>1, EnteringDoesNotDilute
  <2>3. t' + VirtualAssets = A + x /\ s' + VirtualShares = R + q
    BY <1>1, <1>2
  <2>4. QED
    BY <2>2, <2>3 DEF PriceDoesNotFall
<1>6. SharesAddUp'
  <2> DEFINE held == userShares[u] + q
  <2>1. userShares[u] \in Nat /\ held \in Int
    BY WidthAssumption DEF VaultInv, VaultTypeOK
  <2>2. userShares' = [userShares EXCEPT ![u] = held]
    BY DEF Enter, MintTo
  <2>3. shareSupply' = shareSupply - userShares[u] + held
    BY <1>1, <1>2, <2>1
  <2> HIDE DEF held
  <2> QED
    BY <2>1, <2>2, <2>3, SharesFollow
<1>7. QED
  BY <1>3, <1>4, <1>5, <1>6 DEF VaultInv

(* ... and so does a fair exit.                                            *)
LEMMA LeaveStep ==
  ASSUME VaultInv, NEW u \in Users, NEW x \in Nat, NEW q \in 1 .. shareSupply,
         Leave(u, x, q),
         x * (shareSupply + VirtualShares) <= q * (totalManagedAssets + VirtualAssets)
  PROVE  VaultInv' /\ PriceDoesNotFall
<1> DEFINE t == totalManagedAssets
           s == shareSupply
<1>1. /\ t \in Nat /\ s \in Nat /\ q \in Nat \ {0}
      /\ VirtualAssets \in Nat /\ VirtualShares \in Nat
  BY VirtualAssumption, WidthAssumption DEF VaultInv, VaultTypeOK
<1>2. t' = t - x /\ s' = s - q /\ x \in 0 .. t
  BY <1>1 DEF Leave, DecreaseManagedAssets, Burn
<1>3. VaultTypeOK'
  <2>1. totalManagedAssets' \in 0 .. U128_MAX
    BY <1>1, <1>2, WidthAssumption DEF VaultInv, VaultTypeOK
  <2>2. shareSupply' \in 0 .. U64_MAX
    BY <1>1, <1>2, WidthAssumption DEF VaultInv, VaultTypeOK
  <2>3. userShares' \in [Users -> 0 .. U64_MAX]
    <3>1. userShares[u] - q \in 0 .. U64_MAX
      BY <1>1, WidthAssumption DEF VaultInv, VaultTypeOK, Leave, Burn
    <3>2. QED
      BY <3>1 DEF VaultInv, VaultTypeOK, Leave, Burn
  <2>4. userAssets' \in [Users -> Nat]
    BY DEF VaultInv, VaultTypeOK, Leave, PayUser
  <2>5. vaultToken' \in Nat
    BY DEF VaultInv, VaultTypeOK, Leave, PayUser
  <2>6. QED
    BY <2>1, <2>2, <2>3, <2>4, <2>5 DEF VaultTypeOK
<1>4. SharePriceCovered'
  <2>1. t * VirtualShares >= s * VirtualAssets
    BY DEF VaultInv, SharePriceCovered
  <2>2. (t - x) * VirtualShares >= (s - q) * VirtualAssets
    BY <1>1, <1>2, <2>1, LeavingKeepsOpeningPrice
  <2>3. QED
    BY <1>2, <2>2 DEF SharePriceCovered
<1>5. PriceDoesNotFall
  <2> DEFINE A == t + VirtualAssets
             R == s + VirtualShares
  <2>1. A \in Nat /\ R \in Nat
    BY <1>1
  <2>2. (A - x) * R >= A * (R - q)
    BY <1>1, <2>1, LeavingDoesNotDilute
  <2>3. t' + VirtualAssets = A - x /\ s' + VirtualShares = R - q
    BY <1>1, <1>2
  <2>4. QED
    BY <2>2, <2>3 DEF PriceDoesNotFall
<1>6. SharesAddUp'
  <2> DEFINE held == userShares[u] - q
  <2>1. userShares[u] \in Nat /\ held \in Int
    BY <1>1, WidthAssumption DEF VaultInv, VaultTypeOK
  <2>2. userShares' = [userShares EXCEPT ![u] = held]
    BY DEF Leave, Burn
  <2>3. shareSupply' = shareSupply - userShares[u] + held
    BY <1>1, <1>2, <2>1
  <2> HIDE DEF held
  <2> QED
    BY <2>1, <2>2, <2>3, SharesFollow
<1>7. QED
  BY <1>3, <1>4, <1>5, <1>6 DEF VaultInv

(* Shares burned at the token program make the others dearer.              *)
LEMMA BurnStep ==
  ASSUME VaultInv, BurnOwnShares
  PROVE  VaultInv' /\ PriceDoesNotFall
<1> DEFINE t == totalManagedAssets
           s == shareSupply
<1>1. PICK u \in Users, q \in Amounts : q > 0 /\ Burn(u, q)
  BY DEF BurnOwnShares
<1>2. /\ t \in Nat /\ s \in Nat /\ q \in Nat
      /\ VirtualAssets \in Nat /\ VirtualShares \in Nat
  BY BoundAssumption, VirtualAssumption, WidthAssumption DEF VaultInv, VaultTypeOK
<1>3. t' = t /\ s' = s - q /\ s - q \in Nat
  BY <1>1, <1>2 DEF BurnOwnShares, Burn
<1>4. VaultTypeOK'
  <2>1. userShares' \in [Users -> 0 .. U64_MAX]
    <3>1. userShares[u] - q \in 0 .. U64_MAX
      BY <1>1, <1>2, WidthAssumption DEF VaultInv, VaultTypeOK, Burn
    <3>2. QED
      BY <1>1, <3>1 DEF VaultInv, VaultTypeOK, Burn
  <2>2. shareSupply' \in 0 .. U64_MAX
    BY <1>2, <1>3, WidthAssumption DEF VaultInv, VaultTypeOK
  <2>3. QED
    BY <2>1, <2>2 DEF VaultInv, VaultTypeOK, BurnOwnShares
<1>5. SharePriceCovered'
  <2>1. (s - q) * VirtualAssets = s * VirtualAssets - q * VirtualAssets
    BY <1>2, Distribute
  <2>2. /\ q * VirtualAssets \in Nat /\ s * VirtualAssets \in Nat
        /\ t * VirtualShares \in Nat
    BY <1>2, ProductInNat
  <2>3. t * VirtualShares >= (s - q) * VirtualAssets
    BY <2>1, <2>2 DEF VaultInv, SharePriceCovered
  <2>4. QED
    BY <1>3, <2>3 DEF SharePriceCovered
<1>6. PriceDoesNotFall
  <2> DEFINE A == t + VirtualAssets
             R == s + VirtualShares
  <2>1. A \in Nat /\ R \in Nat /\ 0 * R <= q * A
    BY <1>2, ProductInNat
  <2>2. (A - 0) * R >= A * (R - q)
    BY <1>2, <2>1, LeavingDoesNotDilute
  <2>3. t' + VirtualAssets = A - 0 /\ s' + VirtualShares = R - q
    BY <1>2, <1>3
  <2>4. QED
    BY <2>2, <2>3 DEF PriceDoesNotFall
<1>7. SharesAddUp'
  <2> DEFINE held == userShares[u] - q
  <2>1. userShares[u] \in Nat /\ held \in Int
    BY <1>2, WidthAssumption DEF VaultInv, VaultTypeOK
  <2>2. userShares' = [userShares EXCEPT ![u] = held]
    BY <1>1 DEF Burn
  <2>3. shareSupply' = shareSupply - userShares[u] + held
    BY <1>2, <1>3, <2>1
  <2> HIDE DEF held
  <2> QED
    BY <2>1, <2>2, <2>3, SharesFollow
<1>8. QED
  BY <1>4, <1>5, <1>6, <1>7 DEF VaultInv

(* A step that leaves shares and managed assets alone.                     *)
LEMMA IdleStep ==
  ASSUME VaultInv, MoveIdle \/ UNCHANGED vaultVars
  PROVE  VaultInv' /\ PriceDoesNotFall
<1>1. /\ UNCHANGED <<totalManagedAssets, shareSupply, userShares, userAssets>>
      /\ vaultToken' \in Nat
  BY BoundAssumption DEF MoveIdle, vaultVars, VaultInv, VaultTypeOK
<1>2. VaultInv'
  BY <1>1 DEF VaultInv, VaultTypeOK, SharePriceCovered, SharesAddUp
<1>3. PriceDoesNotFall
  <2>1. (totalManagedAssets + VirtualAssets) * (shareSupply + VirtualShares) \in Nat
    <3>1. /\ totalManagedAssets + VirtualAssets \in Nat
          /\ shareSupply + VirtualShares \in Nat
      BY VirtualAssumption, WidthAssumption DEF VaultInv, VaultTypeOK
    <3>2. QED
      BY <3>1, ProductInNat
  <2>2. QED
    BY <1>1, <2>1 DEF PriceDoesNotFall
<1>4. QED
  BY <1>2, <1>3

(* Every step keeps the invariant and lowers no price.                     *)
LEMMA StepPreserves ==
  ASSUME VaultInv, [VaultNext]_vaultVars
  PROVE  VaultInv' /\ PriceDoesNotFall
<1>1. ASSUME NEW u \in Users, NEW amount \in Amounts, NEW limit \in Limits,
             \/ Deposit(u, amount, limit)
             \/ Mint(u, amount, limit)
             \/ Redeem(u, amount, limit)
             \/ Withdraw(u, amount, limit)
      PROVE  VaultInv' /\ PriceDoesNotFall
  <2>1. CASE Deposit(u, amount, limit)
    BY <2>1, DepositEnters, EnterStep
  <2>2. CASE Mint(u, amount, limit)
    BY <2>2, MintEnters, EnterStep
  <2>3. CASE Redeem(u, amount, limit)
    BY <2>3, RedeemLeaves, LeaveStep
  <2>4. CASE Withdraw(u, amount, limit)
    BY <2>4, WithdrawLeaves, LeaveStep
  <2>5. QED
    BY <1>1, <2>1, <2>2, <2>3, <2>4
<1>2. CASE LiquidityInstruction
  BY <1>1, <1>2 DEF LiquidityInstruction
<1>3. CASE BurnOwnShares
  BY <1>3, BurnStep
<1>4. CASE MoveIdle \/ UNCHANGED vaultVars
  BY <1>4, IdleStep
<1>5. QED
  BY <1>2, <1>3, <1>4 DEF VaultNext

-----------------------------------------------------------------------------
(* The inductive invariant holds in every state of the vault.              *)
THEOREM VaultInvariant == VaultSpec => []VaultInv
<1>1. VaultInit => VaultInv
  BY InitEstablishes
<1>2. VaultInv /\ [VaultNext]_vaultVars => VaultInv'
  BY StepPreserves
<1>3. QED
  BY <1>1, <1>2, PTL DEF VaultSpec

(* Token amounts, supplies and managed assets keep their types and widths. *)
THEOREM VaultTypes == VaultSpec => []VaultTypeOK
<1>1. VaultInv => VaultTypeOK
  BY DEF VaultInv
<1>2. QED
  BY <1>1, VaultInvariant, PTL

(* The price of a share never falls below the one the vault opened at.     *)
THEOREM SharePriceIsCovered == VaultSpec => []SharePriceCovered
<1>1. VaultInv => SharePriceCovered
  BY DEF VaultInv
<1>2. QED
  BY <1>1, VaultInvariant, PTL

(* No redeem and no withdraw of existing shares takes out more than the    *)
(* vault manages, so total_managed_assets never underflows.                *)
THEOREM ClaimsAreCovered == VaultSpec => []ClaimsCovered
<1>1. ASSUME VaultInv
      PROVE  ClaimsCovered
  <2>1. /\ totalManagedAssets \in Nat /\ shareSupply \in Nat
        /\ totalManagedAssets * VirtualShares >= shareSupply * VirtualAssets
    BY <1>1 DEF VaultInv, VaultTypeOK, SharePriceCovered
  <2>2. ASSUME NEW q \in 1 .. shareSupply, NEW x \in PreviewRedeem(q)
        PROVE  x <= totalManagedAssets
    <3>1. x \in AssetsFloor(q, totalManagedAssets, shareSupply)
      BY <2>2 DEF PreviewRedeem
    <3>2. q \in Nat
      BY <2>1
    <3>3. x \in Nat
      BY <2>1, <3>1, <3>2, ConversionIsNat
    <3>4. x * (shareSupply + VirtualShares) <= q * (totalManagedAssets + VirtualAssets)
      BY <2>1, <3>1, <3>3, LeavingIsFair
    <3>5. QED
      BY <2>1, <3>3, <3>4, ClaimIsCovered
  <2>3. ASSUME NEW x \in Amounts, NEW q \in PreviewWithdraw(x), q \in 1 .. shareSupply
        PROVE  x <= totalManagedAssets
    <3>1. q \in SharesCeil(x, totalManagedAssets, shareSupply)
      BY <2>3 DEF PreviewWithdraw
    <3>2. x \in Nat
      BY BoundAssumption
    <3>3. x * (shareSupply + VirtualShares) <= q * (totalManagedAssets + VirtualAssets)
      BY <2>1, <2>3, <3>1, <3>2, LeavingIsFair
    <3>4. QED
      BY <2>1, <2>3, <3>2, <3>3, ClaimIsCovered
  <2>4. QED
    BY <2>2, <2>3 DEF ClaimsCovered
<1>2. QED
  BY <1>1, VaultInvariant, PTL

(* All depositors together claim no more than the vault manages.           *)
LEMMA ClaimsAddUp ==
  ASSUME VaultInv
  PROVE  AllClaimsCovered
<1> DEFINE t == totalManagedAssets
           s == shareSupply
           claimsOf(u) == {0} \cup PreviewRedeem(userShares[u])
<1>1. /\ t \in Nat /\ s \in Nat /\ VirtualAssets \in Nat /\ VirtualShares \in Nat
      /\ userShares \in [Users -> Nat]
      /\ t * VirtualShares >= s * VirtualAssets
      /\ SumFunction(userShares) = s
  BY WidthAssumption, VirtualAssumption
     DEF VaultInv, VaultTypeOK, SharePriceCovered, SharesAddUp
<1> SUFFICES ASSUME NEW claims \in [Users -> UNION {claimsOf(u) : u \in Users}],
                    \A u \in Users : claims[u] \in claimsOf(u)
             PROVE  SumFunction(claims) <= t
  BY DEF AllClaimsCovered, AllClaimsWithin
<1>2. \A u \in Users : claims[u] = 0 \/ claims[u] \in AssetsFloor(userShares[u], t, s)
  BY DEF PreviewRedeem
<1>3. claims \in [Users -> Nat]
  <2>1. \A u \in Users : claims[u] \in Nat
    BY <1>1, <1>2, ConversionIsNat
  <2> QED
    BY <2>1
<1> HIDE DEF claimsOf
<1>4. CASE Degenerate(t, s)
  <2>1. \A u \in Users : claims[u] * 1 <= userShares[u] * (IF t = 0 /\ s = 0 THEN 1 ELSE 0)
    BY <1>1, <1>2, <1>4 DEF AssetsFloor, OneToOne
  <2>2. /\ SumFunction(claims) \in Nat
        /\ SumFunction(claims) * 1 <= s * (IF t = 0 /\ s = 0 THEN 1 ELSE 0)
    BY <1>1, <1>3, <2>1, UsersAssumption, SumsInProportion
  <2> QED
    BY <1>1, <2>2
<1>5. CASE ~Degenerate(t, s)
  <2> DEFINE A == t + VirtualAssets
             R == s + VirtualShares
  <2>1. A \in Nat \ {0} /\ R \in Nat \ {0}
    BY <1>1, <1>5 DEF Degenerate
  <2>2. ASSUME NEW u \in Users
        PROVE  claims[u] * R <= userShares[u] * A
    <3>1. userShares[u] \in Nat
      BY <1>1
    <3>2. CASE claims[u] = 0
      BY <2>1, <3>1, <3>2, ProductInNat
    <3>3. CASE claims[u] \in AssetsFloor(userShares[u], t, s)
      <4>1. claims[u] \in ConvertFloor(userShares[u], A, R)
        BY <1>5, <3>3 DEF AssetsFloor
      <4> QED
        BY <2>1, <3>1, <4>1, FloorConversion
    <3> QED
      BY <1>2, <3>2, <3>3
  <2> HIDE DEF A, R
  <2>3. SumFunction(claims) \in Nat /\ SumFunction(claims) * R <= s * A
    BY <1>1, <1>3, <2>1, <2>2, UsersAssumption, SumsInProportion
  <2>4. CASE s = 0
    <3>1. SumFunction(claims) * R <= 0 * R
      BY <2>1, <2>3, <2>4
    <3>2. SumFunction(claims) <= 0
      BY <2>1, <2>3, <3>1, MulCancel
    <3> QED
      BY <1>1, <2>3, <3>2
  <2>5. CASE s # 0
    <3>1. s \in 1 .. s
      BY <1>1, <2>5
    <3> QED
      BY <1>1, <2>3, <3>1, ClaimIsCovered DEF A, R
  <2> QED
    BY <2>4, <2>5
<1> QED
  BY <1>4, <1>5

(* All depositors' claims together are covered, for any number of them.    *)
THEOREM AllClaimsAreCovered == VaultSpec => []AllClaimsCovered
<1>1. VaultInv => AllClaimsCovered
  BY ClaimsAddUp
<1>2. QED
  BY <1>1, VaultInvariant, PTL

(* No depositor gains by entering and leaving at once, at any state of the *)
(* vault and for any amount.                                               *)
THEOREM RoundTripsDoNotPay == VaultSpec => []RoundTripNoProfit
<1>1. ASSUME VaultInv
      PROVE  RoundTripNoProfit
  <2>1. totalManagedAssets \in Nat /\ shareSupply \in Nat
    BY <1>1 DEF VaultInv, VaultTypeOK
  <2>2. ASSUME NEW amount \in Amounts \ {0}
        PROVE  amount \in Nat \ {0}
    BY BoundAssumption
  <2>3. ASSUME NEW amount \in Amounts \ {0}, NEW shares \in PreviewDeposit(amount) \ {0}
        PROVE  /\ \A back \in AssetsFloor(shares, totalManagedAssets + amount,
                                           shareSupply + shares) : back <= amount
               /\ \A burned \in SharesCeil(amount, totalManagedAssets + amount,
                                            shareSupply + shares) : burned >= shares
    <3>1. shares \in SharesFloor(amount, totalManagedAssets, shareSupply)
      BY DEF PreviewDeposit
    <3>2. shares \in Nat \ {0}
      BY <2>1, <2>2, <3>1, ConversionIsNat
    <3>3. /\ \A b \in SharesCeil(amount, totalManagedAssets + amount,
                                  shareSupply + shares) : shares <= b
          /\ \A y \in AssetsFloor(shares, totalManagedAssets + amount,
                                   shareSupply + shares) : y <= amount
      BY <2>1, <2>2, <3>1, <3>2, RoundTrip
    <3>4. ASSUME NEW b \in SharesCeil(amount, totalManagedAssets + amount,
                                     shareSupply + shares)
          PROVE  b >= shares
      BY <3>3
    <3>5. QED
      BY <3>3, <3>4
  <2>4. ASSUME NEW amount \in Amounts \ {0}, NEW cost \in PreviewMint(amount) \ {0}
        PROVE  /\ \A back \in AssetsFloor(amount, totalManagedAssets + cost,
                                           shareSupply + amount) : back <= cost
               /\ \A burned \in SharesCeil(cost, totalManagedAssets + cost,
                                            shareSupply + amount) : burned >= amount
    <3>1. cost \in AssetsCeil(amount, totalManagedAssets, shareSupply)
      BY DEF PreviewMint
    <3>2. cost \in Nat \ {0}
      BY <2>1, <2>2, <3>1, ConversionIsNat
    <3>3. /\ \A b \in SharesCeil(cost, totalManagedAssets + cost,
                                  shareSupply + amount) : amount <= b
          /\ \A y \in AssetsFloor(amount, totalManagedAssets + cost,
                                   shareSupply + amount) : y <= cost
      BY <2>1, <2>2, <3>1, <3>2, RoundTrip
    <3>4. ASSUME NEW b \in SharesCeil(cost, totalManagedAssets + cost,
                                     shareSupply + amount)
          PROVE  b >= amount
      BY <3>3
    <3>5. QED
      BY <3>3, <3>4
  <2>5. QED
    BY <2>3, <2>4 DEF RoundTripNoProfit
<1>2. QED
  BY <1>1, VaultInvariant, PTL

(* Nobody's instruction lowers the price of the shares the others hold.    *)
THEOREM NobodyIsDiluted == VaultSpec => NoDilution
<1>1. VaultInv /\ [VaultNext]_vaultVars => [PriceDoesNotFall]_vaultVars
  BY StepPreserves
<1>2. QED
  BY <1>1, VaultInvariant, PTL DEF VaultSpec, NoDilution
=============================================================================
