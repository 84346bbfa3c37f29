---------------------------- MODULE VaultShares ----------------------------
(***************************************************************************)
(* The conversions between the vault's asset and its shares                *)
(* (programs/cushion/src/math/vault_shares.rs).                            *)
(*                                                                         *)
(* Each operator below is the set of its results (see CheckedMath).        *)
(***************************************************************************)
EXTENDS CheckedMath

CONSTANTS
  VirtualAssets,  \* vault.virtual_assets, fixed by init_vault
  VirtualShares   \* vault.virtual_shares, fixed by init_vault

ASSUME VirtualAssumption ==
  /\ VirtualAssets \in 0 .. U64_MAX
  /\ VirtualShares \in 0 .. U64_MAX

(* Virtual assets come with virtual shares.  init_vault does not check it;  *)
(* without it the last shares are worth more than the vault manages.       *)
ASSUME VirtualPairAssumption == VirtualAssets > 0 => VirtualShares > 0

-----------------------------------------------------------------------------
(* Exact 1:1 conversion of an empty vault that has no virtual liquidity.   *)
Degenerate(assets, supply) ==
  assets + VirtualAssets = 0 \/ supply + VirtualShares = 0

(* x * ratio / denominator, in u128 and cast to u64.                       *)
ConvertFloorRoundedUp(x, ratio, denominator) ==  \* mutant
  {q \in {CeilDiv(x * ratio, denominator)} : x * ratio <= U128_MAX /\ q <= U64_MAX}

ConvertFloor(x, ratio, denominator) ==
  {q \in {FloorDiv(x * ratio, denominator)} : x * ratio <= U128_MAX /\ q <= U64_MAX}

ConvertCeil(x, ratio, denominator) ==
  {q \in {CeilDiv(x * ratio, denominator)} : x * ratio <= U128_MAX /\ q <= U64_MAX}

OneToOne(x, assets, supply) == IF assets = 0 /\ supply = 0 THEN {x} ELSE {}

(* convert_to_shares_floor: shares minted for a deposit.                   *)
SharesFloor(assets_in, assets, supply) ==
  IF Degenerate(assets, supply)
    THEN OneToOne(assets_in, assets, supply)
    ELSE ConvertFloor(assets_in, supply + VirtualShares, assets + VirtualAssets)

(* convert_to_assets_floor: assets paid for a redemption.                  *)
AssetsFloor(shares_in, assets, supply) ==
  IF Degenerate(assets, supply)
    THEN OneToOne(shares_in, assets, supply)
    ELSE ConvertFloor(shares_in, assets + VirtualAssets, supply + VirtualShares)

(* convert_to_assets_ceil: assets charged for an exact number of shares.   *)
AssetsCeil(shares_out, assets, supply) ==
  IF Degenerate(assets, supply)
    THEN OneToOne(shares_out, assets, supply)
    ELSE ConvertCeil(shares_out, assets + VirtualAssets, supply + VirtualShares)

(* convert_to_shares_ceil: shares burned for an exact number of assets.    *)
SharesCeil(assets_out, assets, supply) ==
  IF Degenerate(assets, supply)
    THEN OneToOne(assets_out, assets, supply)
    ELSE ConvertCeil(assets_out, supply + VirtualShares, assets + VirtualAssets)
=============================================================================
