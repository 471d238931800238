--------------------------- MODULE MCPairListing ---------------------------
EXTENDS PairListing, TLC

CONSTANTS alice, atom, luna, nova, osmo, stable

MCAssets == {atom, luna, nova, osmo}
(* The key of atom and luna begins that of atom and nova.                  *)
MCNames == (atom :> <<2>>) @@ (luna :> <<3>>) @@ (nova :> <<3, 2>>) @@ (osmo :> <<4>>)
MCLimits == {-1, 1, 3}
=============================================================================
