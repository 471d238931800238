----------------------------- MODULE MCFactory -----------------------------
EXTENDS FactoryTx, TLC

CONSTANTS alice, bob, atom, luna, nova, stable

MCAccounts == {alice, bob}
MCAssets == {atom, luna, nova}
(* Names of one byte each.                                                 *)
MCPlainNames == (atom :> <<2>>) @@ (luna :> <<3>>) @@ (nova :> <<4>>)
(* Names that overlap as "ab", "aba" and "ba" do.                          *)
MCOverlappingNames == (atom :> <<2, 3>>) @@ (luna :> <<2, 3, 2>>) @@ (nova :> <<3, 2>>)
=============================================================================
