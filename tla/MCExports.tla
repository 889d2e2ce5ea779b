----------------------------- MODULE MCExports -----------------------------
(***************************************************************************)
(* Exports alone, over the wallets of MCWallets.                           *)
(***************************************************************************)
EXTENDS Exports, MCWallets
=============================================================================
