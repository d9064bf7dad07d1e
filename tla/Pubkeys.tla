------------------------------ MODULE Pubkeys ------------------------------
(* The keys every account of the programs refers to. *)
CONSTANTS
  Wallets,  \* keys that sign transactions
  None      \* Pubkey::default(): an empty slot, an unset field

ASSUME PubkeysAssumption == None \notin Wallets
=============================================================================
