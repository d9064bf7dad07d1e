----------------------------- MODULE MCEquipment -----------------------------
(* Instances of Equipment: two wallets trade a breastplate, a ring and a fighter. *)
EXTENDS Equipment, TLC

CONSTANTS Alice, Bob, Plate, Ring, Lion, Mage

MCItems == {Plate, Ring}
MCNfts == {Plate, Ring, Lion}

\* Armor and a charm: classes with several slots, one of them mirrored.
MCBaseType == [i \in Items |-> IF i = Ring THEN 3 ELSE 2]

\* The mage wears no armor; a fighter wears everything.
MCSlotMask == [c \in Cards \cup Fighters |-> IF c = Mage THEN Classes \ {2} ELSE Classes]

WalletSymmetry == Permutations(Wallets)
=============================================================================
