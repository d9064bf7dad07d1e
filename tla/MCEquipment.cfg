\* Both generations of instructions, sales, repurchases, scraps and burns.
CONSTANTS
  None = None
  Alice = Alice
  Bob = Bob
  Plate = Plate
  Ring = Ring
  Lion = Lion
  Mage = Mage
  Wallets = {Alice, Bob}
  Nfts <- MCNfts
  Items <- MCItems
  Fighters = {Lion}
  Escrows = {}
  Cards = {Mage}
  BaseType <- MCBaseType
  SlotMask <- MCSlotMask
SPECIFICATION EquipmentSpec
INVARIANTS MintInOneSlot GearSuitsSlots MirrorCoherent
SYMMETRY WalletSymmetry
\* Every item may have been burned.
CHECK_DEADLOCK FALSE
