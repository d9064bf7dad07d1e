\* A card swap leaves items in slots the new card does not have.
CONSTANTS
  None = None
  Alice = Alice
  Bob = Bob
  Plate = Plate
  Ring = Ring
  Lion = Lion
  Mage = Mage
  Wallets = {Alice}
  Nfts <- MCNfts
  Items <- MCItems
  Fighters = {Lion}
  Escrows = {}
  Cards = {Mage}
  BaseType <- MCBaseType
  SlotMask <- MCSlotMask
SPECIFICATION EquipmentSpec
INVARIANT RecordSlotsSupported
\* Every item may have been burned.
CHECK_DEADLOCK FALSE
