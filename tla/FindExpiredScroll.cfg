\* An expired attempt burns its scroll.
CONSTANTS
  None = None
  Alice = Alice
  Bob = Bob
  T = T
  S = S
  Sword = Sword
  Knight = Knight
  Scroll1 = Scroll1
  Scroll2 = Scroll2
  Scroll3 = Scroll3
  Wallets = {Alice}
  Accounts = {T, S}
  Genesis = Alice
  ConfigArgs <- MCOneConfig
  LegacyIndex = 1
  MaxIndex = 2
  Releases = {}
  RentMinimum = 3
  InitialBalance <- MCInitialBalance
  Nfts <- MCNfts
  Items = {Sword}
  Fighters = {}
  Cards = {Knight}
  BaseType <- MCBaseType
  SlotMask <- MCSlotMask
  Escrows <- Keys
  Scrolls <- MCScrolls
  Nonces = {1}
  MaxLevel = 2
  RollDenominator = 10
  SuccessBps <- MCSuccessBps
  FeeMultiplier = 2
  Roll <- MCRoll
  Retention = 2
  MaxGap = 2
  SlotHorizon = 5
  Delay = 1
  Window = 2
  CommitHorizon = 2
SPECIFICATION KeepSpec
INVARIANT ExpiryReturnsScroll
\* The clock stops at SlotHorizon.
CHECK_DEADLOCK FALSE
