\* The full next-state relation from every bootstrap.
CONSTANTS
  None = None
  Alice = Alice
  Bob = Bob
  T = T
  S = S
  Sword = Sword
  Knight = Knight
  Scroll1 = Scroll1
  Scroll2 = Scroll2
  Scroll3 = Scroll3
  Wallets = {Alice}
  Accounts = {T, S}
  Genesis = Alice
  ConfigArgs <- MCConfigArgs
  LegacyIndex = 1
  MaxIndex = 1
  Releases = {}
  RentMinimum = 3
  InitialBalance <- MCInitialBalance
  Nfts <- MCNfts
  Items = {Sword}
  Fighters = {}
  Cards = {Knight}
  BaseType <- MCBaseType
  SlotMask <- MCSlotMask
  Escrows <- Keys
  Scrolls <- MCScrolls
  Nonces = {1}
  MaxLevel = 2
  RollDenominator = 10
  SuccessBps <- MCSuccessBps
  FeeMultiplier = 2
  Roll <- MCRoll
  Retention = 2
  MaxGap = 2
  SlotHorizon = 7
  Delay = 1
  Window = 2
  CommitHorizon = 3
SPECIFICATION FairSpec
PROPERTIES ImplementsCommitReveal EveryAttemptSettles
