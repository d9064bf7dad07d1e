\* Two commits of one minter in flight, two releases of one creator, one of which
\* changes hands, on a registry with either configuration or with none yet.
CONSTANTS
  None = None
  Alice = Alice
  Bob = Bob
  T = T
  S = S
  R = R
  Q = Q
  Wallets <- MCWallets
  Accounts <- MCAccounts
  Genesis = Alice
  ConfigArgs <- MCConfigArgs
  LegacyIndex = 1
  MaxIndex = 2
  Minters = {Bob}
  Nonces = {1, 2}
  Releases = {R, Q}
  Intents <- MCIntents
  RentMinimum = 3
  InitialBalance <- MCInitialBalance
  Retention = 2
  MaxGap = 2
  SlotHorizon = 6
  Delay = 1
  Window = 2
  CommitHorizon = 2
SPECIFICATION OpenSpec
INVARIANTS FeesRoutedOnce DestinationsRentExempt RoyaltyFollowsFee FighterMintsHaveProof PaidCommitRevealable
PROPERTIES ImplementsCommitReveal EveryCommitSettles
