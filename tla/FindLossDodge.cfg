\* The challenger withdraws its ghost once the seed is known.
CONSTANTS
  None = None
  Alice = Alice
  Bob = Bob
  Main = Main
  Lion = Lion
  Mage = Mage
  Wallets = {Alice, Bob}
  Boards = {Main}
  Capacities = {2}
  SessionKeys = {}
  MinCapacity = 2
  MaxCapacity = 2
  StartingRating = 1000
  CooldownSlots = 1
  MaxBattlesPerDay = 1
  DayHorizon = 2
  Nonces = {1}
  Builds <- MCBuilds
  Avatars = {Lion, Mage}
  Beats <- MCBeats
  PairCooldownSlots = 2
  MaxRankedPerPair = 1
  MinRankedGames = 2
  Retention = 2
  MaxGap = 2
  SlotHorizon = 6
  Delay = 1
  Window = 2
  CommitHorizon = 2
SPECIFICATION MCSpec
INVARIANT PeekedFightForcible
\* The clock stops at SlotHorizon.
CHECK_DEADLOCK FALSE
