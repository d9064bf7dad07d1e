\* One regular from the first account on, and four members with a challenger.
CONSTANTS
  None = None
  Alice = Alice
  Bob = Bob
  Cleo = Cleo
  Dina = Dina
  Eve = Eve
  Burner = Burner
  Main = Main
  Side = Side
  Wallets <- MCWallets
  Boards = {Main, Side}
  Capacities = {1, 2}
  SessionKeys = {Burner}
  MinCapacity = 2
  MaxCapacity = 5
  StartingRating = 15
  CooldownSlots = 1
  MaxBattlesPerDay = 1
  DayHorizon = 2
  Retention = 2
  MaxGap = 1
  SlotHorizon = 4
SPECIFICATION MCSpec
INVARIANTS HeapOrder EntriesCurrent QuotaKept
PROPERTY ImplementsTopBoards
\* The clock stops at SlotHorizon.
CHECK_DEADLOCK FALSE
