\* A registry from nothing or from a legacy account, two releases.
CONSTANTS
  None = None
  Elsewhere = Elsewhere
  Genesis_ = Genesis_
  Genesis = Genesis_
  Deployer = Deployer
  Stranger = Stranger
  Vault1 = Vault1
  Vault2 = Vault2
  R = R
  Q = Q
  Wallets <- MCWallets
  Accounts <- MCAccounts
  ConfigArgs <- MCConfigArgs
  Releases <- MCReleases
  UniverseOwner <- MCUniverseOwner
  LegacyIndex = 1
  MaxIndex = 4
SPECIFICATION Spec
INVARIANTS IndexesUnique ConfiguredIsValid FirstAndNewestCard
PROPERTY GovernanceHandover
