--------------------------- MODULE RegistryProofs ---------------------------
(***************************************************************************)
(* Safety of the registry for any wallets, configurations and either       *)
(* bootstrap: indexes are unique, the economics are whole as soon as there *)
(* is a governance key, and the key changes hands by its own signature.    *)
(***************************************************************************)
EXTENDS Registry, TLAPS

USE PubkeysAssumption, RegistryAssumption

\* The indexes handed out so far are 0, 1, 2, ... up to the stored counter.
IssuedInOrder ==
  /\ Len(issued) = registry.nextIndex
  /\ \A i \in 1..Len(issued) : issued[i] = i - 1

\* A legacy account has no governance key a current instruction can have set.
LegacyUngoverned == registry.layout = "legacy" => registry.authority = None

RegistryInv ==
  /\ RegistryTypeOK
  /\ IssuedInOrder
  /\ LegacyUngoverned
  /\ ConfiguredIsValid

LEMMA DefaultConfigType == DefaultConfig \in Config
BY DEF DefaultConfig, Config

\* The counter of a legacy account has given out the indexes below it.
LEMMA RegistryInvInit == RegistryInit => RegistryInv
<1>1. SUFFICES ASSUME RegistryInit PROVE RegistryInv
  OBVIOUS
<1>2. registry \in ArenaRegistry
  BY <1>1, DefaultConfigType DEF RegistryInit, ArenaRegistry
<1>3. registry.nextIndex \in Nat
  BY <1>2 DEF ArenaRegistry
<1>4. issued = [i \in 1..registry.nextIndex |-> i - 1]
  BY <1>1 DEF RegistryInit
<1>5. issued \in Seq(Nat) /\ IssuedInOrder
  BY <1>3, <1>4 DEF IssuedInOrder
<1>6. registry.authority = None
  BY <1>1 DEF RegistryInit
<1>7. QED
  BY <1>1, <1>2, <1>5, <1>6
     DEF RegistryInit, RegistryInv, RegistryTypeOK, LegacyUngoverned, ConfiguredIsValid

-----------------------------------------------------------------------------
\* A step that stores a checked configuration and a wallet as its key.
LEMMA SettingConfigInv ==
  ASSUME RegistryInv, NEW w \in Wallets, NEW c \in ConfigArgs, ValidateRegistryConfig(c),
         registry' = [layout |-> "current", authority |-> w,
                      nextIndex |-> registry.nextIndex, config |-> c],
         signer' = w, UNCHANGED <<upgradeAuthority, issued>>
  PROVE  RegistryInv'
<1>1. RegistryTypeOK'
  BY DEF RegistryInv, RegistryTypeOK, ArenaRegistry
<1>2. IssuedInOrder' /\ LegacyUngoverned'
  BY DEF RegistryInv, IssuedInOrder, LegacyUngoverned
<1>3. ConfiguredIsValid'
  BY DEF ConfiguredIsValid, ValidateRegistryConfig
<1>4. QED
  BY <1>1, <1>2, <1>3 DEF RegistryInv

LEMMA ConfigureInv ==
  ASSUME RegistryInv, NEW w \in Wallets, NEW c \in ConfigArgs, ConfigureRegistry(w, c)
  PROVE  RegistryInv'
<1>1. registry' = [layout |-> "current", authority |-> w,
                   nextIndex |-> registry.nextIndex, config |-> c]
  BY DEF RegistryInv, RegistryTypeOK, ArenaRegistry, ConfigureRegistry
<1>2. QED
  BY <1>1, SettingConfigInv DEF ConfigureRegistry

LEMMA MigrateInv ==
  ASSUME RegistryInv, NEW w \in Wallets, NEW c \in ConfigArgs, MigrateRegistryV1(w, c)
  PROVE  RegistryInv'
BY SettingConfigInv DEF MigrateRegistryV1

LEMMA RotateInv ==
  ASSUME RegistryInv, NEW w \in Wallets, NEW new \in Wallets \cup {None},
         RotateRegistryAuthority(w, new)
  PROVE  RegistryInv'
<1>1. registry' = [registry EXCEPT !.authority = new] /\ new # None
      /\ registry.layout = "current" /\ registry.authority = w
      /\ signer' = w /\ issued' = issued /\ upgradeAuthority' = upgradeAuthority
  BY DEF RotateRegistryAuthority
<1>2. RegistryTypeOK'
  BY <1>1 DEF RegistryInv, RegistryTypeOK, ArenaRegistry
<1>3. registry'.layout = "current" /\ registry'.nextIndex = registry.nextIndex
      /\ registry'.config = registry.config
  BY <1>1 DEF RegistryInv, RegistryTypeOK, ArenaRegistry
<1>4. IssuedInOrder' /\ LegacyUngoverned'
  BY <1>1, <1>3 DEF RegistryInv, IssuedInOrder, LegacyUngoverned
<1>5. ConfiguredIsValid'
  BY <1>1, <1>3 DEF RegistryInv, ConfiguredIsValid, ValidateRegistryConfig
<1>6. QED
  BY <1>2, <1>4, <1>5 DEF RegistryInv

\* Every record of every component takes its index here.
LEMMA TakeIndexInv ==
  ASSUME RegistryInv, NEW w \in Wallets, Loadable, TakeIndex(w)
  PROVE  RegistryInv'
<1>1. registry' = [registry EXCEPT !.layout = "current", !.nextIndex = @ + 1]
      /\ issued' = Append(issued, registry.nextIndex)
      /\ signer' = w /\ upgradeAuthority' = upgradeAuthority
  BY DEF TakeIndex
<1>2. registry.nextIndex \in Nat /\ issued \in Seq(Nat) /\ Len(issued) = registry.nextIndex
  BY DEF RegistryInv, RegistryTypeOK, ArenaRegistry, IssuedInOrder
<1>3. RegistryTypeOK'
  <2>1. issued' \in Seq(Nat)
    BY <1>1, <1>2
  <2>2. registry' \in ArenaRegistry
    <3>1. registry' = [layout |-> "current", authority |-> registry.authority,
                       nextIndex |-> registry.nextIndex + 1, config |-> registry.config]
      BY <1>1 DEF RegistryInv, RegistryTypeOK, ArenaRegistry
    <3>2. registry.nextIndex + 1 \in Nat
      BY <1>2
    <3>3. QED
      BY <3>1, <3>2 DEF RegistryInv, RegistryTypeOK, ArenaRegistry
  <2>3. QED
    BY <1>1, <2>1, <2>2 DEF RegistryInv, RegistryTypeOK
<1>4. registry'.layout = "current" /\ registry'.nextIndex = registry.nextIndex + 1
      /\ registry'.config = registry.config /\ registry'.authority = registry.authority
  BY <1>1 DEF RegistryInv, RegistryTypeOK, ArenaRegistry
<1>5. IssuedInOrder'
  <2>1. Len(issued') = Len(issued) + 1
    BY <1>1, <1>2
  <2>2. ASSUME NEW i \in 1..Len(issued') PROVE issued'[i] = i - 1
    <3>1. CASE i = Len(issued) + 1
      BY <1>1, <1>2, <3>1
    <3>2. CASE i \in 1..Len(issued)
      BY <1>1, <1>2, <3>2 DEF RegistryInv, IssuedInOrder
    <3>3. QED
      BY <1>2, <2>1, <2>2, <3>1, <3>2
  <2>3. QED
    BY <1>2, <1>4, <2>1, <2>2 DEF IssuedInOrder
<1>6. LegacyUngoverned' /\ ConfiguredIsValid'
  BY <1>4 DEF RegistryInv, LegacyUngoverned, ConfiguredIsValid, ValidateRegistryConfig
<1>7. QED
  BY <1>3, <1>5, <1>6 DEF RegistryInv

LEMMA SetUpgradeInv ==
  ASSUME RegistryInv, NEW w \in Wallets \cup {None}, SetUpgradeAuthority(w)
  PROVE  RegistryInv'
BY DEF RegistryInv, SetUpgradeAuthority, RegistryTypeOK, IssuedInOrder, LegacyUngoverned,
       ConfiguredIsValid, ValidateRegistryConfig

LEMMA RegistryInvNext == RegistryInv /\ [RegistryNext]_registryVars => RegistryInv'
<1>1. SUFFICES ASSUME RegistryInv, [RegistryNext]_registryVars PROVE RegistryInv'
  OBVIOUS
<1>2. ASSUME NEW w \in Wallets, NEW c \in ConfigArgs, ConfigureRegistry(w, c) PROVE RegistryInv'
  BY <1>1, <1>2, ConfigureInv
<1>3. ASSUME NEW w \in Wallets, NEW c \in ConfigArgs, MigrateRegistryV1(w, c) PROVE RegistryInv'
  BY <1>1, <1>3, MigrateInv
<1>4. ASSUME NEW w \in Wallets, NEW new \in Wallets \cup {None},
             RotateRegistryAuthority(w, new)
      PROVE  RegistryInv'
  BY <1>1, <1>4, RotateInv
<1>5. ASSUME NEW w \in Wallets, RegisterArenaAsset(w) PROVE RegistryInv'
  BY <1>1, <1>5, TakeIndexInv DEF RegisterArenaAsset
<1>6. ASSUME NEW w \in Wallets \cup {None}, SetUpgradeAuthority(w) PROVE RegistryInv'
  BY <1>1, <1>6, SetUpgradeInv
<1>7. CASE UNCHANGED registryVars
  BY <1>1, <1>7 DEF registryVars, RegistryInv, RegistryTypeOK, IssuedInOrder, LegacyUngoverned,
                    ConfiguredIsValid, ValidateRegistryConfig
<1>8. QED
  BY <1>1, <1>2, <1>3, <1>4, <1>5, <1>6, <1>7 DEF RegistryNext

-----------------------------------------------------------------------------
LEMMA RegistryInvariance == RegistrySpec => []RegistryInv
BY RegistryInvInit, RegistryInvNext, PTL DEF RegistrySpec

\* Every reachable state is well typed.
THEOREM RegistryTypeCorrect == RegistrySpec => []RegistryTypeOK
<1>1. RegistryInv => RegistryTypeOK
  BY DEF RegistryInv
<1>2. QED
  BY <1>1, RegistryInvariance, PTL

\* No two records get the same index, whichever way the account came to be.
THEOREM UniqueIndexes == RegistrySpec => []IndexesUnique
<1>1. RegistryInv => IndexesUnique
  <2>1. SUFFICES ASSUME RegistryInv, NEW i \in DOMAIN issued, NEW j \in DOMAIN issued,
                        issued[i] = issued[j]
                 PROVE  i = j
    BY DEF IndexesUnique
  <2>2. issued \in Seq(Nat)
    BY <2>1 DEF RegistryInv, RegistryTypeOK
  <2>3. i \in 1..Len(issued) /\ j \in 1..Len(issued)
    BY <2>2
  <2>4. issued[i] = i - 1 /\ issued[j] = j - 1
    BY <2>1, <2>3 DEF RegistryInv, IssuedInOrder
  <2>5. i \in Int /\ j \in Int
    BY <2>2, <2>3
  <2>6. i - 1 = j - 1
    BY <2>1, <2>4
  <2>7. QED
    BY <2>5, <2>6
<1>2. QED
  BY <1>1, RegistryInvariance, PTL

\* A registry with a governance key has a complete split and real destinations.
THEOREM AlwaysValid == RegistrySpec => []ConfiguredIsValid
<1>1. RegistryInv => ConfiguredIsValid
  BY DEF RegistryInv
<1>2. QED
  BY <1>1, RegistryInvariance, PTL

\* What one step may do to the governance key.
Handover ==
  registry'.authority # registry.authority =>
    /\ registry'.authority # None
    /\ IF registry.authority = None
       THEN signer' \in {Genesis, upgradeAuthority}
       ELSE signer' = registry.authority

LEMMA StepHandover == RegistryInv /\ [RegistryNext]_registryVars => [Handover]_registryVars
<1>1. SUFFICES ASSUME RegistryInv, RegistryNext PROVE Handover
  OBVIOUS
<1>2. registry \in ArenaRegistry
  BY <1>1 DEF RegistryInv, RegistryTypeOK
<1>3. ASSUME NEW w \in Wallets, NEW c \in ConfigArgs, ConfigureRegistry(w, c) PROVE Handover
  BY <1>2, <1>3 DEF ConfigureRegistry, RequireProgramUpgradeAuthority, Handover, ArenaRegistry
<1>4. ASSUME NEW w \in Wallets, NEW c \in ConfigArgs, MigrateRegistryV1(w, c) PROVE Handover
  BY <1>1, <1>4 DEF MigrateRegistryV1, RequireProgramUpgradeAuthority, Handover,
                    RegistryInv, LegacyUngoverned
<1>5. ASSUME NEW w \in Wallets, NEW new \in Wallets \cup {None},
             RotateRegistryAuthority(w, new)
      PROVE  Handover
  BY <1>2, <1>5 DEF RotateRegistryAuthority, Handover, ArenaRegistry
<1>6. ASSUME NEW w \in Wallets, RegisterArenaAsset(w) PROVE Handover
  BY <1>2, <1>6 DEF RegisterArenaAsset, TakeIndex, Handover, ArenaRegistry
<1>7. ASSUME NEW w \in Wallets \cup {None}, SetUpgradeAuthority(w) PROVE Handover
  BY <1>7 DEF SetUpgradeAuthority, Handover
<1>8. QED
  BY <1>1, <1>3, <1>4, <1>5, <1>6, <1>7 DEF RegistryNext

\* The key is never cleared, is first set by a deploy key, and afterwards moves
\* only by the signature of the key that holds it.
THEOREM Handovers == RegistrySpec => GovernanceHandover
<1>1. RegistrySpec => [][Handover]_registryVars
  BY RegistryInvariance, StepHandover, PTL DEF RegistrySpec
<1>2. QED
  BY <1>1 DEF GovernanceHandover, Handover
=============================================================================
