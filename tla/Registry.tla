------------------------------ MODULE Registry ------------------------------
(***************************************************************************)
(* The ArenaRegistry PDA of solana-ekza-arena: one account that holds the  *)
(* governance key, the fee economics and the index counter every card,     *)
(* item and fighter takes its number from.  It is created on first use by  *)
(* configure_registry or by a public register instruction, or it is the    *)
(* shorter account of the previous release, which no instruction but       *)
(* migrate_registry_v1 can deserialize.                                    *)
(***************************************************************************)
EXTENDS Integers, Sequences, Pubkeys

CONSTANTS
  Accounts,    \* keys fees can be sent to
  Genesis,     \* GENESIS_REGISTRY_AUTHORITY
  ConfigArgs,  \* the ConfigureRegistryArgs callers try
  LegacyIndex, \* next_index of the legacy account, when there is one
  MaxIndex     \* bound: the counter stops here

BpsDenominator == 10000

Config == [treasury : Accounts \cup {None}, sink : Accounts \cup {None},
           fee : Nat, creatorBps : Nat, platformBps : Nat, sinkBps : Nat]

ASSUME RegistryAssumption ==
  /\ None \notin Accounts
  /\ Genesis \in Wallets
  /\ ConfigArgs \subseteq Config
  /\ LegacyIndex \in Nat
  /\ MaxIndex \in Nat

VARIABLES
  registry,          \* the PDA: its layout and fields
  upgradeAuthority,  \* the upgrade authority in the program's ProgramData
  signer,            \* history: who signed the last transaction
  issued             \* history: the indexes handed out, in order

registryVars == <<registry, upgradeAuthority, signer, issued>>

\* Every field of an account just initialized is zero.
DefaultConfig == [treasury |-> None, sink |-> None, fee |-> 0,
                  creatorBps |-> 0, platformBps |-> 0, sinkBps |-> 0]

ArenaRegistry == [layout : {"absent", "legacy", "current"},
                  authority : Wallets \cup {None},
                  nextIndex : Nat,
                  config : Config]

RegistryTypeOK ==
  /\ registry \in ArenaRegistry
  /\ upgradeAuthority \in Wallets \cup {None}
  /\ signer \in Wallets \cup {None}
  /\ issued \in Seq(Nat)

RegistryInit ==
  /\ \/ registry = [layout |-> "absent", authority |-> None,
                    nextIndex |-> 0, config |-> DefaultConfig]
     \/ registry = [layout |-> "legacy", authority |-> None,
                    nextIndex |-> LegacyIndex, config |-> DefaultConfig]
  /\ upgradeAuthority \in Wallets \cup {None}
  /\ signer = None
  /\ issued = [i \in 1..registry.nextIndex |-> i - 1]

-----------------------------------------------------------------------------
ValidateRegistryConfig(c) ==
  /\ c.creatorBps + c.platformBps + c.sinkBps = BpsDenominator
  /\ c.treasury # None
  /\ c.sink # None

RequireProgramUpgradeAuthority(w) == w \in {Genesis, upgradeAuthority}

\* The account deserializes, or init_if_needed creates it.
Loadable == registry.layout # "legacy"

\* Mutant: the configuration is stored unchecked.
ConfigureUnchecked(w, c) ==
  /\ Loadable
  /\ \/ registry.authority = None /\ RequireProgramUpgradeAuthority(w)
     \/ registry.authority = w
  /\ registry' = [registry EXCEPT !.layout = "current", !.authority = w, !.config = c]
  /\ signer' = w
  /\ UNCHANGED <<upgradeAuthority, issued>>

\* Mutant: the deploy keys may always configure.
ConfigureByDeployKeys(w, c) ==
  /\ Loadable
  /\ ValidateRegistryConfig(c)
  /\ RequireProgramUpgradeAuthority(w) \/ registry.authority = w
  /\ registry' = [registry EXCEPT !.layout = "current", !.authority = w, !.config = c]
  /\ signer' = w
  /\ UNCHANGED <<upgradeAuthority, issued>>

ConfigureRegistry(w, c) ==
  /\ Loadable
  /\ ValidateRegistryConfig(c)
  /\ \/ registry.authority = None /\ RequireProgramUpgradeAuthority(w)
     \/ registry.authority = w
  /\ registry' = [registry EXCEPT !.layout = "current", !.authority = w, !.config = c]
  /\ signer' = w
  /\ UNCHANGED <<upgradeAuthority, issued>>

RotateRegistryAuthority(w, new) ==
  /\ registry.layout = "current"
  /\ registry.authority = w
  /\ new # None
  /\ registry' = [registry EXCEPT !.authority = new]
  /\ signer' = w
  /\ UNCHANGED <<upgradeAuthority, issued>>

\* Mutant: the migrated account starts counting from zero.
MigrateWithoutIndex(w, c) ==
  /\ registry.layout = "legacy"
  /\ ValidateRegistryConfig(c)
  /\ RequireProgramUpgradeAuthority(w)
  /\ registry' = [layout |-> "current", authority |-> w, nextIndex |-> 0, config |-> c]
  /\ signer' = w
  /\ UNCHANGED <<upgradeAuthority, issued>>

\* Only the exact size of the legacy account is migrated.
MigrateRegistryV1(w, c) ==
  /\ registry.layout = "legacy"
  /\ ValidateRegistryConfig(c)
  /\ RequireProgramUpgradeAuthority(w)
  /\ registry' = [layout |-> "current", authority |-> w,
                  nextIndex |-> registry.nextIndex, config |-> c]
  /\ signer' = w
  /\ UNCHANGED <<upgradeAuthority, issued>>

\* A new record takes the next index, as registry.next_index stands before.
TakeIndex(w) ==
  /\ registry.nextIndex < MaxIndex
  /\ registry' = [registry EXCEPT !.layout = "current", !.nextIndex = @ + 1]
  /\ issued' = Append(issued, registry.nextIndex)
  /\ signer' = w
  /\ UNCHANGED upgradeAuthority

\* Anyone may register a card, even before the registry is configured.
RegisterArenaAsset(w) == Loadable /\ TakeIndex(w)

\* The loader's set-authority instruction; None makes the program immutable.
SetUpgradeAuthority(w) ==
  /\ upgradeAuthority # None
  /\ upgradeAuthority' = w
  /\ signer' = upgradeAuthority
  /\ UNCHANGED <<registry, issued>>

RegistryNext ==
  \/ \E w \in Wallets, c \in ConfigArgs : ConfigureRegistry(w, c) \/ MigrateRegistryV1(w, c)
  \/ \E w \in Wallets, new \in Wallets \cup {None} : RotateRegistryAuthority(w, new)
  \/ \E w \in Wallets : RegisterArenaAsset(w)
  \/ \E w \in Wallets \cup {None} : SetUpgradeAuthority(w)

RegistrySpec == RegistryInit /\ [][RegistryNext]_registryVars

-----------------------------------------------------------------------------
(* Properties *)

\* No two records ever get the same index: not across the migration of a
\* legacy account, not when the account is created by a public instruction
\* before anyone configured it.
IndexesUnique ==
  \A i, j \in DOMAIN issued : issued[i] = issued[j] => i = j

\* The economics are never half set: as soon as there is a governance key the
\* stored split is complete and both fee destinations are real, whichever of
\* the two bootstraps (configure_registry, migrate_registry_v1) put it there.
ConfiguredIsValid ==
  registry.authority # None => ValidateRegistryConfig(registry.config)

\* Governance changes hands only by its own signature. The deploy keys count
\* once, to set the first key; after a rotation away from them neither a second
\* configuration nor a second migration brings them back, and the key is never
\* cleared.
GovernanceHandover ==
  [][ registry'.authority # registry.authority =>
        /\ registry'.authority # None
        /\ IF registry.authority = None
           THEN signer' \in {Genesis, upgradeAuthority}
           ELSE signer' = registry.authority ]_registryVars
=============================================================================
