-------------------------------- MODULE Fees --------------------------------
(***************************************************************************)
(* The split of a protocol fee among the treasury, the sink and, for a     *)
(* Stellar skin, the vault of its release, as commit_mint and              *)
(* mint_enhance_scroll charge it under the registry's current config.      *)
(***************************************************************************)
EXTENDS Registry, FiniteSets

CONSTANTS
  Releases,       \* Stellar releases, each with a revenue vault
  RentMinimum,    \* rent-exempt minimum of a plain account
  InitialBalance  \* lamports of destinations and vaults at the start

\* A vault is named by its release and is no account a config can name; there
\* are finitely many of each.
ASSUME FeesAssumption ==
  /\ None \notin Releases
  /\ Accounts \cap Releases = {}
  /\ IsFiniteSet(Accounts) /\ IsFiniteSet(Releases)
  /\ RentMinimum \in Nat
  /\ InitialBalance \in [Accounts \cup Releases -> Nat]

VARIABLE balance  \* lamports of the fee destinations and the release vaults

FeesTypeOK == balance \in [Accounts \cup Releases -> Nat]

-----------------------------------------------------------------------------
FeeSlice(amount, bps) == (amount * bps) \div BpsDenominator

\* The three slices of a fee; r is None when no creator is on the path, whose
\* slice then falls to the platform together with the dust of the divisions.
SinkAmount(fee, c) == FeeSlice(fee, c.sinkBps)
CreatorAmount(fee, c, r) == IF r = None THEN 0 ELSE FeeSlice(fee, c.creatorBps)
\* Mutant: the platform gets its own slice only.
PlatformSlice(fee, c, r) == FeeSlice(fee, c.platformBps)

PlatformAmount(fee, c, r) == fee - SinkAmount(fee, c) - CreatorAmount(fee, c, r)

\* Mutant: the balance after the transfer is not checked.
RentUnchecked(a, amount) == amount >= 0

RequireRentSafe(a, amount) == amount = 0 \/ balance[a] + amount >= RentMinimum

\* deposit_revenue, then the two transfers.
Distribute(fee, c, r) ==
  [a \in DOMAIN balance |->
     balance[a] + (IF a = r THEN CreatorAmount(fee, c, r) ELSE 0)
                + (IF a = c.treasury THEN PlatformAmount(fee, c, r) ELSE 0)
                + (IF a = c.sink THEN SinkAmount(fee, c) ELSE 0)]

\* A fee is charged to a caller of an instruction under the current config.
ChargeFee(fee, r) ==
  LET c == registry.config IN
  /\ registry.authority # None /\ c.treasury # None /\ c.sink # None
  /\ PlatformAmount(fee, c, r) >= 0
  /\ RequireRentSafe(c.treasury, PlatformAmount(fee, c, r))
  /\ RequireRentSafe(c.sink, SinkAmount(fee, c))
  /\ balance' = Distribute(fee, c, r)
=============================================================================
