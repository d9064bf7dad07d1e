---------------------------- MODULE MCMintCommit ----------------------------
(* An instance of MintCommit. *)
EXTENDS MintCommit

CONSTANTS Alice, Bob, T, S, R, Q

MCWallets == {Alice, Bob}
MCAccounts == {T, S}

\* fee 11: slices 6, 4 with the dust, and 1, the sink slice below the rent
\* minimum; fee 15: slices 9, 3 and 3, both destinations the same account.
SubRent == [treasury |-> T, sink |-> S, fee |-> 11,
            creatorBps |-> 6000, platformBps |-> 3000, sinkBps |-> 1000]
OneAccount == [treasury |-> S, sink |-> S, fee |-> 15,
               creatorBps |-> 6000, platformBps |-> 2000, sinkBps |-> 2000]

MCConfigArgs == {SubRent, OneAccount}

MCInitialBalance == [a \in Accounts \cup Releases |-> 0]

\* Gear of the class fighters have, with a skin of either release; a fighter
\* without one; two fighters commit_mint must refuse.
Gear == [baseType |-> "Charm", symbol |-> "plain", metadata |-> "loose", skin |-> "Stellar"]
Fighter == [baseType |-> "Charm", symbol |-> "fighter", metadata |-> "strict", skin |-> "Builtin"]
BadFighter == [Fighter EXCEPT !.baseType = "Other"]
LooseFighter == [Fighter EXCEPT !.metadata = "loose"]

MCIntents == {Gear, Fighter, BadFighter, LooseFighter}

\* What governance (Alice) has configured, or what a registration left behind
\* before anyone configured the registry.
Governed(c) == [layout |-> "current", authority |-> Alice, nextIndex |-> 0, config |-> c]
Ungoverned == [layout |-> "current", authority |-> None, nextIndex |-> 1, config |-> DefaultConfig]

OpenInit ==
  /\ registry \in {Governed(SubRent), Ungoverned}
  /\ upgradeAuthority = None
  /\ signer = None
  /\ issued = [i \in 1..registry.nextIndex |-> i - 1]
  /\ ClockInit
  /\ commits = [k \in Keys |-> NoCommit]
  /\ releases = [r \in Releases |-> [status |-> IF r = R THEN "Finalized" ELSE "Linked",
                                    authority |-> Bob]]
  /\ balance = InitialBalance
  /\ minted = {} /\ settled = {} /\ receipts = {}

\* Minters, keepers, a release that changes hands once and the clock;
\* governance repoints destinations, retunes the split and mints itself.
OpenNext ==
  \/ \E k \in Keys, i \in Intents, r \in Releases \cup {None} : CommitMint(k, i, r)
  \/ \E k \in Keys, r \in Releases \cup {None} : RevealMint(k, r) \/ RevealAvatarMint(k, r)
  \/ \E k \in Keys : CloseExpiredCommit(k)
  \/ \E w \in Wallets : MintArenaItem(w, Fighter, None)
  \/ /\ TransferRelease(R, Alice)
     /\ UNCHANGED <<registryVars, clockVars, commits, balance, minted, settled, receipts>>
  \/ AdvanceClock
  \/ /\ \E w \in Wallets, c \in ConfigArgs \ {registry.config} : ConfigureRegistry(w, c)
     /\ UNCHANGED <<clockVars, mintVars>>

OpenSpec == OpenInit /\ [][OpenNext]_vars /\ Fairness
=============================================================================
