--------------------------- MODULE MCStellarBridge ---------------------------
(* The registry and the bridge.  Configurations worth trying are a good      *)
(* one, a split that does not add up, and a missing destination.             *)
EXTENDS StellarBridge

CONSTANTS Genesis_, Deployer, Stranger, Vault1, Vault2, R, Q

MCWallets == {Genesis_, Deployer, Stranger}
MCAccounts == {Vault1, Vault2}
MCReleases == {R, Q}

\* Both releases are of one universe; its owner is no deploy key.
MCUniverseOwner == [r \in Releases |-> Stranger]

Good(t, s) == [treasury |-> t, sink |-> s, fee |-> 10,
               creatorBps |-> 6000, platformBps |-> 3000, sinkBps |-> 1000]

MCConfigArgs ==
  { Good(Vault1, Vault2),
    [Good(Vault1, Vault2) EXCEPT !.sinkBps = 1001],
    [Good(Vault1, Vault2) EXCEPT !.treasury = None],
    [Good(Vault1, Vault2) EXCEPT !.sink = None] }
=============================================================================
