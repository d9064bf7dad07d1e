---------------------------- MODULE MCEnhancement ----------------------------
(* Instances of Enhancement: one weapon, wagered again and again. *)
EXTENDS Enhancement

CONSTANTS Alice, Bob, T, S, Sword, Knight, Scroll1, Scroll2, Scroll3

MCScrolls == {Scroll1, Scroll2}
MCThreeScrolls == {Scroll1, Scroll2, Scroll3}
MCNfts == {Sword} \cup Scrolls
MCBaseType == [i \in Items |-> 0]
MCSlotMask == [c \in Cards \cup Fighters |-> Classes]
MCInitialBalance == [a \in Accounts \cup Releases |-> 0]

\* Fee 7, doubled: slices of 1 and 13 lamports with the dust; fee 15, doubled:
\* both destinations get at least the rent minimum, once in one account.
MCConfigArgs ==
  { [treasury |-> T, sink |-> S, fee |-> 15,
     creatorBps |-> 6000, platformBps |-> 2000, sinkBps |-> 2000],
    [treasury |-> T, sink |-> T, fee |-> 7,
     creatorBps |-> 6000, platformBps |-> 3000, sinkBps |-> 1000] }
MCOneConfig ==
  { [treasury |-> T, sink |-> S, fee |-> 15,
     creatorBps |-> 6000, platformBps |-> 2000, sinkBps |-> 2000] }

\* The first attempt is safe, the others succeed at every other slot hash.
MCSuccessBps == [l \in 0..MaxLevel-1 |-> IF l = 0 THEN 10 ELSE 5]
MCRoll(k, i, s) == IF s % 2 = 0 THEN 9 ELSE 4

\* A registry that Alice configured.
ConfiguredInit ==
  /\ HoldersInit
  /\ arenaItem = Items
  /\ avatar = [w \in Wallets |-> NoAvatar]
  /\ record = [w \in Wallets |-> NoRecord]
  /\ diverged = {}
  /\ \E c \in ConfigArgs :
       registry = [layout |-> "current", authority |-> Alice, nextIndex |-> 0, config |-> c]
  /\ upgradeAuthority = None
  /\ signer = None
  /\ issued = << >>
  /\ balance = InitialBalance
  /\ ClockInit
  /\ EnhanceInit

\* Owners, keepers and the clock.
TradeSpec == ConfiguredInit /\ [][EnhanceNext \/ EquipmentStep \/ AdvanceClock]_vars

\* The same without scraps and burns of the holders.
KeepNext ==
  \/ EnhanceNext
  \/ AdvanceClock
  \/ /\ \E n \in Nfts, to \in Wallets : Transfer(n, to)
     /\ UNCHANGED <<registryVars, balance, clockVars, enhanceVars>>
KeepSpec == ConfiguredInit /\ [][KeepNext]_vars
=============================================================================
