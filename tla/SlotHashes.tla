----------------------------- MODULE SlotHashes -----------------------------
(***************************************************************************)
(* The two sysvars every commit-reveal instruction of the programs reads:  *)
(* Clock::slot and SlotHashes, and the lookup slothash_at_or_after that    *)
(* turns a committed target slot into the block hash that seeds the roll.  *)
(*                                                                         *)
(* The runtime is external.  A bank is opened at a slot, transactions run  *)
(* in it, and when the next bank opens the finished one is recorded in     *)
(* SlotHashes.  Leaders miss their turns, so the next bank may open        *)
(* several slots later: the slots between have no hash at all.  SlotHashes *)
(* keeps only the Retention newest entries.                                *)
(*                                                                         *)
(* A hash is named by the slot that produced it: what the programs rely on *)
(* is WHICH block seeds a roll, and two blocks never share a hash.         *)
(***************************************************************************)
EXTENDS Integers, FiniteSets, Sequences

CONSTANTS
  Retention,    \* number of entries SlotHashes retains (512 on a cluster)
  MaxGap,       \* the next bank opens at most this many slots later
  SlotHorizon   \* bound: the last slot of a behaviour

ASSUME SlotHashesAssumption ==
  /\ Retention \in Nat \ {0}
  /\ MaxGap \in Nat \ {0}
  /\ SlotHorizon \in Nat \ {0}

VARIABLES
  slot,     \* Clock::slot, the slot of the bank transactions now run in
  blocks    \* the slots of all finished banks

clockVars == <<slot, blocks>>

ClockTypeOK ==
  /\ slot \in 1..SlotHorizon
  /\ blocks \subseteq 0..slot-1

ClockInit ==
  /\ slot = 1
  /\ blocks = {0}

\* The open bank is finished and recorded; the next one opens, perhaps after
\* a run of skipped slots.
NewBank ==
  /\ \E next \in slot+1 .. slot+MaxGap :
       /\ next <= SlotHorizon
       /\ slot' = next
  /\ blocks' = blocks \cup {slot}

-----------------------------------------------------------------------------
\* The entries of the SlotHashes sysvar: the Retention newest finished banks.
Retained(produced) ==
  {s \in produced : Cardinality({u \in produced : u > s}) < Retention}

\* s is the first slot of S at or after target.
IsFirstAtOrAfter(s, S, target) ==
  /\ s \in S
  /\ s >= target
  /\ \A u \in S : u >= target => s <= u

\* slothash_at_or_after(target) answers with the hash of slot s when entries
\* is the content of the sysvar.  A skipped target is answered only when an
\* older entry proves that nothing between was dropped; otherwise the lookup
\* fails (SlotHashNotFound), which is the absence of any such s.
SlothashAtOrAfter(s, entries, target) ==
  /\ IsFirstAtOrAfter(s, entries, target)
  /\ s # target => \E u \in entries : u < target

\* Mutant: the scan keeps the entry below the target, not the one before it.
ScanBelowTarget(s, list, target) ==
  \E i \in DOMAIN list :
    /\ list[i] <= target
    /\ \A j \in 1..i-1 : list[j] > target
    /\ s = list[i]

\* Mutant: only the hash of the target slot itself is found.
ScanOfExactSlot(s, list, target) == \E i \in DOMAIN list : list[i] = target /\ s = target

\* The scan the code runs over the raw newest-first list: the first entry at
\* or below the target ends it, with its own hash when it is the target, else
\* with the entry just before it, if there is one.
SlothashScan(s, list, target) ==
  \E i \in DOMAIN list :
    /\ list[i] <= target
    /\ \A j \in 1..i-1 : list[j] > target
    /\ \/ list[i] = target /\ s = target
       \/ list[i] < target /\ i > 1 /\ s = list[i-1]
=============================================================================
