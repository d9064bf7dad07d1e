---------------------------- MODULE CommitReveal ----------------------------
(***************************************************************************)
(* What the commit-reveal instruction triples of both programs promise,    *)
(* whatever they pay for and whatever they roll:                           *)
(*                                                                         *)
(*   commit_mint      reveal_mint, reveal_avatar_mint  close_expired_commit*)
(*   commit_enhance   reveal_enhance         close_expired_enhance_commit  *)
(*   commit_challenge resolve_challenge         close_expired_challenge    *)
(*                                                                         *)
(* A commit is a PDA: its key names it, and once the account is closed the *)
(* same key can be committed again.  A commit settles exactly once, either *)
(* by a reveal seeded by THE first block at or after its target, whoever   *)
(* reveals and whenever inside the window, or by expiry after the window.  *)
(* The specification sees the whole chain; it does not know that the       *)
(* programs only see the few hundred entries SlotHashes retains.           *)
(***************************************************************************)
EXTENDS SlotHashes

CONSTANTS
  Keys,          \* the PDA addresses of commits
  Delay,         \* REVEAL_DELAY_SLOTS, PVP_REVEAL_DELAY_SLOTS
  Window,        \* COMMIT_REVEAL_WINDOW_SLOTS, PVP_COMMIT_WINDOW_SLOTS
  CommitHorizon  \* bound: no commit is made after this slot

ASSUME CommitRevealAssumption ==
  /\ Delay \in Nat \ {0}
  /\ Window \in Nat \ {0}
  /\ CommitHorizon \in Nat

VARIABLES
  target,   \* key -> target slot of the open commit, Idle when there is none
  settled   \* history: how every commit so far ended

Idle == 0
Expired == -1

Settlement == [key : Keys, target : Nat, entropy : Nat \cup {Expired}]

vars == <<slot, blocks, target, settled>>

TypeOK ==
  /\ ClockTypeOK
  /\ target \in [Keys -> Nat]
  /\ settled \subseteq Settlement

Init ==
  /\ ClockInit
  /\ target = [k \in Keys |-> Idle]
  /\ settled = {}

Commit(k) ==
  /\ target[k] = Idle
  /\ slot <= CommitHorizon
  /\ target' = [target EXCEPT ![k] = slot + Delay]
  /\ UNCHANGED <<clockVars, settled>>

\* Mutant: the account of a settled commit is not closed.
SettleWithoutClosing(k, entropy) ==
  /\ settled' = settled \cup {[key |-> k, target |-> target[k], entropy |-> entropy]}
  /\ UNCHANGED <<clockVars, target>>

Settle(k, entropy) ==
  /\ target' = [target EXCEPT ![k] = Idle]
  /\ settled' = settled \cup {[key |-> k, target |-> target[k], entropy |-> entropy]}
  /\ UNCHANGED clockVars

\* Mutant: any block past the target will do.
RevealFromAnyBlock(k) ==
  /\ target[k] # Idle
  /\ slot > target[k] /\ slot <= target[k] + Window
  /\ \E s \in blocks : s >= target[k] /\ Settle(k, s)

Reveal(k) ==
  /\ target[k] # Idle
  /\ slot > target[k]
  /\ slot <= target[k] + Window
  /\ \E s \in blocks : IsFirstAtOrAfter(s, blocks, target[k]) /\ Settle(k, s)

Expire(k) ==
  /\ target[k] # Idle
  /\ slot > target[k] + Window
  /\ Settle(k, Expired)

Next ==
  \/ NewBank /\ UNCHANGED <<target, settled>>
  \/ \E k \in Keys : Commit(k) \/ Reveal(k) \/ Expire(k)

Spec == Init /\ [][Next]_vars

\* Blocks keep coming, and the permissionless close is called by someone.
Fairness ==
  /\ WF_vars(NewBank /\ UNCHANGED <<target, settled>>)
  /\ \A k \in Keys : WF_vars(Expire(k))

FairSpec == Spec /\ Fairness

-----------------------------------------------------------------------------
(* Properties *)

\* A commit has one outcome: two settlements of the same key that carry the
\* same target are one and the same, although the PDA is free for a new commit
\* as soon as it is closed.
OneOutcomePerCommit ==
  \A r1, r2 \in settled :
    r1.key = r2.key /\ r1.target = r2.target => r1 = r2

\* The entropy of a revealed commit is the first block at or after its target
\* on the chain as it is known at ANY later moment: neither the time of the
\* reveal nor the skipped slots around the target let anyone pick another one.
CanonicalEntropy ==
  \A r \in settled :
    r.entropy # Expired => IsFirstAtOrAfter(r.entropy, blocks, r.target)

\* The commit that is open now is younger than every settled one of its key,
\* so closing never frees an old target for a second roll.
TargetsAdvance ==
  \A r \in settled : target[r.key] # Idle => r.target < target[r.key]

\* No commit stays open for ever: it is revealed or expires.
EveryCommitSettles == \A k \in Keys : target[k] # Idle ~> target[k] = Idle
=============================================================================
