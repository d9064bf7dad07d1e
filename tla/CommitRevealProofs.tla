------------------------- MODULE CommitRevealProofs -------------------------
(***************************************************************************)
(* Safety of the commit-reveal promise for any set of keys, any delay and  *)
(* window, any retention and any pattern of skipped slots; and what the    *)
(* scan of the account data answers in every reachable state.              *)
(***************************************************************************)
EXTENDS MCCommitReveal, SlotHashesProofs

USE CommitRevealAssumption

\* A commit settles only after its target, so its target lies in the past.
SettledInThePast == \A r \in settled : r.target < slot

\* The inductive invariant: types, plus how the targets of settled commits,
\* the open target of the same key and the clock are ordered.
IInv ==
  /\ TypeOK
  /\ SettledInThePast
  /\ TargetsAdvance
  /\ CanonicalEntropy
  /\ OneOutcomePerCommit

LEMMA SlotIsNat == ASSUME ClockTypeOK PROVE slot \in Nat /\ slot > 0 /\ blocks \subseteq Nat
BY SlotHashesAssumption DEF ClockTypeOK

LEMMA InitIInv == Init => IInv
<1>1. ASSUME Init PROVE TypeOK
  BY <1>1, SlotHashesAssumption DEF Init, ClockInit, TypeOK, ClockTypeOK, Idle
<1>2. QED
  BY <1>1 DEF Init, IInv, SettledInThePast, TargetsAdvance,
              CanonicalEntropy, OneOutcomePerCommit

\* A new block never becomes the first one at or after an old target.
LEMMA NewBankIInv ==
  ASSUME IInv, NewBank, UNCHANGED <<target, settled>>
  PROVE  IInv'
<1>1. ClockTypeOK'
  BY ClockTypeCorrect DEF IInv, TypeOK
<1>2. TypeOK'
  BY <1>1 DEF IInv, TypeOK
<1>3. slot \in Nat /\ slot' \in Nat /\ slot < slot'
  BY SlotHashesAssumption DEF IInv, TypeOK, ClockTypeOK, NewBank
<1>4. SettledInThePast'
  BY <1>3 DEF IInv, TypeOK, SettledInThePast, Settlement
<1>5. CanonicalEntropy'
  <2>1. SUFFICES ASSUME NEW r \in settled, r.entropy # Expired
                 PROVE  IsFirstAtOrAfter(r.entropy, blocks', r.target)
    BY DEF CanonicalEntropy
  <2>2. IsFirstAtOrAfter(r.entropy, blocks, r.target)
    BY <2>1 DEF IInv, CanonicalEntropy
  <2>3. r.entropy \in Nat /\ r.entropy < slot
    <3>1. r.entropy \in blocks
      BY <2>2 DEF IsFirstAtOrAfter
    <3>2. blocks \subseteq 0..slot-1
      BY DEF IInv, TypeOK, ClockTypeOK
    <3>3. r.entropy \in 0..slot-1
      BY <3>1, <3>2
    <3>4. QED
      BY <1>3, <3>3
  <2>4. blocks' = blocks \cup {slot}
    BY DEF NewBank
  <2>5. QED
    BY <1>3, <2>2, <2>3, <2>4 DEF IsFirstAtOrAfter
<1>6. TargetsAdvance' /\ OneOutcomePerCommit'
  BY DEF IInv, TargetsAdvance, OneOutcomePerCommit
<1>7. QED
  BY <1>2, <1>4, <1>5, <1>6 DEF IInv

\* A key committed again gets a later target than any it had before.
LEMMA CommitIInv ==
  ASSUME IInv, NEW k \in Keys, Commit(k)
  PROVE  IInv'
<1>1. slot \in Nat
  BY SlotIsNat DEF IInv, TypeOK
<1>2. TypeOK'
  BY <1>1 DEF IInv, TypeOK, ClockTypeOK, Commit, clockVars
<1>3. SettledInThePast' /\ CanonicalEntropy' /\ OneOutcomePerCommit'
  BY DEF IInv, Commit, clockVars, SettledInThePast, CanonicalEntropy, OneOutcomePerCommit
<1>4. TargetsAdvance'
  <2>1. SUFFICES ASSUME NEW r \in settled, target'[r.key] # Idle
                 PROVE  r.target < target'[r.key]
    BY DEF TargetsAdvance, Commit
  <2>2. r.target \in Nat /\ r.key \in Keys /\ r.target < slot
    BY DEF IInv, TypeOK, Settlement, SettledInThePast
  <2>3. CASE r.key = k
    <3>1. target'[k] = slot + Delay
      BY DEF IInv, TypeOK, Commit
    <3>2. QED
      BY <1>1, <2>2, <2>3, <3>1
  <2>4. CASE r.key # k
    <3>1. target'[r.key] = target[r.key]
      BY <2>2, <2>4 DEF IInv, TypeOK, Commit
    <3>2. QED
      BY <2>1, <3>1 DEF IInv, TargetsAdvance
  <2>5. QED
    BY <2>3, <2>4
<1>5. QED
  BY <1>2, <1>3, <1>4 DEF IInv

\* Settling an open commit whose target has passed with canonical entropy, or
\* as expired, keeps every settlement apart from the new one.
LEMMA SettleIInv ==
  ASSUME IInv, NEW k \in Keys, target[k] # Idle, slot > target[k],
         NEW e \in Nat \cup {Expired},
         e # Expired => IsFirstAtOrAfter(e, blocks, target[k]),
         Settle(k, e)
  PROVE  IInv'
<1> DEFINE new == [key |-> k, target |-> target[k], entropy |-> e]
<1>1. target[k] \in Nat /\ new \in Settlement
  BY DEF IInv, TypeOK, Settlement
<1>2. settled' = settled \cup {new} /\ target' = [target EXCEPT ![k] = Idle]
      /\ slot' = slot /\ blocks' = blocks
  BY DEF Settle, clockVars
<1>3. TypeOK'
  BY <1>1, <1>2 DEF IInv, TypeOK, ClockTypeOK, Idle
<1>4. SettledInThePast'
  BY <1>2 DEF IInv, SettledInThePast
<1>5. CanonicalEntropy'
  BY <1>2 DEF IInv, CanonicalEntropy
<1>6. TargetsAdvance'
  <2>1. SUFFICES ASSUME NEW r \in settled', target'[r.key] # Idle
                 PROVE  r.target < target'[r.key]
    BY DEF TargetsAdvance
  <2>2. r.key \in Keys
    BY <1>3 DEF TypeOK, Settlement
  <2>3. r.key # k
    BY <1>2, <2>1 DEF IInv, TypeOK
  <2>4. r \in settled /\ target'[r.key] = target[r.key]
    BY <1>2, <2>2, <2>3 DEF IInv, TypeOK
  <2>5. QED
    BY <2>1, <2>4 DEF IInv, TargetsAdvance
<1>7. OneOutcomePerCommit'
  <2>1. ASSUME NEW r \in settled PROVE ~(r.key = k /\ r.target = target[k])
    BY <1>1, <2>1 DEF IInv, TargetsAdvance, TypeOK, Settlement
  <2>2. QED
    BY <1>2, <2>1 DEF IInv, OneOutcomePerCommit
<1>8. QED
  BY <1>3, <1>4, <1>5, <1>6, <1>7 DEF IInv

LEMMA NextIInv == IInv /\ [Next]_vars => IInv'
<1>1. SUFFICES ASSUME IInv, [Next]_vars PROVE IInv'
  OBVIOUS
<1>2. CASE NewBank /\ UNCHANGED <<target, settled>>
  BY <1>1, <1>2, NewBankIInv
<1>3. ASSUME NEW k \in Keys, Commit(k) PROVE IInv'
  BY <1>1, <1>3, CommitIInv
<1>4. ASSUME NEW k \in Keys, Reveal(k) PROVE IInv'
  <2>1. PICK s \in blocks : IsFirstAtOrAfter(s, blocks, target[k]) /\ Settle(k, s)
    BY <1>4 DEF Reveal
  <2>2. s \in Nat
    BY <1>1, SlotIsNat DEF IInv, TypeOK
  <2>3. target[k] # Idle /\ slot > target[k]
    BY <1>4 DEF Reveal
  <2>4. QED
    BY <1>1, <2>1, <2>2, <2>3, SettleIInv
<1>5. ASSUME NEW k \in Keys, Expire(k) PROVE IInv'
  <2>1. target[k] \in Nat /\ slot \in Nat
    BY <1>1, SlotIsNat DEF IInv, TypeOK
  <2>2. target[k] # Idle /\ slot > target[k] /\ Settle(k, Expired)
    BY <1>5, <2>1 DEF Expire
  <2>3. QED
    BY <1>1, <2>2, SettleIInv
<1>6. CASE UNCHANGED vars
  BY <1>1, <1>6 DEF IInv, TypeOK, ClockTypeOK, SettledInThePast, TargetsAdvance,
                    CanonicalEntropy, OneOutcomePerCommit, vars
<1>7. QED
  BY <1>1, <1>2, <1>3, <1>4, <1>5, <1>6 DEF Next

-----------------------------------------------------------------------------
LEMMA Invariance == Spec => []IInv
BY InitIInv, NextIInv, PTL DEF Spec

\* Every reachable state is well typed.
THEOREM TypeCorrect == Spec => []TypeOK
<1>1. IInv => TypeOK
  BY DEF IInv
<1>2. QED
  BY <1>1, Invariance, PTL

\* A paid commit is settled at most once.
THEOREM OneOutcome == Spec => []OneOutcomePerCommit
<1>1. IInv => OneOutcomePerCommit
  BY DEF IInv
<1>2. QED
  BY <1>1, Invariance, PTL

\* Whoever reveals, and whenever, the seed comes from the same block.
THEOREM Canonical == Spec => []CanonicalEntropy
<1>1. IInv => CanonicalEntropy
  BY DEF IInv
<1>2. QED
  BY <1>1, Invariance, PTL

-----------------------------------------------------------------------------
(* What the scan answers *)

NoList(k) ==
  \E S : /\ S \subseteq Nat /\ IsFiniteSet(S) /\ Cardinality(S) = k
         /\ \A list : ~ListsDescending(list, S)

\* A finite set of slots can be listed newest first: in a smallest set without
\* such a list, the oldest slot could be appended to the list of the others.
LEMMA ListExists ==
  ASSUME NEW S, S \subseteq Nat, IsFiniteSet(S)
  PROVE  \E list : ListsDescending(list, S)
<1> DEFINE Unlisted == {k \in Nat : NoList(k)}
<1>1. SUFFICES ASSUME Unlisted # {} PROVE FALSE
  <2>1. Cardinality(S) \in Nat
    BY FS_CardinalityType
  <2>2. QED
    BY <2>1 DEF NoList
<1>2. PICK n \in Unlisted : \A k \in Unlisted : n <= k
  <2>1. Unlisted \in SUBSET Nat
    OBVIOUS
  <2> HIDE DEF Unlisted
  <2>2. QED
    BY <1>1, <2>1, Least
<1>3. PICK R : /\ R \subseteq Nat /\ IsFiniteSet(R) /\ Cardinality(R) = n
               /\ \A list : ~ListsDescending(list, R)
  BY <1>2 DEF NoList
<1>4. R # {}
  <2>1. SUFFICES ASSUME R = {} PROVE FALSE
    OBVIOUS
  <2>2. Cardinality(R) = 0
    BY <2>1, FS_EmptySet
  <2>3. ListsDescending([i \in 1..0 |-> 0], R)
    BY <2>1, <2>2 DEF ListsDescending, Descending
  <2>4. QED
    BY <1>3, <2>3
<1>5. PICK m \in R : \A r \in R : m <= r
  BY <1>3, <1>4, Least
<1> DEFINE rest == R \ {m}
<1>6. IsFiniteSet(rest) /\ Cardinality(rest) = n - 1 /\ n \in Nat \ {0}
  <2>1. IsFiniteSet(rest) /\ Cardinality(rest) = n - 1
    BY <1>3, FS_RemoveElement
  <2>2. n # 0
    BY <1>3, <1>4, FS_EmptySet
  <2>3. QED
    BY <1>2, <2>1, <2>2
<1>7. PICK list : ListsDescending(list, rest)
  <2>1. n - 1 \in Nat /\ ~(n <= n - 1)
    BY <1>6
  <2>2. ~NoList(n - 1)
    BY <1>2, <2>1
  <2>3. rest \subseteq Nat
    BY <1>3
  <2> HIDE DEF rest
  <2>4. QED
    BY <1>6, <2>2, <2>3 DEF NoList
<1> DEFINE longer == [i \in 1..n |-> IF i = n THEN m ELSE list[i]]
<1>8. /\ list \in [1..n-1 -> rest]
      /\ {list[i] : i \in 1..n-1} = rest
      /\ \A i, j \in 1..n-1 : i < j => list[i] > list[j]
  BY <1>6, <1>7 DEF ListsDescending, Descending
<1>9. \A i \in 1..n : i = n \/ i \in 1..n-1
  BY <1>6
<1>10. longer \in [1..n -> R]
  BY <1>8, <1>9
<1>11. {longer[i] : i \in 1..n} = R
  <2>1. ASSUME NEW r \in R PROVE \E i \in 1..n : longer[i] = r
    <3>1. CASE r = m
      BY <1>6, <3>1
    <3>2. CASE r # m
      <4>1. PICK i \in 1..n-1 : list[i] = r
        BY <1>8, <3>2
      <4>2. i \in 1..n /\ i # n
        BY <1>6
      <4>3. QED
        BY <4>1, <4>2
    <3>3. QED
      BY <3>1, <3>2
  <2>2. QED
    BY <1>10, <2>1
<1>12. \A i, j \in 1..n : i < j => longer[i] > longer[j]
  <2>1. SUFFICES ASSUME NEW i \in 1..n, NEW j \in 1..n, i < j
                 PROVE  longer[i] > longer[j]
    OBVIOUS
  <2>2. i \in 1..n-1 /\ i # n
    BY <1>6, <2>1
  <2>3. CASE j = n
    <3>1. list[i] \in R /\ list[i] # m
      BY <1>8, <2>2
    <3>2. m <= list[i] /\ m \in Nat /\ list[i] \in Nat
      BY <1>3, <1>5, <3>1
    <3>3. longer[i] = list[i] /\ longer[j] = m
      BY <2>2, <2>3
    <3>4. QED
      BY <3>1, <3>2, <3>3
  <2>4. CASE j # n
    <3>1. j \in 1..n-1
      BY <1>9, <2>4
    <3>2. QED
      BY <1>8, <2>1, <2>2, <2>4, <3>1
  <2>5. QED
    BY <2>3, <2>4
<1>13. ListsDescending(longer, R)
  BY <1>3, <1>10, <1>11, <1>12 DEF ListsDescending, Descending
<1>14. QED
  BY <1>3, <1>13

\* The entries of the sysvar, as the account data lists them.
LEMMA NewestFirstIsTheSysvar ==
  ASSUME ClockTypeOK
  PROVE  /\ NewestFirst \in Seq(Nat)
         /\ Descending(NewestFirst)
         /\ {NewestFirst[i] : i \in DOMAIN NewestFirst} = Retained(blocks)
<1> DEFINE entries == Retained(blocks)
<1>1. entries \subseteq Nat /\ IsFiniteSet(entries)
  <2>1. entries \in SUBSET blocks
    BY DEF Retained
  <2>2. QED
    BY <2>1, BlocksFinite, FS_Subset
<1>2. Cardinality(entries) \in Nat
  BY <1>1, FS_CardinalityType
<1>3. NewestFirst = CHOOSE list \in [1..Cardinality(entries) -> entries] :
                      ListsDescending(list, entries)
  BY DEF NewestFirst
<1> HIDE DEF entries
<1>4. PICK list : ListsDescending(list, entries)
  BY <1>1, ListExists
<1>5. list \in [1..Cardinality(entries) -> entries]
  BY <1>4 DEF ListsDescending
<1>6. ListsDescending(NewestFirst, entries)
  BY <1>3, <1>4, <1>5
<1>7. NewestFirst \in [1..Cardinality(entries) -> Nat]
  BY <1>1, <1>6 DEF ListsDescending
<1>8. NewestFirst \in Seq(Nat)
  BY <1>2, <1>7
<1>9. QED
  BY <1>6, <1>8 DEF ListsDescending, entries

\* The scan answers what the lookup does.
LEMMA AnswersAreLookups ==
  ASSUME ClockTypeOK, NEW t \in Nat, NEW s \in Nat
  PROVE  SlothashScan(s, NewestFirst, t) <=> SlothashAtOrAfter(s, Retained(blocks), t)
<1>1. /\ NewestFirst \in Seq(Nat)
      /\ \A i, j \in DOMAIN NewestFirst : i < j => NewestFirst[i] > NewestFirst[j]
      /\ {NewestFirst[i] : i \in DOMAIN NewestFirst} = Retained(blocks)
  BY NewestFirstIsTheSysvar DEF Descending
<1>2. QED
  BY <1>1, ScanIsLookup

\* In a well-typed state the scan answers with the canonical block or not at all.
LEMMA TypedAnswers == ClockTypeOK => AnswerIsCanonical
<1>1. SUFFICES ASSUME ClockTypeOK, NEW t \in Targets, NEW s \in Answers(t)
               PROVE  IsFirstAtOrAfter(s, blocks, t)
  BY DEF AnswerIsCanonical
<1>2. blocks \subseteq Nat /\ IsFiniteSet(blocks)
  BY <1>1, BlocksFinite
<1>3. t \in Nat /\ s \in Nat
  BY <1>1, <1>2, SlotHashesAssumption DEF Targets, Answers
<1>4. SlothashAtOrAfter(s, Retained(blocks), t)
  BY <1>1, <1>3, AnswersAreLookups DEF Answers
<1>5. QED
  BY <1>2, <1>3, <1>4, LookupIsCanonical

\* In a well-typed state no timely reveal fails.
LEMMA TypedWindow == ClockTypeOK => AnswerThroughoutWindow
<1>1. SUFFICES ASSUME ClockTypeOK, NEW c \in blocks, NEW b \in blocks,
                      slot > c + Delay, slot <= (c + Delay) + Window, b >= c + Delay
               PROVE  Answers(c + Delay) # {}
  BY DEF AnswerThroughoutWindow
<1>2. c \in Nat /\ c + Delay \in Nat /\ c < c + Delay /\ blocks \subseteq Nat
  BY <1>1, SlotIsNat
<1>3. Window \in Nat /\ Window <= Retention
  BY WindowAssumption
<1>4. PICK s \in blocks : SlothashAtOrAfter(s, Retained(blocks), c + Delay)
  BY <1>1, <1>2, <1>3, TimelyLookup
<1>5. SlothashScan(s, NewestFirst, c + Delay)
  BY <1>1, <1>2, <1>4, AnswersAreLookups
<1>6. QED
  BY <1>5 DEF Answers

\* In every reachable state, and for every target, what the scan of the
\* bounded sysvar answers is the first block at or after the target on the
\* whole chain.
THEOREM AnswersCanonical == Spec => []AnswerIsCanonical
<1>1. IInv => AnswerIsCanonical
  BY TypedAnswers DEF IInv, TypeOK
<1>2. QED
  BY <1>1, Invariance, PTL

\* While the window of a commit is open and a block exists at or after its
\* target, the scan finds the entropy: the bounded sysvar and its fail-closed
\* lookup never cost a timely revealer the commit.
THEOREM WindowAnswered == Spec => []AnswerThroughoutWindow
<1>1. IInv => AnswerThroughoutWindow
  BY TypedWindow DEF IInv, TypeOK
<1>2. QED
  BY <1>1, Invariance, PTL
=============================================================================
