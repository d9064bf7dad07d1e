--------------------------- MODULE MCCommitReveal ---------------------------
(***************************************************************************)
(* The slot-hash lookup and the promise it carries, on every chain of up   *)
(* to SlotHorizon slots: in every state the lookup is asked for every      *)
(* target, while commits come and go.                                      *)
(***************************************************************************)
EXTENDS CommitReveal

\* The windows of both programs (300 slots) end before SlotHashes (512 entries)
\* can drop a block of the window, or the last one before it.
ASSUME WindowAssumption == Window <= Retention

Targets == 0..SlotHorizon

Descending(list) == \A i, j \in DOMAIN list : i < j => list[i] > list[j]

\* list has the elements of S, each once, in descending order.
ListsDescending(list, S) ==
  /\ list \in [1..Cardinality(S) -> S]
  /\ {list[i] : i \in DOMAIN list} = S
  /\ Descending(list)

\* The sysvar as the raw account data lists it.
NewestFirst ==
  LET entries == Retained(blocks) IN
  CHOOSE list \in [1..Cardinality(entries) -> entries] : ListsDescending(list, entries)

\* What the scan of the account data answers; it is the lookup of SlotHashes,
\* which is proved there for every list.
Answers(t) == {s \in blocks : SlothashScan(s, NewestFirst, t)}

-----------------------------------------------------------------------------
\* An answer is the first block at or after the target on the whole chain,
\* also when SlotHashes has already dropped blocks at or above the target.
AnswerIsCanonical ==
  \A t \in Targets : \A s \in Answers(t) : IsFirstAtOrAfter(s, blocks, t)

\* The reveal window is safe: a commit was made in some bank c, so if its
\* window is still open and a block at or after its target exists, the reveal
\* finds its hash. Failing closed never costs a timely revealer the commit.
AnswerThroughoutWindow ==
  \A c \in blocks :
    LET t == c + Delay IN
      /\ slot > t /\ slot <= t + Window
      /\ \E b \in blocks : b >= t
      => Answers(t) # {}
=============================================================================
