\* Retention equals the reveal window: the least with which the window is safe.
\* Up to two slots in a row are skipped; the key is committed several times.
CONSTANTS
  Retention = 3
  MaxGap = 3
  SlotHorizon = 9
  Keys = {k1}
  Delay = 1
  Window = 3
  CommitHorizon = 6
SPECIFICATION Spec
INVARIANTS AnswerIsCanonical AnswerThroughoutWindow OneOutcomePerCommit CanonicalEntropy
\* The clock stops at SlotHorizon.
CHECK_DEADLOCK FALSE
