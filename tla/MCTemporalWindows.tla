------------------------- MODULE MCTemporalWindows -------------------------
EXTENDS TemporalWindows

LOCAL INSTANCE Folds
LOCAL INSTANCE SequencesExt

(* Refilled stands for clear() and the loop of push() in restoreCompact.    *)
ASSUME RefilledPushesEach ==
  \A list \in SeqOf({[bucketStart |-> b, runStarts |-> 1] : b \in 0 .. 1}, Capacity) :
    Refilled(list) = FoldLeft(Push, EmptyRing, list)
=============================================================================
