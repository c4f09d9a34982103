------------------------- MODULE MCOfflineMsgCache -------------------------
(* Model-checking instances of OfflineMsgCache.                            *)
EXTENDS OfflineMsgCache, TLC

(* "cache_priority" is any integer of the request's JSON.                  *)
NegativePriority == {-1}
MixedPriorities == {-1, 2}

(* The threads are interchangeable.                                        *)
Symmetry == Permutations(Workers) \cup Permutations(Senders)

=============================================================================
