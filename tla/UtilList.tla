------------------------------- MODULE UtilList -------------------------------
(***************************************************************************)
(* The list of the hub's utilities (list.c, list_node.c and                *)
(* list_iterator.c), which holds the offline messages.  A node popped      *)
(* belongs to the caller, who frees it or pushes it again.                 *)
(***************************************************************************)
EXTENDS ListHeap

CONSTANTS
    Val,        \* the values of nodes
    Address     \* the addresses malloc may return

VARIABLES
    head, tail, len,    \* the list_t
    node,       \* the allocated list_node_ts
    owned,      \* those that are with the caller
    op          \* the last operation on the list, its argument and its result

vars == <<head, tail, len, node, owned, op>>

Chain == Walk(node, head, len, TRUE)
Items == Vals(node, Chain)

Called(name, arg, result) == op' = [name |-> name, arg |-> arg, result |-> result]

list_node_new(v) ==
    /\ \E a \in Address \ DOMAIN node :
          node' = Allocate(node, a, Element(v, NULL, NULL)) /\ owned' = owned \cup {a}
    /\ UNCHANGED <<head, tail, len, op>>

\* The caller frees a node it has popped.
FreeNode(n) ==
    /\ n \in owned
    /\ node' = Freed(node, n) /\ owned' = owned \ {n}
    /\ UNCHANGED <<head, tail, len, op>>

list_rpush(n) ==
    /\ n \in owned
    /\ IF len > 0
       THEN node' = SetNext([node EXCEPT ![n].prev = tail, ![n].next = NULL], tail, n) /\ UNCHANGED head
       ELSE node' = [node EXCEPT ![n].prev = NULL, ![n].next = NULL] /\ head' = n
    /\ tail' = n /\ len' = len + 1 /\ owned' = owned \ {n}
    /\ Called("append", node[n].val, NULL)

list_lpush(n) ==
    /\ n \in owned
    /\ IF len > 0
       THEN node' = SetPrev([node EXCEPT ![n].next = head, ![n].prev = NULL], head, n) /\ UNCHANGED tail
       ELSE node' = [node EXCEPT ![n].prev = NULL, ![n].next = NULL] /\ tail' = n
    /\ head' = n /\ len' = len + 1 /\ owned' = owned \ {n}
    /\ Called("prepend", node[n].val, NULL)

Detached(heap, n) == [heap EXCEPT ![n].next = NULL, ![n].prev = NULL]

list_rpop ==
    /\ len > 0 /\ len' = len - 1
    /\ tail' = IF len > 1 THEN node[tail].prev ELSE NULL
    /\ head' = IF len > 1 THEN head ELSE NULL
    /\ node' = Detached(IF len > 1 THEN SetNext(node, node[tail].prev, NULL) ELSE node, tail)
    /\ owned' = owned \cup {tail}
    /\ Called("tail", NULL, node[tail].val)

list_lpop ==
    /\ len > 0 /\ len' = len - 1
    /\ head' = IF len > 1 THEN node[head].next ELSE NULL
    /\ tail' = IF len > 1 THEN tail ELSE NULL
    /\ node' = Detached(IF len > 1 THEN SetPrev(node, node[head].next, NULL) ELSE node, head)
    /\ owned' = owned \cup {head}
    /\ Called("head", NULL, node[head].val)

\* list_iterator_next, i + 1 times from one of the two ends.
Iterated(i, forward) == Walk(node, IF forward THEN head ELSE tail, i + 1, forward)[i + 1]

\* list_at: a negative index counts from the tail, ~index being -index - 1.
list_at(index) ==
    LET i == IF index < 0 THEN -index - 1 ELSE index
    IN  IF i < len THEN Iterated(i, index >= 0) ELSE NULL

list_find(v) ==
    LET n == FirstWith(node, Chain, v) IN
    /\ Called("find", v, IF n = NULL THEN NULL ELSE node[n].val)
    /\ UNCHANGED <<head, tail, len, node, owned>>

\* Mutant: the node after is not linked back.
list_removeForward(n) ==
    /\ head' = IF node[n].prev = NULL THEN node[n].next ELSE head
    /\ tail' = IF node[n].next = NULL THEN node[n].prev ELSE tail
    /\ node' = Freed(SetNext(node, node[n].prev, node[n].next), n)
    /\ len' = len - 1
    /\ Called("unlink", node[n].val, node[n].val)
    /\ UNCHANGED owned

\* list_remove of a node of the list, which is freed with its value.
list_remove(n) ==
    /\ head' = IF node[n].prev = NULL THEN node[n].next ELSE head
    /\ tail' = IF node[n].next = NULL THEN node[n].prev ELSE tail
    /\ node' = Freed(SetPrev(SetNext(node, node[n].prev, node[n].next), node[n].next, node[n].prev), n)
    /\ len' = len - 1
    /\ Called("unlink", node[n].val, node[n].val)
    /\ UNCHANGED owned

\* list_destroy, which frees len nodes from head on, and a new list.
list_destroy ==
    /\ node' = [n \in DOMAIN node \ {Chain[i] : i \in 1 .. len} |-> node[n]]
    /\ head' = NULL /\ tail' = NULL /\ len' = 0
    /\ Called("empty", NULL, NULL)
    /\ UNCHANGED owned

\* list_new.
Init ==
    /\ head = NULL /\ tail = NULL /\ len = 0
    /\ node = << >> /\ owned = {}
    /\ op = [name |-> "new", arg |-> NULL, result |-> NULL]

Next ==
    \/ \E v \in Val : list_node_new(v) \/ list_find(v)
    \/ \E n \in owned : list_rpush(n) \/ list_lpush(n) \/ FreeNode(n)
    \/ \E n \in DOMAIN node \ owned : list_remove(n)
    \/ list_lpop \/ list_rpop \/ list_destroy

Spec == Init /\ [][Next]_vars

-------------------------------------------------------------------------------

\* The list is linked in both directions, and a node is in it or with the caller,
\* never both and never lost: each is freed exactly once.
WellLinked ==
    /\ Linked(node, head, tail, len)
    /\ DOMAIN node \ owned = {Chain[i] : i \in 1 .. len}

\* list_at, by iterating from the nearer end named by the sign, returns the node with
\* that position in the list, and none outside of it.
AtIsPosition ==
    \A index \in -len - 2 .. len + 1 :
        list_at(index) = CASE index \in 0 .. len - 1 -> Chain[index + 1]
                           [] index \in -len .. -1 -> Chain[len + index + 1]
                           [] OTHER -> NULL

\* Seen through its operations it is the sequence of its values, also when a popped
\* node is pushed again, as the sender of offline messages does.
IsSequence == INSTANCE SequenceList WITH Item <- Val, items <- Items
IsSequenceList == IsSequence!Spec
===============================================================================
