------------------------------- MODULE ListHeap -------------------------------
(***************************************************************************)
(* A heap of doubly linked elements with the fields val, next and prev, as *)
(* a function from the allocated addresses.                                *)
(***************************************************************************)
EXTENDS Integers, Sequences, TLC

CONSTANT NULL

Element(val, next, prev) == [val |-> val, next |-> next, prev |-> prev]

Allocate(heap, a, element) == (a :> element) @@ heap
Freed(heap, a) == [b \in DOMAIN heap \ {a} |-> heap[b]]

\* a->next = n and a->prev = p, where a is not NULL.
SetNext(heap, a, n) == IF a = NULL THEN heap ELSE [heap EXCEPT ![a].next = n]
SetPrev(heap, a, p) == IF a = NULL THEN heap ELSE [heap EXCEPT ![a].prev = p]

\* The addresses met in n steps from a on, by next or by prev.
Walk(heap, a, n, forward) ==
    LET at[i \in 1 .. n] ==
            IF i = 1 THEN a
            ELSE IF at[i - 1] \notin DOMAIN heap THEN NULL
            ELSE IF forward THEN heap[at[i - 1]].next ELSE heap[at[i - 1]].prev
    IN  [i \in 1 .. n |-> at[i]]

Vals(heap, chain) == [i \in 1 .. Len(chain) |-> IF chain[i] \in DOMAIN heap THEN heap[chain[i]].val ELSE NULL]

\* The first element of a chain with a value, or NULL.
FirstWith(heap, chain, val) ==
    LET hits == {i \in 1 .. Len(chain) : Vals(heap, chain)[i] = val}
    IN  IF hits = {} THEN NULL ELSE chain[CHOOSE i \in hits : \A j \in hits : i <= j]

\* A chain of n elements from head to tail, linked in both directions.
Linked(heap, head, tail, n) ==
    LET forth == Walk(heap, head, n, TRUE)
        back == Walk(heap, tail, n, FALSE)
    IN  IF n = 0 THEN head = NULL /\ tail = NULL
        ELSE /\ \A i \in 1 .. n : forth[i] \in DOMAIN heap /\ back[i] = forth[n + 1 - i]
             /\ heap[head].prev = NULL /\ heap[tail].next = NULL
===============================================================================
