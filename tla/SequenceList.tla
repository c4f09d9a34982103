----------------------------- MODULE SequenceList -----------------------------
(***************************************************************************)
(* What a list promises its callers: a sequence of items, with what each   *)
(* operation does to it and returns.                                       *)
(***************************************************************************)
EXTENDS SequencesExt

CONSTANTS Item, NULL

VARIABLES
    items,
    op          \* the last operation, its argument and its result

vars == <<items, op>>

Called(name, arg, result) == op' = [name |-> name, arg |-> arg, result |-> result]

PutLast(x) == items' = Append(items, x) /\ Called("append", x, NULL)
PutFirst(x) == items' = <<x>> \o items /\ Called("prepend", x, NULL)
PutAt(i, x) == items' = InsertAt(items, i, x) /\ Called("insert", x, NULL)

TakeFirst == items # <<>> /\ items' = Tail(items) /\ Called("head", NULL, Head(items))
TakeLast == items # <<>> /\ items' = Front(items) /\ Called("tail", NULL, Last(items))
TakeAt(i) == items' = RemoveAt(items, i) /\ Called("unlink", items[i], items[i])
Clear == items' = <<>> /\ Called("empty", NULL, NULL)

Look(x) == UNCHANGED items /\ Called("find", x, IF Contains(items, x) THEN x ELSE NULL)

Init == items = <<>> /\ op = [name |-> "new", arg |-> NULL, result |-> NULL]

Next ==
    \/ \E x \in Item : PutLast(x) \/ PutFirst(x) \/ Look(x)
    \/ \E x \in Item, i \in 1 .. Len(items) : PutAt(i, x)
    \/ \E i \in 1 .. Len(items) : TakeAt(i)
    \/ TakeFirst \/ TakeLast \/ Clear

Spec == Init /\ [][Next]_vars
===============================================================================
