------------------------------ MODULE LinkedList ------------------------------
(***************************************************************************)
(* The doubly linked list of the Paho client (LinkedList.c), which holds   *)
(* its commands, responses, messages and sockets: elements in a heap whose *)
(* addresses are reused, and a current element that is remembered from the *)
(* last search, over later changes, as the first place to look at.         *)
(***************************************************************************)
EXTENDS ListHeap

CONSTANTS
    Content,    \* the contents of elements, not necessarily distinct
    Address     \* the addresses malloc may return

VARIABLES
    first, last, current, count,    \* the List
    el,         \* the allocated ListElements, val being the content
    op          \* the last operation, its argument and its result

list == <<first, last, current, count>>
vars == <<list, el, op>>

Allocated == DOMAIN el
Fresh == Address \ Allocated

Chain == Walk(el, first, count, TRUE)
Contents == Vals(el, Chain)

\* Mutant: the current element is taken for a match as it is.
ListFindItemCached(c) == IF current # NULL THEN current ELSE FirstWith(el, Chain, c)

\* ListFindItem: the current element, if it matches, or else the first that does.
ListFindItem(c) ==
    IF current # NULL /\ el[current].val = c THEN current ELSE FirstWith(el, Chain, c)

(***************************************************************************)
(* The operations.                                                         *)
(***************************************************************************)

ListAppend(c) ==
    \E a \in Fresh :
        /\ el' = SetNext(Allocate(el, a, Element(c, NULL, last)), last, a)
        /\ first' = IF first = NULL THEN a ELSE first
        /\ last' = a /\ count' = count + 1
        /\ op' = [name |-> "append", arg |-> c, result |-> NULL]
        /\ UNCHANGED current

\* ListInsert before an element of the list.
ListInsert(c, index) ==
    \E a \in Fresh :
        /\ el' = SetNext(SetPrev(Allocate(el, a, Element(c, index, el[index].prev)), index, a), el[index].prev, a)
        /\ first' = IF el[index].prev = NULL THEN a ELSE first
        /\ count' = count + 1
        /\ op' = [name |-> "insert", arg |-> c, result |-> NULL]
        /\ UNCHANGED <<last, current>>

Find(c) ==
    LET a == ListFindItem(c) IN
    /\ current' = IF a = NULL THEN current ELSE a
    /\ op' = [name |-> "find", arg |-> c, result |-> IF a = NULL THEN NULL ELSE el[a].val]
    /\ UNCHANGED <<first, last, count, el>>

\* ListUnlink (ListDetach, ListRemove and the two with a comparison): the search makes the
\* element current; afterwards its successor is, if it was current before.
ListUnlink(c) ==
    LET a == ListFindItem(c) IN
    /\ a # NULL
    /\ first' = IF el[a].prev = NULL THEN el[a].next ELSE first
    /\ last' = IF el[a].next = NULL THEN el[a].prev ELSE last
    /\ el' = Freed(SetPrev(SetNext(el, el[a].prev, el[a].next), el[a].next, el[a].prev), a)
    /\ current' = IF current = a THEN el[a].next ELSE current
    /\ count' = count - 1
    /\ op' = [name |-> "unlink", arg |-> c, result |-> el[a].val]

ListDetachHead ==
    /\ count > 0
    /\ current' = IF current = first THEN el[first].next ELSE current
    /\ last' = IF last = first THEN NULL ELSE last
    /\ first' = el[first].next
    /\ el' = SetPrev(Freed(el, first), el[first].next, NULL)
    /\ count' = count - 1
    /\ op' = [name |-> "head", arg |-> NULL, result |-> el[first].val]

ListPopTail ==
    /\ count > 0
    /\ current' = IF current = last THEN el[last].prev ELSE current
    /\ first' = IF first = last THEN NULL ELSE first
    /\ last' = el[last].prev
    /\ el' = SetNext(Freed(el, last), el[last].prev, NULL)
    /\ count' = count - 1
    /\ op' = [name |-> "tail", arg |-> NULL, result |-> el[last].val]

ListEmpty ==
    /\ first' = NULL /\ last' = NULL /\ current' = NULL /\ count' = 0
    /\ el' = << >>
    /\ op' = [name |-> "empty", arg |-> NULL, result |-> NULL]

Init ==
    /\ first = NULL /\ last = NULL /\ current = NULL /\ count = 0
    /\ el = << >>
    /\ op = [name |-> "new", arg |-> NULL, result |-> NULL]

Next ==
    \/ \E c \in Content : ListAppend(c) \/ Find(c) \/ ListUnlink(c)
    \/ \E c \in Content, index \in Allocated : ListInsert(c, index)
    \/ ListDetachHead \/ ListPopTail \/ ListEmpty

Spec == Init /\ [][Next]_vars

-------------------------------------------------------------------------------

\* The current element, kept from a search over any later operations, is never an
\* element that was freed: a search reads it before anything else.
CurrentInList == current = NULL \/ current \in Allocated

\* count elements lead from first to last and, by prev, back again, and none is left
\* outside: backward and forward iteration see the same list and nothing leaks.
WellLinked == Linked(el, first, last, count) /\ Allocated = {Chain[i] : i \in 1 .. count}

\* Seen through its operations, with whatever is current and whatever address malloc
\* hands out again, it is the sequence of the contents.
IsSequence == INSTANCE SequenceList WITH Item <- Content, items <- Contents
IsSequenceList == IsSequence!Spec
===============================================================================
