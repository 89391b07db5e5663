------------------------------ MODULE ListHead ------------------------------
(***************************************************************************)
(* The doubly linked list of linux/include/linux/list.h as its users see   *)
(* it: the sequence of the entries between head->next and head->prev.  The *)
(* next and prev pointers are not modelled; every user holds a spinlock    *)
(* across a list operation.                                                *)
(***************************************************************************)
EXTENDS Integers, Sequences

Entries(l) == {l[i] : i \in 1..Len(l)}

\* No entry is linked twice.
NoDuplicates(l) == \A i, j \in 1..Len(l) : l[i] = l[j] => i = j

Position(l, x) == CHOOSE i \in 1..Len(l) : l[i] = x

-----------------------------------------------------------------------------
ListAddTail(x, l) == Append(l, x)

ListAdd(x, l) == <<x>> \o l

ListEmpty(l) == l = <<>>

\* list_del() of an entry that is not linked writes through poisoned pointers:
\* Position has no value then, and neither has the result.
ListDel(x, l) == LET p == Position(l, x)
                 IN [i \in 1..(Len(l) - 1) |-> IF i < p THEN l[i] ELSE l[i + 1]]
=============================================================================
