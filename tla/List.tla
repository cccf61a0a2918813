-------------------------------- MODULE List --------------------------------
(***************************************************************************)
(* The lists of utility/list.h: a list with keys is the sequence of its    *)
(* elements [key, item] from first to last; of a list without keys, the    *)
(* sequence of its items.                                                  *)
(***************************************************************************)
EXTENDS Integers, Sequences

ListElement(item, sortKey) == [key |-> sortKey, item |-> item]

IsEmpty(list) == list = <<>>

Prepend(list, item) == <<item>> \o list

\* The list after a Remove, which returns its first item.
Remove(list) == Tail(list)

\* The element goes before the first bigger one, so after all its equals.
SortedInsert(list, item, sortKey) ==
  LET bigger == {i \in 1..Len(list) : sortKey < list[i].key}
      place == IF bigger = {} THEN Len(list) + 1
               ELSE CHOOSE i \in bigger : \A j \in bigger : i <= j
  IN  SubSeq(list, 1, place - 1) \o <<ListElement(item, sortKey)>>
        \o SubSeq(list, place, Len(list))

\* The first element of a list that is not empty, and the list without it.
SortedRemove(list) == Head(list)
Left(list) == Tail(list)

=============================================================================
