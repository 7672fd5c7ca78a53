------------------------------ MODULE LinkList ------------------------------
(***************************************************************************)
(* libarea/LinkList.c: a singly linked list whose nodes are members of the *)
(* structures they link.                                                   *)
(*                                                                         *)
(* A heap h maps a block to its record.  The block of a list has a next    *)
(* (its header) and a length, that of a node has a next.  container_of is  *)
(* the identity: a block's node stands for the block.                      *)
(***************************************************************************)
EXTENDS Naturals

NULL == 0                        \* Block is a subset of 1, 2, ...

linklist_create == [kind |-> "list", next |-> NULL, length |-> 0]

linklist_length(h, list) == h[list].length

\* The loop all operations share: pos steps from the header, or fewer if the
\* chain ends before.
Current(h, list, pos) ==
  LET at[i \in 0 .. pos] ==
        IF i = 0 THEN list
        ELSE IF h[at[i - 1]].next = NULL THEN at[i - 1] ELSE h[at[i - 1]].next
  IN  at[pos]

\* Mutant: the list does not get longer when it had a node.
MutInsert(h, list, pos, node) ==
  LET at == Current(h, list, IF pos >= h[list].length THEN h[list].length ELSE pos)
  IN  IF h[list].length > 0
      THEN [h EXCEPT ![node].next = h[at].next, ![at].next = node]
      ELSE [h EXCEPT ![node].next = h[at].next, ![at].next = node, ![list].length = @ + 1]

\* A position behind the end is the end.
linklist_insert(h, list, pos, node) ==
  LET at == Current(h, list, IF pos >= h[list].length THEN h[list].length ELSE pos)
  IN  [h EXCEPT ![node].next = h[at].next, ![at].next = node, ![list].length = @ + 1]

\* The bound is the length, one more than the last position: NULL is what
\* follows the last node.
linklist_get(h, list, pos) ==
  IF pos <= h[list].length THEN h[Current(h, list, pos)].next ELSE NULL

\* The heap after linklist_deleate(), which returns linklist_get().  At the length
\* it would follow NULL; no caller asks for it.
linklist_deleate(h, list, pos) ==
  LET at == Current(h, list, pos)
  IN  [h EXCEPT ![at].next = h[h[at].next].next, ![list].length = @ - 1]
-----------------------------------------------------------------------------
\* What linklist_get() returns at positions 0, 1, ...
Nodes(h, list) ==
  [i \in 1 .. h[list].length |-> linklist_get(h, list, i - 1)]

InsertLast(h, list, node) == linklist_insert(h, list, linklist_length(h, list), node)
=============================================================================
