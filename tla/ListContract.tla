---------------------------- MODULE ListContract ----------------------------
(***************************************************************************)
(* What the lists of the library promise to the services that keep their   *)
(* objects in them: a list is a sequence of distinct objects, an object is *)
(* in one list at most, and an operation on one list leaves the others as  *)
(* they are.                                                               *)
(***************************************************************************)
EXTENDS SequencesExt

CONSTANTS Nodes, Lists

VARIABLE content   \* the objects of every list, from front to back

Members(l) == {content[l][i] : i \in DOMAIN content[l]}

Free(v) == \A l \in Lists : v \notin Members(l)

Init == content = [l \in Lists |-> << >>]

Put(l, s) == content' = [content EXCEPT ![l] = s]

Join(l, m, s) == content' = [content EXCEPT ![l] = s, ![m] = << >>]

Push(l, v) ==
  Free(v) /\ (Put(l, Cons(v, content[l])) \/ Put(l, Append(content[l], v)))

\* erase, pop_front and pop_back.
TakeOut(l, v) ==
  \E i \in DOMAIN content[l] :
    content[l][i] = v /\ Put(l, RemoveAt(content[l], i))

Clear(l) == Put(l, << >>)

\* insert_front, insert_back, the move assignment and swap.
Splice(l, m) ==
  /\ l # m
  /\ \/ Join(l, m, content[m] \o content[l])
     \/ Join(l, m, content[l] \o content[m])
     \/ Join(l, m, content[m])
     \/ content' = [content EXCEPT ![l] = content[m], ![m] = content[l]]

Next == \E l \in Lists :
  \/ \E v \in Nodes : Push(l, v) \/ TakeOut(l, v)
  \/ Clear(l)
  \/ \E m \in Lists : Splice(l, m)

Spec == Init /\ [][Next]_content
=============================================================================
