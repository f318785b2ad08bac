---------------------------- MODULE IntrusiveList ----------------------------
(***************************************************************************)
(* The intrusive containers: the doubly linked intrusive_list and the      *)
(* singly linked intrusive_forward_list of ma/detail/intrusive_list.hpp,   *)
(* which link plain pointers, and ma/sp_intrusive_list.hpp, which links    *)
(* shared pointers.  The hooks live in the objects: a mistake in one list  *)
(* shows up in the links of another.                                       *)
(*                                                                         *)
(* kind tells which of the containers the behaviour is about.  A list that *)
(* a container lacks a field for keeps that field at its first value.      *)
(***************************************************************************)
EXTENDS Naturals, Sequences, FiniteSets

CONSTANTS Nodes, Lists, Nil

ASSUME ListAssumption == Nil \notin Nodes /\ IsFiniteSet(Nodes)

(***************************************************************************)
(* prev and next are the hooks of the objects; front, back and size are    *)
(* the fields of the lists.  held is the set of objects that the program   *)
(* keeps a shared pointer to.                                              *)
(***************************************************************************)
VARIABLES kind, prev, next, front, back, size, held

listVars == <<kind, prev, next, front, back, size, held>>

Kinds == {"double", "forward", "shared"}

Pointer == Nodes \cup {Nil}

\* base_hook: both pointers of an object that is in no list are null.
UnlinkedHook == [v \in Nodes |-> Nil]

EmptyList == [l \in Lists |-> Nil]

-----------------------------------------------------------------------------
(* The list as next walks it. *)

Content(l) ==
  LET at[k \in 1..Cardinality(Nodes)] ==
        IF k = 1 THEN front[l]
        ELSE IF at[k - 1] = Nil THEN Nil ELSE next[at[k - 1]]
  IN  [k \in {i \in 1..Cardinality(Nodes) : \A j \in 1..i : at[j] # Nil}
         |-> at[k]]

Members(l) == {Content(l)[k] : k \in DOMAIN Content(l)}

Linked(v) == \E l \in Lists : v \in Members(l)

Empty(l) == front[l] = Nil

Unlinked(v) == prev[v] = Nil /\ next[v] = Nil

\* A field of an object that may be absent.
SetHook(hooks, v, w) == IF v = Nil THEN hooks ELSE [hooks EXCEPT ![v] = w]

-----------------------------------------------------------------------------
(***************************************************************************)
(* The two lists of plain pointers.  The assertion that a pushed object is *)
(* unlinked also holds for the only object of a list; that it is in no     *)
(* list is up to the caller.                                               *)
(***************************************************************************)
PushFront(l, v) ==
  /\ kind \in {"double", "forward"}
  /\ Unlinked(v) /\ ~Linked(v)
  /\ next' = [next EXCEPT ![v] = front[l]]
  /\ prev' = IF kind = "double" THEN SetHook(prev, front[l], v) ELSE prev
  /\ front' = [front EXCEPT ![l] = v]
  /\ back' = IF back[l] = Nil THEN [back EXCEPT ![l] = v] ELSE back
  /\ UNCHANGED <<kind, size, held>>

\* Mutant: push_back without the link back to the old last object.
PushBackOneWay(l, v) ==
  /\ kind = "double"
  /\ Unlinked(v) /\ ~Linked(v)
  /\ next' = SetHook(next, back[l], v)
  /\ back' = [back EXCEPT ![l] = v]
  /\ front' = IF front[l] = Nil THEN [front EXCEPT ![l] = v] ELSE front
  /\ UNCHANGED <<kind, prev, size, held>>

PushBack(l, v) ==
  /\ kind = "double"
  /\ Unlinked(v) /\ ~Linked(v)
  /\ prev' = [prev EXCEPT ![v] = back[l]]
  /\ next' = SetHook(next, back[l], v)
  /\ back' = [back EXCEPT ![l] = v]
  /\ front' = IF front[l] = Nil THEN [front EXCEPT ![l] = v] ELSE front
  /\ UNCHANGED <<kind, size, held>>

ForwardPushBack(l, v) ==
  /\ kind = "forward"
  /\ Unlinked(v) /\ ~Linked(v)
  /\ next' = SetHook(next, back[l], v)
  /\ back' = [back EXCEPT ![l] = v]
  /\ front' = IF front[l] = Nil THEN [front EXCEPT ![l] = v] ELSE front
  /\ UNCHANGED <<kind, prev, size, held>>

Erase(l, v) ==
  /\ kind = "double"
  /\ v \in Members(l)
  /\ front' = IF v = front[l] THEN [front EXCEPT ![l] = next[v]] ELSE front
  /\ back' = IF v = back[l] THEN [back EXCEPT ![l] = prev[v]] ELSE back
  /\ next' = [SetHook(next, prev[v], next[v]) EXCEPT ![v] = Nil]
  /\ prev' = [SetHook(prev, next[v], prev[v]) EXCEPT ![v] = Nil]
  /\ UNCHANGED <<kind, size, held>>

PopFront(l) ==
  LET v == front[l] IN
  /\ kind = "double"
  /\ ~Empty(l)
  /\ front' = [front EXCEPT ![l] = next[v]]
  /\ back' = IF next[v] = Nil THEN [back EXCEPT ![l] = Nil] ELSE back
  /\ prev' = [SetHook(prev, next[v], Nil) EXCEPT ![v] = Nil]
  /\ next' = [next EXCEPT ![v] = Nil]
  /\ UNCHANGED <<kind, size, held>>

ForwardPopFront(l) ==
  LET v == front[l] IN
  /\ kind = "forward"
  /\ ~Empty(l)
  /\ front' = [front EXCEPT ![l] = next[v]]
  /\ back' = IF next[v] = Nil THEN [back EXCEPT ![l] = Nil] ELSE back
  /\ next' = [next EXCEPT ![v] = Nil]
  /\ UNCHANGED <<kind, prev, size, held>>

PopBack(l) ==
  LET v == back[l] IN
  /\ kind = "double"
  /\ v # Nil
  /\ back' = [back EXCEPT ![l] = prev[v]]
  /\ front' = IF prev[v] = Nil THEN [front EXCEPT ![l] = Nil] ELSE front
  /\ next' = [SetHook(next, prev[v], Nil) EXCEPT ![v] = Nil]
  /\ prev' = [prev EXCEPT ![v] = Nil]
  /\ UNCHANGED <<kind, size, held>>

\* clear forgets the objects and leaves their hooks as they are.
ClearRaw(l) ==
  /\ kind \in {"double", "forward"}
  /\ front' = [front EXCEPT ![l] = Nil]
  /\ back' = [back EXCEPT ![l] = Nil]
  /\ UNCHANGED <<kind, prev, next, size, held>>

Swap(l, m) ==
  /\ kind \in {"double", "forward"}
  /\ l # m
  /\ front' = [front EXCEPT ![l] = front[m], ![m] = front[l]]
  /\ back' = [back EXCEPT ![l] = back[m], ![m] = back[l]]
  /\ UNCHANGED <<kind, prev, next, size, held>>

\* The move assignment: the objects of l are forgotten as by clear.
MoveAssign(l, m) ==
  /\ kind \in {"double", "forward"}
  /\ l # m
  /\ front' = [front EXCEPT ![l] = front[m], ![m] = Nil]
  /\ back' = [back EXCEPT ![l] = back[m], ![m] = Nil]
  /\ UNCHANGED <<kind, prev, next, size, held>>

\* The whole of list m goes before the front of list l.
InsertFront(l, m) ==
  /\ kind \in {"double", "forward"}
  /\ l # m /\ ~Empty(m)
  /\ front' = [front EXCEPT ![l] = front[m], ![m] = Nil]
  /\ IF Empty(l)
     THEN /\ back' = [back EXCEPT ![l] = back[m], ![m] = Nil]
          /\ UNCHANGED <<prev, next>>
     ELSE /\ back' = [back EXCEPT ![m] = Nil]
          /\ next' = [next EXCEPT ![back[m]] = front[l]]
          /\ prev' = IF kind = "double"
                     THEN [prev EXCEPT ![front[l]] = back[m]] ELSE prev
  /\ UNCHANGED <<kind, size, held>>

\* Mutant: insert_back links from the front it has, not from the back.
InsertBehindFront(l, m) ==
  /\ kind \in {"double", "forward"}
  /\ l # m /\ ~Empty(m)
  /\ back' = [back EXCEPT ![l] = back[m], ![m] = Nil]
  /\ IF Empty(l)
     THEN /\ front' = [front EXCEPT ![l] = front[m], ![m] = Nil]
          /\ UNCHANGED <<prev, next>>
     ELSE /\ front' = [front EXCEPT ![m] = Nil]
          /\ next' = [next EXCEPT ![front[l]] = front[m]]
          /\ prev' = IF kind = "double"
                     THEN [prev EXCEPT ![front[m]] = front[l]] ELSE prev
  /\ UNCHANGED <<kind, size, held>>

\* The whole of list m goes behind the back of list l.
InsertBack(l, m) ==
  /\ kind \in {"double", "forward"}
  /\ l # m /\ ~Empty(m)
  /\ back' = [back EXCEPT ![l] = back[m], ![m] = Nil]
  /\ IF Empty(l)
     THEN /\ front' = [front EXCEPT ![l] = front[m], ![m] = Nil]
          /\ UNCHANGED <<prev, next>>
     ELSE /\ front' = [front EXCEPT ![m] = Nil]
          /\ next' = [next EXCEPT ![back[l]] = front[m]]
          /\ prev' = IF kind = "double"
                     THEN [prev EXCEPT ![front[m]] = back[l]] ELSE prev
  /\ UNCHANGED <<kind, size, held>>

-----------------------------------------------------------------------------
(***************************************************************************)
(* The list of shared pointers.  front and next own the object they point  *)
(* to, prev does not.  The caller of push_front and of erase owns the      *)
(* object too, and may drop it later.                                      *)
(***************************************************************************)
SharedPushFront(l, v) ==
  /\ kind = "shared"
  /\ v \in held /\ Unlinked(v) /\ ~Linked(v)
  /\ next' = [next EXCEPT ![v] = front[l]]
  /\ prev' = SetHook(prev, front[l], v)
  /\ front' = [front EXCEPT ![l] = v]
  /\ size' = [size EXCEPT ![l] = @ + 1]
  /\ UNCHANGED <<kind, back, held>>

\* Mutant: erase without next_.reset() on the erased object.
SharedEraseKeepsNext(l, v) ==
  /\ kind = "shared"
  /\ v \in Members(l)
  /\ front' = IF v = front[l] THEN [front EXCEPT ![l] = next[v]] ELSE front
  /\ next' = SetHook(next, prev[v], next[v])
  /\ prev' = [SetHook(prev, next[v], prev[v]) EXCEPT ![v] = Nil]
  /\ size' = [size EXCEPT ![l] = @ - 1]
  /\ held' = held \cup {v}
  /\ UNCHANGED <<kind, back>>

SharedErase(l, v) ==
  /\ kind = "shared"
  /\ v \in Members(l)
  /\ front' = IF v = front[l] THEN [front EXCEPT ![l] = next[v]] ELSE front
  /\ next' = [SetHook(next, prev[v], next[v]) EXCEPT ![v] = Nil]
  /\ prev' = [SetHook(prev, next[v], prev[v]) EXCEPT ![v] = Nil]
  /\ size' = [size EXCEPT ![l] = @ - 1]
  /\ held' = held \cup {v}
  /\ UNCHANGED <<kind, back>>

\* clear takes the objects out one by one, so that no destructor recurses.
SharedClear(l) ==
  /\ kind = "shared"
  /\ front' = [front EXCEPT ![l] = Nil]
  /\ next' = [v \in Nodes |-> IF v \in Members(l) THEN Nil ELSE next[v]]
  /\ prev' = [v \in Nodes |-> IF v \in Members(l) THEN Nil ELSE prev[v]]
  /\ size' = [size EXCEPT ![l] = 0]
  /\ UNCHANGED <<kind, back, held>>

\* The program creates an object, or takes a pointer to it from the list.
Hold(v) ==
  /\ kind = "shared" /\ v \notin held
  /\ held' = held \cup {v}
  /\ UNCHANGED <<kind, prev, next, front, back, size>>

\* The program drops its pointer; an object that nothing else owns is
\* destroyed, and its hook with it.
Drop(v) ==
  /\ kind = "shared" /\ v \in held
  /\ held' = held \ {v}
  /\ UNCHANGED <<kind, prev, next, front, back, size>>

-----------------------------------------------------------------------------
ListInit ==
  /\ kind \in Kinds
  /\ prev = UnlinkedHook /\ next = UnlinkedHook
  /\ front = EmptyList /\ back = EmptyList
  /\ size = [l \in Lists |-> 0]
  /\ held = {}

ListStep(l) ==
  \/ \E v \in Nodes : \/ PushFront(l, v) \/ PushBack(l, v) \/ Erase(l, v)
                      \/ ForwardPushBack(l, v)
                      \/ SharedPushFront(l, v) \/ SharedErase(l, v)
  \/ PopFront(l) \/ ForwardPopFront(l) \/ PopBack(l)
  \/ ClearRaw(l) \/ SharedClear(l)
  \/ \E m \in Lists : \/ Swap(l, m) \/ MoveAssign(l, m)
                      \/ InsertFront(l, m) \/ InsertBack(l, m)

ListNext == (\E l \in Lists : ListStep(l)) \/ \E v \in Nodes : Hold(v) \/ Drop(v)

ListSpec == ListInit /\ [][ListNext]_listVars

-----------------------------------------------------------------------------
(* Properties. *)

\* The types of the state.
ListTypeOK ==
  /\ kind \in Kinds
  /\ prev \in [Nodes -> Pointer] /\ next \in [Nodes -> Pointer]
  /\ front \in [Lists -> Pointer] /\ back \in [Lists -> Pointer]
  /\ size \in [Lists -> 0..Cardinality(Nodes)]
  /\ held \subseteq Nodes

(***************************************************************************)
(* Both ends and both directions agree: back is the last object that next  *)
(* reaches, prev is the inverse of next along a list, and the size that    *)
(* sp_intrusive_list counts (its empty() asks only the size) is the number *)
(* of its objects.  No single operation shows a wrong back or prev; the    *)
(* next pop_back, erase or insert of another object does.  And an object   *)
(* that is in no list of shared pointers is owned by no other object and   *)
(* owns none: it is destroyed when the program drops it, and does not keep *)
(* a list that it once was in alive.                                       *)
(***************************************************************************)
LinkedBothWays ==
  /\ ListTypeOK
  /\ \A l \in Lists :
       LET c == Content(l) IN
       /\ Empty(l) <=> c = << >>
       /\ c # << >> => next[c[Len(c)]] = Nil
       /\ kind # "shared" => back[l] = IF c = << >> THEN Nil ELSE c[Len(c)]
       /\ kind # "forward" => \A k \in 1..Len(c) :
                                prev[c[k]] = IF k = 1 THEN Nil ELSE c[k - 1]
       /\ kind = "shared" => size[l] = Len(c)
  /\ kind = "shared" => \A v \in Nodes :
       ~Linked(v) => Unlinked(v) /\ \A w \in Nodes : next[w] # v

Contract == INSTANCE ListContract WITH content <- [l \in Lists |-> Content(l)]

\* Every container behaves as sequences of distinct objects do: an operation
\* changes the lists it is about as its name says, and no other list.
ImplementsLists == Contract!Spec
=============================================================================
