------------------------ MODULE HandlerStorageProofs ------------------------
(***************************************************************************)
(* HandlerStorage for every number of storages and handlers: each handler  *)
(* is destroyed once, storages hold what is stored in them and nobody      *)
(* calls a dead one, and the threads do not leave before a stored handler  *)
(* has been called or destroyed.  The service keeps its storages in an     *)
(* intrusive list, and the second part proves IntrusiveList for every      *)
(* number of lists and objects: hooks, ends and sizes are those of         *)
(* disjoint sequences, and every operation does to them what it promises.  *)
(***************************************************************************)
EXTENDS HandlerStorage, IntrusiveList, Integers, NaturalsInduction, FiniteSetTheorems,
        SequenceTheorems, TLAPS

(***************************************************************************)
(* The stack.  A destruction calls the continuation and then releases, so  *)
(* that the two frames are neighbours; no call is on the stack twice; and  *)
(* the destructor of the io_service is at the bottom.                      *)
(***************************************************************************)
On(stk, do) == {stk[i].on : i \in {j \in DOMAIN stk : stk[j].do = do}}

Distinct(q) == \A i, j \in DOMAIN q : q[i] = q[j] => i = j

Elements(q) == {q[i] : i \in DOMAIN q}

Placed(stk, i) ==
  /\ stk[i].do \in {"continue", "release", "enqueue"} => stk[i].on \in Handlers
  /\ stk[i].do = "close" => stk[i].on \in Storages
  /\ stk[i].do \in {"chain", "queue"} => stk[i].on = Null
  /\ stk[i].do = "continue" =>
       i + 1 \in DOMAIN stk /\ stk[i + 1] = Frame("release", stk[i].on)
  /\ stk[i].do = "chain" => i + 1 = Len(stk) /\ stk[i + 1].do = "queue"
  /\ stk[i].do = "queue" => i = Len(stk)

Orderly(stk) ==
  /\ stk \in Seq(Call) /\ Distinct(stk)
  /\ \A i \in DOMAIN stk : Placed(stk, i)

(***************************************************************************)
(* The heart of the invariant, on the storages st and the handlers hs.     *)
(* K, D, E and X are what the calls continue, release, enqueue and close   *)
(* on the stack are about; C and Q are the handlers in the chain and in    *)
(* the queue, and rt the roots.  In the middle of a handler w is bound to  *)
(* be stored, and z is being closed, without a frame that says so.         *)
(***************************************************************************)

\* Where a handler is, and who knows it.
Places(st, hs, K, D, E, C, Q) ==
  \A h \in Handlers :
    /\ hs[h].at = "dying" <=> h \in D
    /\ hs[h].at = "taken" <=> h \in E
    /\ hs[h].at = "chained" <=> h \in C
    /\ hs[h].at = "queued" <=> h \in Q
    /\ hs[h].at = "stored" <=> \E s \in Storages : st[s].handler = h
    /\ h \in K => h \in D
    /\ hs[h].at \in {"unborn", "ended"} => hs[h].owns = {}
    /\ hs[h].at = "unborn" => hs[h].then = NoContinuation

\* A storage holds something only as long as it lives, and nothing that
\* another one holds.
Slots(st) ==
  \A s \in Storages :
    /\ st[s].handler # Null => st[s].life = "alive"
    /\ \A t \in Storages :
         st[s].handler = st[t].handler => s = t \/ st[s].handler = Null

\* A storage lives as long as somebody points to it, and is closed then.
Closing(st, hs, X, rt, z) ==
  /\ \A s \in Storages :
       s \in X \/ s = z <=> /\ st[s].life = "alive"
                            /\ s \notin rt /\ s \notin OwnedBy(hs)
  /\ \A s \in rt \cup OwnedBy(hs) : st[s].life = "alive"
  /\ z \notin X

\* The continuation of g is still to be called.
Will(hs, K, w, g) ==
  hs[g].at \in {"stored", "chained", "taken", "queued"} \/ g \in K \/ g = w

WillStore(hs, K, w, g) == Will(hs, K, w, g) /\ hs[g].then.op = "store"

\* A continuation owns the storage that it uses, and the handler that it
\* will store is stored by no other.
Continuing(hs, K, w) ==
  /\ \A g \in Handlers :
       /\ Will(hs, K, w, g) /\ hs[g].then.op # "none" =>
            hs[g].then.on \in hs[g].owns
       /\ WillStore(hs, K, w, g) =>
            /\ hs[g].then.next \in Handlers \ {w}
            /\ hs[hs[g].then.next].at = "bound"
            /\ \A f \in Handlers :
                 WillStore(hs, K, w, f) /\ hs[f].then.next = hs[g].then.next => f = g
       /\ hs[g].at = "bound" /\ g # w =>
            /\ hs[g].then = NoContinuation
            /\ \E f \in Handlers : WillStore(hs, K, w, f) /\ hs[f].then.next = g
  /\ w # Null => w \in Handlers /\ hs[w].at = "bound"

Typed(st, hs, rt) ==
  /\ st \in [Storages -> StorageState] /\ hs \in [Handlers -> HandlerState]
  /\ rt \subseteq Storages

Core(st, hs, K, D, E, X, C, Q, rt, w, z) ==
  /\ Typed(st, hs, rt) /\ Places(st, hs, K, D, E, C, Q) /\ Slots(st)
  /\ Closing(st, hs, X, rt, z) /\ Continuing(hs, K, w)

CoreInv ==
  /\ Orderly(stack) /\ Distinct(chain) /\ Distinct(queue)
  /\ Core(storage, handler, On(stack, "continue"), On(stack, "release"),
          On(stack, "enqueue"), On(stack, "close"), Elements(chain),
          Elements(queue), roots, Null, Null)

\* The storages that live are in impl_list_, once.
ListInv ==
  ~shutdown => /\ Distinct(listed)
               /\ Elements(listed) = {s \in Storages : Alive(s)}

\* The destructor of the io_service, on top of which nothing is stored.
ShutdownInv ==
  /\ shutdown => /\ roots = {} /\ run # "running" /\ On(stack, "enqueue") = {}
                 /\ \A s \in Storages : Slot(s) = Null
  /\ Null \in On(stack, "queue") <=> shutdown /\ run # "gone"
  /\ chain # << >> => Null \in On(stack, "chain")
  /\ run = "gone" => shutdown /\ stack = << >> /\ queue = << >>

\* A handler that was destroyed has ended.
EndsInv ==
  \A h \in Handlers : ends[h] = IF handler[h].at = "ended" THEN 1 ELSE 0

\* A promised handler was stored, and the threads did not leave before it
\* was called or destroyed.
PromiseInv ==
  \A h \in promised :
    /\ handler[h].at \notin {"unborn", "bound"}
    /\ run = "returned" => handler[h].at \in {"dying", "ended"}

IInv ==
  /\ TypeOK /\ CoreInv /\ ListInv /\ ShutdownInv /\ EndsInv /\ PromiseInv

-----------------------------------------------------------------------------
(* The stack. *)

LEMMA Frames ==
  /\ \A do \in {"continue", "release", "enqueue"}, h \in Handlers : Frame(do, h) \in Call
  /\ \A s \in Storages : Frame("close", s) \in Call
  /\ \A do \in {"chain", "queue"} : Frame(do, Null) \in Call
  /\ \A do, on : Frame(do, on).do = do /\ Frame(do, on).on = on
BY DEF Frame, Call

LEMMA OnStack ==
  ASSUME NEW stk \in Seq(Call)
  PROVE  \A do, x : x \in On(stk, do) <=> \E i \in DOMAIN stk : stk[i] = Frame(do, x)
<1>1. \A i \in DOMAIN stk : stk[i] = Frame(stk[i].do, stk[i].on)
  <2> SUFFICES ASSUME NEW i \in DOMAIN stk PROVE stk[i] = Frame(stk[i].do, stk[i].on)
    OBVIOUS
  <2>1. stk[i] \in Call
    BY ElementOfSeq
  <2> QED BY <2>1 DEF Call, Frame
<1> QED BY <1>1, Frames DEF On

\* The innermost call returns.
LEMMA Pop ==
  ASSUME NEW stk, Orderly(stk), stk # << >>
  PROVE  LET f == Head(stk)
             rest == Tail(stk)
         IN  /\ Orderly(rest) /\ f \in Call
             /\ f.on \in On(stk, f.do)
             /\ On(rest, f.do) = On(stk, f.do) \ {f.on}
             /\ \A do : do # f.do => On(rest, do) = On(stk, do)
<1> DEFINE f == Head(stk)
           rest == Tail(stk)
           n == Len(stk)
<1>1. /\ stk \in Seq(Call) /\ rest \in Seq(Call) /\ f = stk[1] /\ n \in Nat \ {0}
      /\ Len(rest) = n - 1 /\ DOMAIN stk = 1..n /\ DOMAIN rest = 1..n - 1
      /\ \A i \in 1..n - 1 : rest[i] = stk[i + 1]
  BY HeadTailProperties DEF Orderly
<1> HIDE DEF f, rest, n
<1>2. Distinct(rest)
  <2> SUFFICES ASSUME NEW i \in 1..n - 1, NEW j \in 1..n - 1, rest[i] = rest[j]
               PROVE  i = j
    BY <1>1 DEF Distinct
  <2>1. i + 1 \in DOMAIN stk /\ j + 1 \in DOMAIN stk /\ stk[i + 1] = stk[j + 1]
    BY <1>1
  <2>2. i + 1 = j + 1
    BY <2>1 DEF Orderly, Distinct
  <2> QED BY <1>1, <2>2
<1>3. \A i \in DOMAIN rest : Placed(rest, i)
  <2> SUFFICES ASSUME NEW i \in DOMAIN rest PROVE Placed(rest, i)
    OBVIOUS
  <2>1. /\ i + 1 \in DOMAIN stk /\ rest[i] = stk[i + 1] /\ i \in Nat
    BY <1>1
  <2>2. Placed(stk, i + 1)
    BY <2>1 DEF Orderly
  <2>3. i + 2 \in DOMAIN stk => i + 1 \in DOMAIN rest /\ rest[i + 1] = stk[i + 2]
    <3>1. i + 2 \in DOMAIN stk => i + 1 \in 1..n - 1
      BY <1>1
    <3>2. (i + 1) + 1 = i + 2
      BY <2>1
    <3> QED BY <1>1, <3>1, <3>2
  <2>4. (i + 1) + 1 = i + 2 /\ (i + 2 = Len(stk) <=> i + 1 = Len(rest))
        /\ (i + 1 = Len(stk) <=> i = Len(rest))
        /\ (i + 2 = Len(stk) => i + 2 \in DOMAIN stk)
    BY <1>1, <2>1 DEF n
  <2> QED BY <2>1, <2>2, <2>3, <2>4 DEF Placed
<1>4. \A do, x : x \in On(rest, do) <=> x \in On(stk, do) /\ Frame(do, x) # f
  <2> SUFFICES ASSUME NEW do, NEW x
               PROVE  x \in On(rest, do) <=> x \in On(stk, do) /\ Frame(do, x) # f
    OBVIOUS
  <2>1. x \in On(rest, do) => x \in On(stk, do) /\ Frame(do, x) # f
    <3> SUFFICES ASSUME x \in On(rest, do) PROVE x \in On(stk, do) /\ Frame(do, x) # f
      OBVIOUS
    <3>1. PICK i \in DOMAIN rest : rest[i] = Frame(do, x)
      BY <1>1, OnStack
    <3>2. i + 1 \in DOMAIN stk /\ stk[i + 1] = Frame(do, x) /\ i + 1 # 1 /\ 1 \in DOMAIN stk
      BY <1>1, <3>1
    <3>3. stk[i + 1] # stk[1]
      BY <3>2 DEF Orderly, Distinct
    <3> QED BY <1>1, <3>2, <3>3, OnStack
  <2>2. x \in On(stk, do) /\ Frame(do, x) # f => x \in On(rest, do)
    <3> SUFFICES ASSUME x \in On(stk, do), Frame(do, x) # f PROVE x \in On(rest, do)
      OBVIOUS
    <3>1. PICK i \in DOMAIN stk : stk[i] = Frame(do, x)
      BY <1>1, OnStack
    <3>2. i # 1
      BY <1>1, <3>1
    <3>3. i - 1 \in DOMAIN rest /\ rest[i - 1] = Frame(do, x)
      <4>1. i - 1 \in 1..n - 1 /\ (i - 1) + 1 = i
        BY <1>1, <3>2
      <4> QED BY <1>1, <3>1, <4>1
    <3> QED BY <1>1, <3>3, OnStack
  <2> QED BY <2>1, <2>2
<1>5. f \in Call /\ f = Frame(f.do, f.on)
  <2>1. f \in Call
    BY <1>1, ElementOfSeq
  <2> QED BY <2>1 DEF Call, Frame
<1>6. f.on \in On(stk, f.do)
  <2>1. 1 \in DOMAIN stk /\ stk[1] = Frame(f.do, f.on)
    BY <1>1, <1>5
  <2> QED BY <1>1, <2>1, OnStack
<1>7. \A do, x : Frame(do, x) = f <=> do = f.do /\ x = f.on
  BY <1>5, Frames
<1>8. On(rest, f.do) = On(stk, f.do) \ {f.on}
  BY <1>4, <1>7
<1>9. \A do : do # f.do => On(rest, do) = On(stk, do)
  <2> SUFFICES ASSUME NEW do, do # f.do PROVE On(rest, do) = On(stk, do)
    OBVIOUS
  <2>1. \A x : x \in On(rest, do) <=> x \in On(stk, do)
    BY <1>4, <1>7
  <2> QED BY <2>1
<1> QED BY <1>1, <1>2, <1>3, <1>5, <1>6, <1>8, <1>9 DEF Orderly, f, rest

\* A call that is not on the stack yet.
LEMMA Push ==
  ASSUME NEW stk, Orderly(stk), NEW f \in Call, f.on \notin On(stk, f.do),
         \/ f.do \in {"release", "enqueue"} /\ f.on \in Handlers
         \/ f.do = "close" /\ f.on \in Storages
         \/ /\ f.do = "continue" /\ f.on \in Handlers
            /\ stk # << >> /\ stk[1] = Frame("release", f.on)
  PROVE  LET new == <<f>> \o stk
         IN  /\ Orderly(new) /\ new[1] = f /\ new # << >>
             /\ On(new, f.do) = On(stk, f.do) \cup {f.on}
             /\ \A do : do # f.do => On(new, do) = On(stk, do)
<1> DEFINE new == <<f>> \o stk
           n == Len(stk)
<1>1. /\ stk \in Seq(Call) /\ new \in Seq(Call) /\ n \in Nat
      /\ Len(new) = n + 1 /\ DOMAIN stk = 1..n /\ DOMAIN new = 1..n + 1
      /\ new[1] = f /\ \A i \in 1..n : new[i + 1] = stk[i]
  BY DEF Orderly
<1> HIDE DEF new, n
<1>2. f = Frame(f.do, f.on)
  BY DEF Call, Frame
<1>3. \A i \in 1..n : stk[i] # f
  BY <1>1, <1>2, OnStack
<1>4. \A i \in DOMAIN new : i = 1 \/ (i - 1 \in 1..n /\ new[i] = stk[i - 1])
  <2> SUFFICES ASSUME NEW i \in DOMAIN new, i # 1 PROVE i - 1 \in 1..n /\ new[i] = stk[i - 1]
    OBVIOUS
  <2>1. i - 1 \in 1..n /\ (i - 1) + 1 = i
    BY <1>1
  <2> QED BY <1>1, <2>1
<1>5. Distinct(new)
  <2> SUFFICES ASSUME NEW i \in DOMAIN new, NEW j \in DOMAIN new, new[i] = new[j]
               PROVE  i = j
    BY DEF Distinct
  <2>1. CASE i = 1 /\ j = 1
    BY <2>1
  <2>2. CASE i = 1 /\ j # 1
    BY <1>1, <1>3, <1>4, <2>2
  <2>3. CASE i # 1 /\ j = 1
    BY <1>1, <1>3, <1>4, <2>3
  <2>4. CASE i # 1 /\ j # 1
    <3>1. i - 1 = j - 1
      BY <1>1, <1>4, <2>4 DEF Orderly, Distinct
    <3> QED BY <1>1, <3>1
  <2> QED BY <2>1, <2>2, <2>3, <2>4
<1>6. \A i \in DOMAIN new : Placed(new, i)
  <2> SUFFICES ASSUME NEW i \in DOMAIN new PROVE Placed(new, i)
    OBVIOUS
  <2>1. CASE i = 1
    <3>1. f.do = "continue" => 1 + 1 \in DOMAIN new /\ new[1 + 1] = Frame("release", f.on)
      <4> SUFFICES ASSUME f.do = "continue"
                   PROVE  1 + 1 \in DOMAIN new /\ new[1 + 1] = Frame("release", f.on)
        OBVIOUS
      <4>1. 1 \in 1..n
        BY <1>1 DEF n
      <4> QED BY <1>1, <4>1
    <3> QED BY <1>1, <2>1, <3>1 DEF Placed
  <2>2. CASE i # 1
    <3>1. i - 1 \in DOMAIN stk /\ new[i] = stk[i - 1] /\ i \in Nat
      BY <1>1, <1>4, <2>2
    <3>2. Placed(stk, i - 1)
      BY <3>1 DEF Orderly
    <3>3. /\ (i - 1) + 1 = i /\ (i = Len(stk) <=> i + 1 = Len(new))
          /\ (i - 1 = Len(stk) <=> i = Len(new))
          /\ (i \in DOMAIN stk => i + 1 \in DOMAIN new /\ new[i + 1] = stk[i])
          /\ (i = Len(stk) => i \in DOMAIN stk)
      BY <1>1, <3>1 DEF n
    <3> QED BY <3>1, <3>2, <3>3 DEF Placed
  <2> QED BY <2>1, <2>2
<1>7. \A do, x : x \in On(new, do) <=> x \in On(stk, do) \/ Frame(do, x) = f
  <2> SUFFICES ASSUME NEW do, NEW x
               PROVE  x \in On(new, do) <=> x \in On(stk, do) \/ Frame(do, x) = f
    OBVIOUS
  <2>1. x \in On(new, do) => x \in On(stk, do) \/ Frame(do, x) = f
    BY <1>1, <1>4, OnStack
  <2>2. x \in On(stk, do) => x \in On(new, do)
    <3> SUFFICES ASSUME x \in On(stk, do) PROVE x \in On(new, do)
      OBVIOUS
    <3>1. PICK i \in DOMAIN stk : stk[i] = Frame(do, x)
      BY <1>1, OnStack
    <3>2. i + 1 \in DOMAIN new /\ new[i + 1] = Frame(do, x)
      BY <1>1, <3>1
    <3> QED BY <1>1, <3>2, OnStack
  <2>3. Frame(do, x) = f => x \in On(new, do)
    <3>1. 1 \in DOMAIN new
      BY <1>1
    <3> QED BY <1>1, <3>1, OnStack
  <2> QED BY <2>1, <2>2, <2>3
<1>8. \A do, x : Frame(do, x) = f <=> do = f.do /\ x = f.on
  BY <1>2, Frames
<1>9. \A do : do # f.do => On(new, do) = On(stk, do)
  <2> SUFFICES ASSUME NEW do, do # f.do PROVE On(new, do) = On(stk, do)
    OBVIOUS
  <2>1. \A x : x \in On(new, do) <=> x \in On(stk, do)
    BY <1>7, <1>8
  <2> QED BY <2>1
<1>10. On(new, f.do) = On(stk, f.do) \cup {f.on}
  BY <1>7, <1>8
<1>11. new # << >>
  BY <1>1
<1> QED BY <1>1, <1>5, <1>6, <1>9, <1>10, <1>11 DEF Orderly, new

LEMMA PushEnding ==
  ASSUME NEW stk, Orderly(stk), NEW h \in Handlers,
         h \notin On(stk, "continue"), h \notin On(stk, "release")
  PROVE  LET new == Ending(h) \o stk
         IN  /\ Orderly(new) /\ new # << >>
             /\ On(new, "continue") = On(stk, "continue") \cup {h}
             /\ On(new, "release") = On(stk, "release") \cup {h}
             /\ \A do \in {"enqueue", "close", "chain", "queue"} :
                  On(new, do) = On(stk, do)
<1> DEFINE c == Frame("continue", h)
           r == Frame("release", h)
           mid == <<r>> \o stk
           new == <<c>> \o mid
<1>1. c \in Call /\ r \in Call /\ c.do = "continue" /\ c.on = h /\ r.do = "release" /\ r.on = h
  BY Frames
<1>2. /\ Orderly(mid) /\ mid[1] = r /\ mid # << >>
      /\ On(mid, "release") = On(stk, "release") \cup {h}
      /\ \A do : do # "release" => On(mid, do) = On(stk, do)
  <2> HIDE DEF r
  <2> QED BY <1>1, Push
<1>3. /\ Orderly(new) /\ new # << >>
      /\ On(new, "continue") = On(mid, "continue") \cup {h}
      /\ \A do : do # "continue" => On(new, do) = On(mid, do)
  <2>1. mid[1] = Frame("release", h)
    BY <1>2
  <2>2. h \notin On(mid, "continue")
    BY <1>2
  <2> HIDE DEF c, mid
  <2> QED BY <1>1, <1>2, <2>1, <2>2, Push
<1>4. Ending(h) \o stk = new
  <2>1. Ending(h) = <<c>> \o <<r>>
    BY DEF Ending
  <2>2. stk \in Seq(Call) /\ <<c>> \in Seq(Call) /\ <<r>> \in Seq(Call)
    BY <1>1 DEF Orderly
  <2> HIDE DEF c, r
  <2> QED BY <2>1, <2>2, ConcatAssociative
<1> HIDE DEF new, mid
<1> QED BY <1>2, <1>3, <1>4

\* In whatever order the storages are closed that are lost.
LEMMA Ordered ==
  ASSUME NEW S \in SUBSET Storages, NEW order \in Seqs!SetToSeqs(S)
  PROVE  /\ order \in Seq(Storages) /\ Distinct(order)
         /\ \A s : s \in S <=> \E i \in DOMAIN order : order[i] = s
<1> DEFINE n == Cardinality(S)
<1>1. IsFiniteSet(S) /\ n \in Nat
  BY StorageAssumption, FS_Subset, FS_CardinalityType
<1>2. order \in [1..n -> S] /\ \A i, j \in 1..n : i # j => order[i] # order[j]
  BY DEF Seqs!SetToSeqs, Seqs!Cardinality, Cardinality
<1> HIDE DEF n
<1>3. order \in Injection(1..n, S)
  BY <1>2 DEF Injection, IsInjective
<1>4. Cardinality(1..n) = n /\ IsFiniteSet(1..n)
  BY <1>1, FS_Interval
<1>5. order \in Surjection(1..n, S)
  BY <1>1, <1>3, <1>4, FS_Injection DEF n
<1>6. order \in Seq(Storages)
  <2>1. order \in [1..n -> Storages]
    BY <1>2
  <2> QED BY <1>1, <2>1
<1>7. DOMAIN order = 1..n
  BY <1>2
<1> QED BY <1>2, <1>5, <1>6, <1>7 DEF Distinct, Surjection

LEMMA PushCloses ==
  ASSUME NEW stk, Orderly(stk), NEW order \in Seq(Storages), Distinct(order),
         \A i \in DOMAIN order : order[i] \notin On(stk, "close")
  PROVE  LET new == [i \in DOMAIN order |-> Frame("close", order[i])] \o stk
         IN  /\ Orderly(new)
             /\ \A s : s \in On(new, "close")
                         <=> s \in On(stk, "close") \/ \E i \in DOMAIN order : order[i] = s
             /\ \A do : do # "close" => On(new, do) = On(stk, do)
<1> DEFINE first == [i \in DOMAIN order |-> Frame("close", order[i])]
           m == Len(order)
           n == Len(stk)
           new == first \o stk
<1>1. /\ m \in Nat /\ n \in Nat /\ DOMAIN order = 1..m /\ DOMAIN stk = 1..n
      /\ stk \in Seq(Call) /\ \A i \in 1..m : order[i] \in Storages
  BY DEF Orderly
<1>2. first \in Seq(Call) /\ Len(first) = m /\ \A i \in 1..m : first[i] = Frame("close", order[i])
  <2>1. \A i \in 1..m : Frame("close", order[i]) \in Call
    BY <1>1, Frames
  <2>2. first \in [1..m -> Call]
    BY <1>1, <2>1
  <2> QED BY <1>1, <2>2
<1> HIDE DEF first, m, n
<1>3. /\ new \in Seq(Call) /\ Len(new) = m + n /\ DOMAIN new = 1..m + n
      /\ \A i \in 1..m : new[i] = Frame("close", order[i])
      /\ \A i \in 1..n : new[m + i] = stk[i]
  <2>1. new \in Seq(Call) /\ Len(new) = m + n
        /\ \A i \in 1..m + n : new[i] = IF i <= m THEN first[i] ELSE stk[i - m]
    <3>1. first \in Seq(Call) /\ stk \in Seq(Call) /\ Len(first) = m /\ Len(stk) = n
      BY <1>1, <1>2 DEF n
    <3>2. Len(new) = Len(first) + Len(stk)
      BY <3>1, ConcatProperties
    <3>3. \A i \in 1..Len(first) + Len(stk) :
            new[i] = IF i <= Len(first) THEN first[i] ELSE stk[i - Len(first)]
      BY <3>1, ConcatProperties
    <3>4. new \in Seq(Call)
      BY <3>1, ConcatProperties
    <3> HIDE DEF new
    <3> QED BY <3>1, <3>2, <3>3, <3>4
  <2>2. \A i \in 1..m : i \in 1..m + n /\ i <= m
    BY <1>1
  <2>3. \A i \in 1..n : m + i \in 1..m + n /\ ~(m + i <= m) /\ (m + i) - m = i
    BY <1>1
  <2> HIDE DEF new
  <2> QED BY <1>1, <1>2, <2>1, <2>2, <2>3
<1> HIDE DEF new
<1>4. \A i \in 1..m + n : i \in 1..m \/ (i - m \in 1..n /\ m + (i - m) = i)
  BY <1>1
<1>5. ASSUME NEW i \in 1..m, NEW j \in 1..n, new[i] = new[m + j] PROVE FALSE
  <2>1. stk[j] = Frame("close", order[i])
    BY <1>3, <1>5
  <2>2. order[i] \in On(stk, "close")
    BY <1>1, <2>1, OnStack
  <2> QED BY <1>1, <2>2
<1>6. Distinct(new)
  <2> SUFFICES ASSUME NEW i \in DOMAIN new, NEW j \in DOMAIN new, new[i] = new[j]
               PROVE  i = j
    BY DEF Distinct
  <2>1. CASE i \in 1..m /\ j \in 1..m
    <3>1. order[i] = order[j]
      BY <1>3, <2>1, Frames
    <3> QED BY <1>1, <2>1, <3>1 DEF Distinct
  <2>2. CASE i \notin 1..m /\ j \notin 1..m
    <3>1. /\ i - m \in 1..n /\ m + (i - m) = i /\ j - m \in 1..n /\ m + (j - m) = j
      BY <1>3, <1>4, <2>2
    <3>2. stk[i - m] = stk[j - m]
      BY <1>3, <3>1
    <3>3. i - m = j - m
      BY <1>1, <3>1, <3>2 DEF Orderly, Distinct
    <3> QED BY <3>1, <3>3
  <2>3. CASE i \in 1..m /\ j \notin 1..m
    BY <1>3, <1>4, <1>5, <2>3
  <2>4. CASE i \notin 1..m /\ j \in 1..m
    BY <1>3, <1>4, <1>5, <2>4
  <2> QED BY <2>1, <2>2, <2>3, <2>4
<1>7. \A i \in DOMAIN new : Placed(new, i)
  <2> SUFFICES ASSUME NEW i \in DOMAIN new PROVE Placed(new, i)
    OBVIOUS
  <2>1. CASE i \in 1..m
    <3>1. new[i].do = "close" /\ new[i].on \in Storages
      BY <1>1, <1>3, <2>1, Frames
    <3> QED BY <3>1 DEF Placed
  <2>2. CASE i \notin 1..m
    <3> DEFINE j == i - m
    <3>1. /\ j \in 1..n /\ new[i] = stk[j] /\ i = m + j
      BY <1>3, <1>4, <2>2
    <3>2. Placed(stk, j)
      BY <1>1, <3>1 DEF Orderly
    <3>3. /\ i + 1 = m + (j + 1) /\ (i = Len(new) <=> j = Len(stk))
          /\ (i + 1 = Len(new) <=> j + 1 = Len(stk))
          /\ (j + 1 = Len(stk) => j + 1 \in DOMAIN stk)
      <4>1. n = Len(stk) /\ Len(new) = m + n /\ DOMAIN stk = 1..n
        BY <1>1, <1>3 DEF n
      <4>2. i \in Nat /\ j \in Nat /\ m \in Nat /\ n \in Nat /\ i = m + j
        BY <1>1, <3>1
      <4> HIDE DEF j
      <4>3. /\ i + 1 = m + (j + 1) /\ (i = m + n <=> j = n)
            /\ (i + 1 = m + n <=> j + 1 = n) /\ (j + 1 = n => j + 1 \in 1..n)
        BY <4>2
      <4> QED BY <4>1, <4>3
    <3>4. j + 1 \in DOMAIN stk => i + 1 \in DOMAIN new /\ new[i + 1] = stk[j + 1]
      <4> SUFFICES ASSUME j + 1 \in 1..n PROVE i + 1 \in DOMAIN new /\ new[i + 1] = stk[j + 1]
        BY <1>1
      <4>1. i + 1 \in 1..m + n
        BY <1>1, <3>1
      <4> HIDE DEF j
      <4> QED BY <1>3, <3>3, <4>1
    <3> HIDE DEF j
    <3> QED BY <3>1, <3>2, <3>3, <3>4 DEF Placed
  <2> QED BY <2>1, <2>2
<1>8. ASSUME NEW do, NEW x
      PROVE  x \in On(new, do)
               <=> \/ x \in On(stk, do)
                   \/ do = "close" /\ \E i \in DOMAIN order : order[i] = x
  <2>1. \A i \in 1..m : new[i] = Frame(do, x) <=> do = "close" /\ order[i] = x
    BY <1>3, Frames
  <2>2. ASSUME x \in On(new, do)
        PROVE  x \in On(stk, do) \/ (do = "close" /\ \E i \in DOMAIN order : order[i] = x)
    <3>1. PICK i \in DOMAIN new : new[i] = Frame(do, x)
      BY <1>3, <2>2, OnStack
    <3>2. CASE i \in 1..m
      BY <1>1, <2>1, <3>1, <3>2
    <3>3. CASE i \notin 1..m
      <4> DEFINE j == i - m
      <4>1. j \in 1..n /\ m + j = i
        BY <1>3, <1>4, <3>3
      <4> HIDE DEF j
      <4>2. new[m + j] = stk[j]
        BY <1>3, <4>1
      <4>3. stk[j] = new[i]
        BY <4>1, <4>2
      <4>4. stk[j] = Frame(do, x)
        BY <3>1, <4>3
      <4>5. j \in DOMAIN stk
        BY <1>1, <4>1
      <4> QED BY <1>1, <4>4, <4>5, OnStack
    <3> QED BY <3>2, <3>3
  <2>3. ASSUME x \in On(stk, do) PROVE x \in On(new, do)
    <3>1. PICK i \in DOMAIN stk : stk[i] = Frame(do, x)
      BY <1>1, <2>3, OnStack
    <3>2. i \in 1..n /\ m + i \in 1..m + n
      BY <1>1
    <3>3. m + i \in DOMAIN new /\ new[m + i] = Frame(do, x)
      BY <1>3, <3>1, <3>2
    <3> QED BY <1>3, <3>3, OnStack
  <2>4. ASSUME do = "close", NEW i \in DOMAIN order, order[i] = x PROVE x \in On(new, do)
    <3>1. i \in DOMAIN new /\ new[i] = Frame(do, x)
      BY <1>1, <1>3, <2>1, <2>4
    <3> QED BY <1>3, <3>1, OnStack
  <2> QED BY <2>2, <2>3, <2>4
<1>9. ASSUME NEW do, do # "close" PROVE On(new, do) = On(stk, do)
  <2>1. \A x : x \in On(new, do) <=> x \in On(stk, do)
    BY <1>8, <1>9
  <2> QED BY <2>1
<1> QED BY <1>3, <1>6, <1>7, <1>8, <1>9 DEF Orderly, new, first

LEMMA EmptyStack == Orderly(<< >>) /\ \A do : On(<< >>, do) = {}
BY DEF Orderly, Distinct, Placed, On

LEMMA BottomStack ==
  LET stk == <<Frame("chain", Null), Frame("queue", Null)>>
  IN  /\ Orderly(stk) /\ On(stk, "chain") = {Null} /\ On(stk, "queue") = {Null}
      /\ \A do \in {"continue", "release", "enqueue", "close"} : On(stk, do) = {}
<1> DEFINE stk == <<Frame("chain", Null), Frame("queue", Null)>>
<1>1. /\ stk \in Seq(Call) /\ Len(stk) = 2 /\ DOMAIN stk = 1..2
      /\ stk[1] = Frame("chain", Null) /\ stk[2] = Frame("queue", Null)
  BY Frames
<1> HIDE DEF stk
<1>2. \A i \in 1..2 : i = 1 \/ i = 2
  OBVIOUS
<1>3. Distinct(stk)
  BY <1>1, <1>2, Frames DEF Distinct
<1>4. \A i \in DOMAIN stk : Placed(stk, i)
  <2>1. Placed(stk, 1)
    BY <1>1, Frames DEF Placed
  <2>2. Placed(stk, 2)
    BY <1>1, Frames DEF Placed
  <2> QED BY <1>1, <1>2, <2>1, <2>2
<1>5. \A do, x : x \in On(stk, do) <=> do \in {"chain", "queue"} /\ x = Null
  <2> SUFFICES ASSUME NEW do, NEW x
               PROVE  x \in On(stk, do) <=> do \in {"chain", "queue"} /\ x = Null
    OBVIOUS
  <2>1. x \in On(stk, do) <=> stk[1] = Frame(do, x) \/ stk[2] = Frame(do, x)
    BY <1>1, <1>2, OnStack
  <2>2. /\ stk[1] = Frame(do, x) <=> do = "chain" /\ x = Null
        /\ stk[2] = Frame(do, x) <=> do = "queue" /\ x = Null
    BY <1>1, Frames
  <2> QED BY <2>1, <2>2
<1> QED BY <1>1, <1>3, <1>4, <1>5 DEF Orderly, stk

\* What stands below the frame at the top.
LEMMA TopFrame ==
  ASSUME NEW stk, Orderly(stk), stk # << >>
  PROVE  /\ Head(stk).do \in {"continue", "release", "close", "enqueue", "chain", "queue"}
         /\ Head(stk).do \in {"continue", "release", "enqueue"} => Head(stk).on \in Handlers
         /\ Head(stk).do = "close" => Head(stk).on \in Storages
         /\ Head(stk).do \in {"chain", "queue"} => Head(stk).on = Null
         /\ Head(stk).do = "queue" => Tail(stk) = << >>
<1>1. /\ 1 \in DOMAIN stk /\ Head(stk) = stk[1] /\ stk \in Seq(Call) /\ Head(stk) \in Call
      /\ Len(stk) \in Nat
  BY HeadTailProperties DEF Orderly
<1>2. Placed(stk, 1)
  BY <1>1 DEF Orderly
<1>3. Head(stk).do = "queue" => Tail(stk) = << >>
  <2> SUFFICES ASSUME Head(stk).do = "queue" PROVE Tail(stk) = << >>
    OBVIOUS
  <2>1. Len(stk) = 1
    BY <1>1, <1>2 DEF Placed
  <2>2. Tail(stk) \in Seq(Call) /\ Len(Tail(stk)) = 0
    BY <1>1, <2>1, HeadTailProperties
  <2> QED BY <2>2, EmptySeq
<1> QED BY <1>1, <1>2, <1>3 DEF Placed, Call

\* A continuation is called before what the handler owns is released.
LEMMA ContinueReleases ==
  ASSUME NEW stk, Orderly(stk)
  PROVE  On(stk, "continue") \subseteq On(stk, "release") \cap Handlers
<1> SUFFICES ASSUME NEW h \in On(stk, "continue") PROVE h \in On(stk, "release") /\ h \in Handlers
  OBVIOUS
<1>1. PICK i \in DOMAIN stk : stk[i] = Frame("continue", h)
  BY OnStack DEF Orderly
<1>2. Placed(stk, i) /\ stk[i].do = "continue" /\ stk[i].on = h
  BY <1>1, Frames DEF Orderly
<1>3. i + 1 \in DOMAIN stk /\ stk[i + 1] = Frame("release", h) /\ h \in Handlers
  BY <1>2 DEF Placed
<1> QED BY <1>3, OnStack DEF Orderly

-----------------------------------------------------------------------------
(* The lists of handlers and of storages. *)

LEMMA Appended ==
  ASSUME NEW S, NEW q \in Seq(S), NEW x \in S, Distinct(q), x \notin Elements(q)
  PROVE  /\ Append(q, x) \in Seq(S) /\ Distinct(Append(q, x))
         /\ Elements(Append(q, x)) = Elements(q) \cup {x}
<1> DEFINE n == Len(q)
           r == Append(q, x)
<1>1. /\ r \in Seq(S) /\ n \in Nat /\ DOMAIN q = 1..n /\ DOMAIN r = 1..n + 1
      /\ r[n + 1] = x /\ \A i \in 1..n : r[i] = q[i]
  BY AppendProperties
<1> HIDE DEF n, r
<1>2. \A i \in 1..n + 1 : i \in 1..n \/ i = n + 1
  BY <1>1
<1>3. \A i \in 1..n : q[i] # x /\ i \in 1..n + 1 /\ i # n + 1
  BY <1>1 DEF Elements
<1>4. n + 1 \in 1..n + 1
  BY <1>1
<1>5. Distinct(r)
  BY <1>1, <1>2, <1>3 DEF Distinct
<1>6. Elements(r) = Elements(q) \cup {x}
  BY <1>1, <1>2, <1>3, <1>4 DEF Elements
<1> QED BY <1>1, <1>5, <1>6 DEF r

LEMMA Taken ==
  ASSUME NEW S, NEW q \in Seq(S), Distinct(q), q # << >>
  PROVE  /\ Tail(q) \in Seq(S) /\ Distinct(Tail(q))
         /\ Head(q) \in S /\ Head(q) \in Elements(q)
         /\ Elements(Tail(q)) = Elements(q) \ {Head(q)}
<1> DEFINE n == Len(q)
           r == Tail(q)
<1>1. /\ r \in Seq(S) /\ n \in Nat \ {0} /\ DOMAIN q = 1..n /\ DOMAIN r = 1..n - 1
      /\ Head(q) = q[1] /\ Head(q) \in S /\ \A i \in 1..n - 1 : r[i] = q[i + 1]
  BY HeadTailProperties
<1> HIDE DEF n, r
<1>2. \A i \in 1..n : i = 1 \/ (i - 1 \in 1..n - 1 /\ (i - 1) + 1 = i)
  BY <1>1
<1>3. \A i \in 1..n - 1 : i + 1 \in 1..n /\ i + 1 # 1
  BY <1>1
<1>4. 1 \in 1..n
  BY <1>1
<1>5. Distinct(r)
  <2> SUFFICES ASSUME NEW i \in 1..n - 1, NEW j \in 1..n - 1, r[i] = r[j] PROVE i = j
    BY <1>1 DEF Distinct
  <2>1. i + 1 = j + 1
    BY <1>1, <1>3 DEF Distinct
  <2> QED BY <1>1, <2>1
<1>6. \A x : x \in Elements(r) <=> x \in Elements(q) /\ x # Head(q)
  <2> SUFFICES ASSUME NEW x PROVE x \in Elements(r) <=> x \in Elements(q) /\ x # Head(q)
    OBVIOUS
  <2>1. ASSUME NEW i \in 1..n - 1, r[i] = x PROVE x \in Elements(q) /\ x # Head(q)
    <3>1. i + 1 \in 1..n /\ i + 1 # 1 /\ q[i + 1] = x
      BY <1>1, <1>3, <2>1
    <3> QED BY <1>1, <1>4, <3>1 DEF Elements, Distinct
  <2>2. ASSUME NEW i \in 1..n, q[i] = x, x # Head(q) PROVE x \in Elements(r)
    <3>1. i - 1 \in 1..n - 1 /\ r[i - 1] = x
      BY <1>1, <1>2, <2>2
    <3> QED BY <1>1, <3>1 DEF Elements
  <2> QED BY <1>1, <2>1, <2>2 DEF Elements
<1>7. Elements(r) = Elements(q) \ {Head(q)}
  BY <1>6
<1>8. Head(q) \in Elements(q)
  BY <1>1, <1>4 DEF Elements
<1> QED BY <1>1, <1>5, <1>7, <1>8 DEF r

LEMMA Erased ==
  ASSUME NEW S, NEW q \in Seq(S), Distinct(q), NEW k \in DOMAIN q
  PROVE  LET r == Seqs!RemoveAt(q, k)
         IN  /\ r \in Seq(S) /\ Distinct(r)
             /\ Elements(r) = Elements(q) \ {q[k]}
<1> DEFINE n == Len(q)
           a == SubSeq(q, 1, k - 1)
           b == SubSeq(q, k + 1, n)
           r == a \o b
<1>1. n \in Nat /\ DOMAIN q = 1..n /\ k \in 1..n /\ \A i \in 1..n : q[i] \in S
  OBVIOUS
<1>2. a \in Seq(S) /\ Len(a) = k - 1 /\ \A i \in 1..k - 1 : a[i] = q[i]
  <2>1. 1 \in Int /\ k - 1 \in Int /\ \A i \in 1..k - 1 : q[i] \in S
    BY <1>1
  <2>2. /\ a \in Seq(S) /\ Len(a) = IF 1 <= k - 1 THEN (k - 1) - 1 + 1 ELSE 0
        /\ \A i \in 1..(k - 1) - 1 + 1 : a[i] = q[1 + i - 1]
    BY <2>1, SubSeqProperties
  <2>3. (IF 1 <= k - 1 THEN (k - 1) - 1 + 1 ELSE 0) = k - 1
    BY <1>1
  <2>4. \A i \in 1..k - 1 : i \in 1..(k - 1) - 1 + 1 /\ 1 + i - 1 = i
    BY <1>1
  <2> HIDE DEF a
  <2> QED BY <2>2, <2>3, <2>4
<1>3. b \in Seq(S) /\ Len(b) = n - k /\ \A i \in 1..n - k : b[i] = q[k + i]
  <2>1. k + 1 \in Int /\ n \in Int /\ \A i \in k + 1..n : q[i] \in S
    BY <1>1
  <2>2. /\ b \in Seq(S) /\ Len(b) = IF k + 1 <= n THEN n - (k + 1) + 1 ELSE 0
        /\ \A i \in 1..n - (k + 1) + 1 : b[i] = q[(k + 1) + i - 1]
    BY <2>1, SubSeqProperties
  <2>3. (IF k + 1 <= n THEN n - (k + 1) + 1 ELSE 0) = n - k
    BY <1>1
  <2>4. \A i \in 1..n - k : i \in 1..n - (k + 1) + 1 /\ (k + 1) + i - 1 = k + i
    BY <1>1
  <2> HIDE DEF b
  <2> QED BY <2>2, <2>3, <2>4
<1> HIDE DEF a, b, n
<1>4. /\ r \in Seq(S) /\ DOMAIN r = 1..n - 1
      /\ \A i \in 1..k - 1 : r[i] = q[i]
      /\ \A i \in k..n - 1 : r[i] = q[i + 1]
  <2>1. /\ r \in Seq(S) /\ Len(r) = (k - 1) + (n - k)
        /\ \A i \in 1..(k - 1) + (n - k) : r[i] = IF i <= k - 1 THEN a[i] ELSE b[i - (k - 1)]
    <3>1. /\ a \o b \in Seq(S) /\ Len(a \o b) = Len(a) + Len(b)
          /\ \A i \in 1..Len(a) + Len(b) :
               (a \o b)[i] = IF i <= Len(a) THEN a[i] ELSE b[i - Len(a)]
      BY <1>2, <1>3, ConcatProperties
    <3> QED BY <1>2, <1>3, <3>1
  <2>2. (k - 1) + (n - k) = n - 1
    BY <1>1
  <2>3. \A i \in 1..k - 1 : i \in 1..n - 1 /\ i <= k - 1
    BY <1>1
  <2>4. \A i \in k..n - 1 : /\ i \in 1..n - 1 /\ ~(i <= k - 1)
                            /\ i - (k - 1) \in 1..n - k /\ k + (i - (k - 1)) = i + 1
    BY <1>1
  <2> HIDE DEF r
  <2>5. DOMAIN r = 1..n - 1
    BY <2>1, <2>2
  <2>6. \A i \in 1..k - 1 : r[i] = q[i]
    BY <1>2, <2>1, <2>2, <2>3
  <2>7. \A i \in k..n - 1 : r[i] = q[i + 1]
    BY <1>3, <2>1, <2>2, <2>4
  <2> QED BY <2>1, <2>5, <2>6, <2>7
<1> HIDE DEF r
<1> DEFINE from == [i \in 1..n - 1 |-> IF i < k THEN i ELSE i + 1]
<1>5. \A i \in 1..n - 1 : /\ from[i] \in 1..n /\ from[i] # k
                          /\ i \in 1..k - 1 => from[i] = i
                          /\ i \notin 1..k - 1 => from[i] = i + 1 /\ i \in k..n - 1
  BY <1>1
<1>6. \A i, j \in 1..n - 1 : from[i] = from[j] => i = j
  BY <1>1
<1>7. \A i \in 1..n : i # k => \E j \in 1..n - 1 : from[j] = i
  <2> SUFFICES ASSUME NEW i \in 1..n, i # k PROVE \E j \in 1..n - 1 : from[j] = i
    OBVIOUS
  <2>1. CASE i < k
    <3>1. i \in 1..n - 1 /\ from[i] = i
      BY <1>1, <2>1
    <3> QED BY <3>1
  <2>2. CASE k < i
    <3>1. i - 1 \in 1..n - 1 /\ from[i - 1] = i
      BY <1>1, <2>2
    <3> QED BY <3>1
  <2> QED BY <1>1, <2>1, <2>2
<1> HIDE DEF from
<1>8. \A i \in 1..n - 1 : r[i] = q[from[i]]
  BY <1>4, <1>5
<1>9. Distinct(r)
  BY <1>1, <1>4, <1>5, <1>6, <1>8 DEF Distinct
<1>10. \A x : x \in Elements(r) <=> x \in Elements(q) /\ x # q[k]
  <2> SUFFICES ASSUME NEW x PROVE x \in Elements(r) <=> x \in Elements(q) /\ x # q[k]
    OBVIOUS
  <2>1. ASSUME NEW i \in 1..n - 1, r[i] = x PROVE x \in Elements(q) /\ x # q[k]
    BY <1>1, <1>5, <1>8, <2>1 DEF Elements, Distinct
  <2>2. ASSUME NEW i \in 1..n, q[i] = x, x # q[k] PROVE x \in Elements(r)
    <3>1. PICK j \in 1..n - 1 : from[j] = i
      BY <1>1, <1>7, <2>2
    <3>2. r[j] = x
      BY <1>8, <2>2, <3>1
    <3> QED BY <1>4, <3>1, <3>2 DEF Elements
  <2> QED BY <1>1, <1>4, <2>1, <2>2 DEF Elements
<1>11. Elements(r) = Elements(q) \ {q[k]}
  BY <1>10
<1> QED BY <1>4, <1>9, <1>11 DEF Seqs!RemoveAt, r, a, b, n

-----------------------------------------------------------------------------
(* The steps that the operations are made of. *)

Place == {"unborn", "bound", "stored", "chained", "taken", "queued", "dying", "ended"}

\* m is hs, but for where h is.
Moves(hs, m, h, at) ==
  /\ m \in [Handlers -> HandlerState] /\ m[h].at = at
  /\ \A g \in Handlers : g # h => m[g].at = hs[g].at
  /\ \A g \in Handlers : m[g].owns = hs[g].owns /\ m[g].then = hs[g].then
  /\ OwnedBy(m) = OwnedBy(hs)

LEMMA MovedMoves ==
  ASSUME NEW hs \in [Handlers -> HandlerState], NEW h \in Handlers, NEW at \in Place
  PROVE  Moves(hs, Moved(hs, h, at), h, at)
<1> DEFINE m == Moved(hs, h, at)
<1>1. \A g \in Handlers : m[g] = IF g = h THEN [hs[h] EXCEPT !.at = at] ELSE hs[g]
  BY DEF Moved
<1>2. DOMAIN m = Handlers /\ m = [g \in Handlers |-> m[g]]
  BY DEF Moved
<1> HIDE DEF m
<1>3. \A g \in Handlers : hs[g] \in HandlerState
  OBVIOUS
<1>4. [hs[h] EXCEPT !.at = at] \in HandlerState
  BY <1>3 DEF HandlerState, Place
<1>5. m \in [Handlers -> HandlerState]
  BY <1>1, <1>2, <1>3, <1>4
<1>6. m[h].at = at /\ \A g \in Handlers : g # h => m[g].at = hs[g].at
  BY <1>1, <1>3 DEF HandlerState
<1>7. \A g \in Handlers : m[g].owns = hs[g].owns /\ m[g].then = hs[g].then
  BY <1>1, <1>3 DEF HandlerState
<1>8. OwnedBy(m) = OwnedBy(hs)
  BY <1>7 DEF OwnedBy
<1> QED BY <1>5, <1>6, <1>7, <1>8 DEF Moves, m

LEMMA Owners ==
  ASSUME NEW hs
  PROVE  \A s : s \in OwnedBy(hs) <=> \E h \in Handlers : s \in hs[h].owns
BY DEF OwnedBy

\* Where the others are does not change.
LEMMA CloseTheSame ==
  ASSUME NEW st, NEW hs, NEW m, NEW X, NEW rt, NEW z, Closing(st, hs, X, rt, z),
         NEW u, \A s \in Storages : u[s].life = st[s].life,
         rt \subseteq Storages, OwnedBy(hs) \subseteq Storages, OwnedBy(m) = OwnedBy(hs)
  PROVE  Closing(u, m, X, rt, z)
BY DEF Closing

LEMMA OwnedStorages ==
  ASSUME NEW hs \in [Handlers -> HandlerState]
  PROVE  OwnedBy(hs) \subseteq Storages
BY DEF OwnedBy, HandlerState

\* A handler that moves keeps its continuation to be called, or is the one
\* in hand.
LEMMA ContinueTheSame ==
  ASSUME NEW hs, NEW m, NEW K, NEW K2, NEW w, NEW w2, NEW h \in Handlers, NEW at,
         Continuing(hs, K, w), Moves(hs, m, h, at), at # "bound",
         \A g \in Handlers : Will(m, K2, w2, g) <=> Will(hs, K, w, g),
         \/ hs[h].at # "bound" /\ w2 = w
         \/ h = w /\ w2 = Null /\ w # Null
  PROVE  Continuing(m, K2, w2)
<1>1. \A g \in Handlers : m[g].owns = hs[g].owns /\ m[g].then = hs[g].then
  BY DEF Moves
<1>2. \A g \in Handlers : WillStore(m, K2, w2, g) <=> WillStore(hs, K, w, g)
  BY <1>1 DEF WillStore
<1>3. \A g \in Handlers : m[g].at = "bound" /\ g # w2 <=> hs[g].at = "bound" /\ g # w
  BY StorageAssumption DEF Moves
<1>4. ASSUME NEW g \in Handlers, Will(m, K2, w2, g), m[g].then.op # "none"
      PROVE  m[g].then.on \in m[g].owns
  BY <1>1, <1>4 DEF Continuing
<1>5. ASSUME NEW g \in Handlers, WillStore(m, K2, w2, g)
      PROVE  /\ m[g].then.next \in Handlers \ {w2}
             /\ m[m[g].then.next].at = "bound"
             /\ \A f \in Handlers :
                  WillStore(m, K2, w2, f) /\ m[f].then.next = m[g].then.next => f = g
  <2>1. /\ hs[g].then.next \in Handlers \ {w} /\ hs[hs[g].then.next].at = "bound"
        /\ \A f \in Handlers :
             WillStore(hs, K, w, f) /\ hs[f].then.next = hs[g].then.next => f = g
    BY <1>2, <1>5 DEF Continuing
  <2>2. m[g].then.next = hs[g].then.next
    BY <1>1
  <2> QED BY <1>1, <1>2, <1>3, <2>1, <2>2
<1>6. ASSUME NEW g \in Handlers, m[g].at = "bound", g # w2
      PROVE  /\ m[g].then = NoContinuation
             /\ \E f \in Handlers : WillStore(m, K2, w2, f) /\ m[f].then.next = g
  <2>1. /\ hs[g].then = NoContinuation
        /\ \E f \in Handlers : WillStore(hs, K, w, f) /\ hs[f].then.next = g
    BY <1>3, <1>6 DEF Continuing
  <2> QED BY <1>1, <1>2, <2>1
<1>7. w2 # Null => w2 \in Handlers /\ m[w2].at = "bound"
  BY DEF Moves, Continuing
<1> QED BY <1>4, <1>5, <1>6, <1>7 DEF Continuing

(***************************************************************************)
(* handler_ptr::reset on the handler in hand.                              *)
(***************************************************************************)
LEMMA DropInHand ==
  ASSUME NEW st, NEW hs, NEW K, NEW D, NEW E, NEW X, NEW C, NEW Q, NEW rt, NEW w, NEW z,
         Core(st, hs, K, D, E, X, C, Q, rt, w, z), w # Null
  PROVE  /\ w \notin D /\ w \notin K
         /\ Core(st, Moved(hs, w, "dying"), K \cup {w}, D \cup {w}, E, X, C, Q, rt, Null, z)
<1> DEFINE m == Moved(hs, w, "dying")
<1>1. w \in Handlers /\ hs[w].at = "bound"
  BY DEF Core, Continuing
<1>2. w \notin D /\ w \notin K
  BY <1>1 DEF Core, Places
<1>3. Moves(hs, m, w, "dying")
  BY <1>1, MovedMoves DEF Core, Typed, Place
<1> HIDE DEF m
<1>4. Typed(st, m, rt)
  BY <1>3 DEF Core, Typed, Moves
<1>5. Places(st, m, K \cup {w}, D \cup {w}, E, C, Q)
  BY <1>1, <1>3 DEF Core, Places, Moves
<1>6. Closing(st, m, X, rt, z)
  BY <1>3, CloseTheSame, OwnedStorages DEF Core, Typed, Moves
<1>7. Continuing(m, K \cup {w}, Null)
  <2>1. \A g \in Handlers : Will(m, K \cup {w}, Null, g) <=> Will(hs, K, w, g)
    BY <1>1, <1>3, StorageAssumption DEF Moves, Will
  <2> DEFINE K2 == K \cup {w}
  <2> HIDE DEF K2
  <2> QED BY <1>1, <1>3, <2>1, ContinueTheSame DEF Core, K2
<1> QED BY <1>2, <1>4, <1>5, <1>6, <1>7 DEF Core, m

\* store into an empty storage.
LEMMA PutInHand ==
  ASSUME NEW st, NEW hs, NEW K, NEW D, NEW E, NEW X, NEW C, NEW Q, NEW rt, NEW w, NEW z,
         Core(st, hs, K, D, E, X, C, Q, rt, w, z), w # Null,
         NEW s \in Storages, st[s].life = "alive", st[s].handler = Null
  PROVE  Core([st EXCEPT ![s].handler = w], Moved(hs, w, "stored"), K, D, E, X, C, Q,
              rt, Null, z)
<1> DEFINE m == Moved(hs, w, "stored")
           u == [st EXCEPT ![s].handler = w]
<1>1. w \in Handlers /\ hs[w].at = "bound"
  BY DEF Core, Continuing
<1>2. /\ u \in [Storages -> StorageState] /\ u[s].handler = w
      /\ \A t \in Storages : u[t].life = st[t].life
      /\ \A t \in Storages : t # s => u[t] = st[t]
  BY <1>1 DEF Core, Typed, StorageState
<1>3. Moves(hs, m, w, "stored")
  BY <1>1, MovedMoves DEF Core, Typed, Place
<1> HIDE DEF m, u
<1>4. Typed(u, m, rt)
  BY <1>2, <1>3 DEF Core, Typed, Moves
<1>5. \A t \in Storages : st[t].handler # w
  BY <1>1 DEF Core, Places
<1>6. Places(u, m, K, D, E, C, Q)
  BY <1>1, <1>2, <1>3, <1>5, StorageAssumption DEF Core, Places, Moves
<1>7. Slots(u)
  BY <1>2, <1>5 DEF Core, Slots
<1>8. Closing(u, m, X, rt, z)
  BY <1>2, <1>3, CloseTheSame, OwnedStorages DEF Core, Typed, Moves
<1>9. Continuing(m, K, Null)
  <2>1. \A g \in Handlers : Will(m, K, Null, g) <=> Will(hs, K, w, g)
    BY <1>1, <1>3, StorageAssumption DEF Moves, Will
  <2> QED BY <1>1, <1>3, <2>1, ContinueTheSame DEF Core
<1> QED BY <1>4, <1>6, <1>7, <1>8, <1>9 DEF Core, m, u

(***************************************************************************)
(* clear, replace, destroy: the storage is empty and its handler is        *)
(* destroyed.                                                              *)
(***************************************************************************)
LEMMA EmptyAndDrop ==
  ASSUME NEW st, NEW hs, NEW K, NEW D, NEW E, NEW X, NEW C, NEW Q, NEW rt, NEW w, NEW z,
         Core(st, hs, K, D, E, X, C, Q, rt, w, z),
         NEW s \in Storages, NEW old, old = st[s].handler, old # Null
  PROVE  /\ old \in Handlers /\ old \notin D /\ old \notin K /\ hs[old].at = "stored"
         /\ Core([st EXCEPT ![s].handler = Null], Moved(hs, old, "dying"), K \cup {old},
                 D \cup {old}, E, X, C, Q, rt, w, z)
<1> DEFINE m == Moved(hs, old, "dying")
           u == [st EXCEPT ![s].handler = Null]
           K2 == K \cup {old}
<1>1. old \in Handlers
  BY DEF Core, Typed, StorageState
<1>2. hs[old].at = "stored"
  BY <1>1 DEF Core, Places
<1>3. old \notin D /\ old \notin K
  BY <1>1, <1>2 DEF Core, Places
<1>4. /\ u \in [Storages -> StorageState] /\ u[s].handler = Null
      /\ \A t \in Storages : u[t].life = st[t].life
      /\ \A t \in Storages : t # s => u[t] = st[t]
  BY DEF Core, Typed, StorageState
<1>5. Moves(hs, m, old, "dying")
  BY <1>1, MovedMoves DEF Core, Typed, Place
<1> HIDE DEF m, u
<1>6. Typed(u, m, rt)
  BY <1>4, <1>5 DEF Core, Typed, Moves
<1>7. \A t \in Storages : t # s => st[t].handler # old
  BY DEF Core, Slots
<1>8. Places(u, m, K \cup {old}, D \cup {old}, E, C, Q)
  <2>1. \A h \in Handlers : (\E t \in Storages : u[t].handler = h)
                              <=> h # old /\ \E t \in Storages : st[t].handler = h
    BY <1>1, <1>4, <1>7, StorageAssumption
  <2> QED BY <1>1, <1>2, <1>5, <2>1 DEF Core, Places, Moves
<1>9. Slots(u)
  BY <1>4, <1>7 DEF Core, Slots
<1>10. Closing(u, m, X, rt, z)
  BY <1>4, <1>5, CloseTheSame, OwnedStorages DEF Core, Typed, Moves
<1>11. Continuing(m, K2, w)
  <2>1. \A g \in Handlers : Will(m, K2, w, g) <=> Will(hs, K, w, g)
    BY <1>1, <1>2, <1>5 DEF Moves, Will
  <2> HIDE DEF K2
  <2> QED BY <1>1, <1>2, <1>5, <2>1, ContinueTheSame DEF Core
<1> QED BY <1>1, <1>2, <1>3, <1>6, <1>8, <1>9, <1>10, <1>11 DEF Core, m, u

\* post: the handler leaves the storage to be posted.
LEMMA EmptyAndTake ==
  ASSUME NEW st, NEW hs, NEW K, NEW D, NEW E, NEW X, NEW C, NEW Q, NEW rt, NEW w, NEW z,
         Core(st, hs, K, D, E, X, C, Q, rt, w, z),
         NEW s \in Storages, NEW old, old = st[s].handler, old # Null
  PROVE  /\ old \in Handlers /\ old \notin E /\ hs[old].at = "stored"
         /\ Core([st EXCEPT ![s].handler = Null], Moved(hs, old, "taken"), K, D,
                 E \cup {old}, X, C, Q, rt, w, z)
<1> DEFINE m == Moved(hs, old, "taken")
           u == [st EXCEPT ![s].handler = Null]
<1>1. old \in Handlers
  BY DEF Core, Typed, StorageState
<1>2. hs[old].at = "stored"
  BY <1>1 DEF Core, Places
<1>3. old \notin E
  BY <1>1, <1>2 DEF Core, Places
<1>4. /\ u \in [Storages -> StorageState] /\ u[s].handler = Null
      /\ \A t \in Storages : u[t].life = st[t].life
      /\ \A t \in Storages : t # s => u[t] = st[t]
  BY DEF Core, Typed, StorageState
<1>5. Moves(hs, m, old, "taken")
  BY <1>1, MovedMoves DEF Core, Typed, Place
<1> HIDE DEF m, u
<1>6. Typed(u, m, rt)
  BY <1>4, <1>5 DEF Core, Typed, Moves
<1>7. \A t \in Storages : t # s => st[t].handler # old
  BY DEF Core, Slots
<1>8. Places(u, m, K, D, E \cup {old}, C, Q)
  <2>1. \A h \in Handlers : (\E t \in Storages : u[t].handler = h)
                              <=> h # old /\ \E t \in Storages : st[t].handler = h
    BY <1>1, <1>4, <1>7, StorageAssumption
  <2> QED BY <1>1, <1>2, <1>5, <2>1 DEF Core, Places, Moves
<1>9. Slots(u)
  BY <1>4, <1>7 DEF Core, Slots
<1>10. Closing(u, m, X, rt, z)
  BY <1>4, <1>5, CloseTheSame, OwnedStorages DEF Core, Typed, Moves
<1>11. Continuing(m, K, w)
  <2>1. \A g \in Handlers : Will(m, K, w, g) <=> Will(hs, K, w, g)
    BY <1>1, <1>2, <1>5 DEF Moves, Will
  <2> QED BY <1>1, <1>2, <1>5, <2>1, ContinueTheSame DEF Core
<1> QED BY <1>1, <1>2, <1>3, <1>6, <1>8, <1>9, <1>10, <1>11 DEF Core, m, u

\* io_service::post.
LEMMA Posted ==
  ASSUME NEW st, NEW hs, NEW K, NEW D, NEW E, NEW X, NEW C, NEW Q, NEW rt, NEW w, NEW z,
         Core(st, hs, K, D, E, X, C, Q, rt, w, z), NEW h \in Handlers, h \in E
  PROVE  /\ h \notin Q /\ hs[h].at = "taken"
         /\ Core(st, Moved(hs, h, "queued"), K, D, E \ {h}, X, C, Q \cup {h}, rt, w, z)
<1> DEFINE m == Moved(hs, h, "queued")
<1>1. hs[h].at = "taken"
  BY DEF Core, Places
<1>2. h \notin Q
  BY <1>1 DEF Core, Places
<1>3. Moves(hs, m, h, "queued")
  BY MovedMoves DEF Core, Typed, Place
<1> HIDE DEF m
<1>4. Typed(st, m, rt)
  BY <1>3 DEF Core, Typed, Moves
<1>5. Places(st, m, K, D, E \ {h}, C, Q \cup {h})
  BY <1>1, <1>3 DEF Core, Places, Moves
<1>6. Closing(st, m, X, rt, z)
  BY <1>3, CloseTheSame, OwnedStorages DEF Core, Typed, Moves
<1>7. Continuing(m, K, w)
  <2>1. \A g \in Handlers : Will(m, K, w, g) <=> Will(hs, K, w, g)
    BY <1>1, <1>3 DEF Moves, Will
  <2> QED BY <1>1, <1>3, <2>1, ContinueTheSame DEF Core
<1> QED BY <1>1, <1>2, <1>4, <1>5, <1>6, <1>7 DEF Core, m

\* A posted handler is destroyed, called or not.
LEMMA DropPosted ==
  ASSUME NEW st, NEW hs, NEW K, NEW D, NEW E, NEW X, NEW C, NEW Q, NEW rt, NEW w, NEW z,
         Core(st, hs, K, D, E, X, C, Q, rt, w, z), NEW h \in Handlers, h \in Q
  PROVE  /\ h \notin D /\ h \notin K /\ hs[h].at = "queued"
         /\ Core(st, Moved(hs, h, "dying"), K \cup {h}, D \cup {h}, E, X, C, Q \ {h},
                 rt, w, z)
<1> DEFINE m == Moved(hs, h, "dying")
           K2 == K \cup {h}
<1>1. hs[h].at = "queued"
  BY DEF Core, Places
<1>2. h \notin D /\ h \notin K
  BY <1>1 DEF Core, Places
<1>3. Moves(hs, m, h, "dying")
  BY MovedMoves DEF Core, Typed, Place
<1> HIDE DEF m
<1>4. Typed(st, m, rt)
  BY <1>3 DEF Core, Typed, Moves
<1>5. Places(st, m, K \cup {h}, D \cup {h}, E, C, Q \ {h})
  BY <1>1, <1>3 DEF Core, Places, Moves
<1>6. Closing(st, m, X, rt, z)
  BY <1>3, CloseTheSame, OwnedStorages DEF Core, Typed, Moves
<1>7. Continuing(m, K2, w)
  <2>1. \A g \in Handlers : Will(m, K2, w, g) <=> Will(hs, K, w, g)
    BY <1>1, <1>3 DEF Moves, Will
  <2> HIDE DEF K2
  <2> QED BY <1>1, <1>3, <2>1, ContinueTheSame DEF Core
<1> QED BY <1>1, <1>2, <1>4, <1>5, <1>6, <1>7 DEF Core, m

\* A handler in the list of shutdown_service is destroyed.
LEMMA DropChained ==
  ASSUME NEW st, NEW hs, NEW K, NEW D, NEW E, NEW X, NEW C, NEW Q, NEW rt, NEW w, NEW z,
         Core(st, hs, K, D, E, X, C, Q, rt, w, z), NEW h \in Handlers, h \in C
  PROVE  /\ h \notin D /\ h \notin K /\ hs[h].at = "chained"
         /\ Core(st, Moved(hs, h, "dying"), K \cup {h}, D \cup {h}, E, X, C \ {h}, Q,
                 rt, w, z)
<1> DEFINE m == Moved(hs, h, "dying")
           K2 == K \cup {h}
<1>1. hs[h].at = "chained"
  BY DEF Core, Places
<1>2. h \notin D /\ h \notin K
  BY <1>1 DEF Core, Places
<1>3. Moves(hs, m, h, "dying")
  BY MovedMoves DEF Core, Typed, Place
<1> HIDE DEF m
<1>4. Typed(st, m, rt)
  BY <1>3 DEF Core, Typed, Moves
<1>5. Places(st, m, K \cup {h}, D \cup {h}, E, C \ {h}, Q)
  BY <1>1, <1>3 DEF Core, Places, Moves
<1>6. Closing(st, m, X, rt, z)
  BY <1>3, CloseTheSame, OwnedStorages DEF Core, Typed, Moves
<1>7. Continuing(m, K2, w)
  <2>1. \A g \in Handlers : Will(m, K2, w, g) <=> Will(hs, K, w, g)
    BY <1>1, <1>3 DEF Moves, Will
  <2> HIDE DEF K2
  <2> QED BY <1>1, <1>3, <2>1, ContinueTheSame DEF Core
<1> QED BY <1>1, <1>2, <1>4, <1>5, <1>6, <1>7 DEF Core, m

\* The destructor of h calls its continuation: the handler that it stores
\* is in hand.
LEMMA Continued ==
  ASSUME NEW st, NEW hs, NEW K, NEW D, NEW E, NEW X, NEW C, NEW Q, NEW rt, NEW z,
         Core(st, hs, K, D, E, X, C, Q, rt, Null, z), NEW h \in Handlers, h \in K
  PROVE  LET c == hs[h].then
             stored == IF c.op = "store" THEN c.next ELSE Null
         IN  /\ c.op # "none" => c.on \in Storages /\ st[c.on].life = "alive"
             /\ c.op = "store" => c.next \in Handlers /\ hs[c.next].at = "bound"
             /\ Core(st, hs, K \ {h}, D, E, X, C, Q, rt, stored, z)
<1> DEFINE c == hs[h].then
           stored == IF c.op = "store" THEN c.next ELSE Null
           K2 == K \ {h}
<1>1. hs[h].at = "dying" /\ hs[h] \in HandlerState
  BY DEF Core, Places, Typed
<1>2. Will(hs, K, Null, h)
  BY DEF Will
<1>3. c.op # "none" => c.on \in hs[h].owns
  BY <1>2 DEF Core, Continuing
<1>4. c.op # "none" => c.on \in Storages /\ st[c.on].life = "alive"
  BY <1>1, <1>3, Owners DEF Core, Closing, HandlerState
<1>5. c.op = "store" =>
        /\ c.next \in Handlers /\ hs[c.next].at = "bound"
        /\ \A f \in Handlers : WillStore(hs, K, Null, f) /\ hs[f].then.next = c.next => f = h
  BY <1>2 DEF Core, Continuing, WillStore
<1>6. Places(st, hs, K2, D, E, C, Q)
  BY DEF Core, Places
<1> HIDE DEF K2
<1>7. Continuing(hs, K2, stored)
  <2>1. \A g \in Handlers : g # stored =>
          (Will(hs, K2, stored, g) <=> Will(hs, K, Null, g) /\ g # h)
    BY <1>1, StorageAssumption DEF Will, K2
  <2>2. stored # Null => stored = c.next /\ c.op = "store" /\ stored \in Handlers
                       /\ hs[stored].at = "bound" /\ stored # h
    BY <1>1, <1>5
  <2>3. stored # Null => hs[stored].then = NoContinuation
    BY <2>2 DEF Core, Continuing
  <2>4. \A g \in Handlers : WillStore(hs, K2, stored, g) <=> WillStore(hs, K, Null, g) /\ g # h
    <3> SUFFICES ASSUME NEW g \in Handlers
                 PROVE  WillStore(hs, K2, stored, g) <=> WillStore(hs, K, Null, g) /\ g # h
      OBVIOUS
    <3>1. CASE g # stored
      BY <2>1, <3>1 DEF WillStore
    <3>2. CASE g = stored
      <4>1. hs[g].then.op = "none"
        BY <2>3, <3>2, StorageAssumption DEF NoContinuation
      <4> QED BY <4>1 DEF WillStore
    <3> QED BY <3>1, <3>2
  <2> HIDE DEF stored
  <2>5. ASSUME NEW g \in Handlers, Will(hs, K2, stored, g), hs[g].then.op # "none"
        PROVE  hs[g].then.on \in hs[g].owns
    <3>1. g # stored
      BY <2>3, <2>5, StorageAssumption DEF NoContinuation
    <3> QED BY <2>1, <2>5, <3>1 DEF Core, Continuing
  <2>6. ASSUME NEW g \in Handlers, WillStore(hs, K2, stored, g)
        PROVE  /\ hs[g].then.next \in Handlers \ {stored}
               /\ hs[hs[g].then.next].at = "bound"
               /\ \A f \in Handlers :
                    WillStore(hs, K2, stored, f) /\ hs[f].then.next = hs[g].then.next => f = g
    <3>1. /\ WillStore(hs, K, Null, g) /\ g # h
      BY <2>4, <2>6
    <3>2. /\ hs[g].then.next \in Handlers /\ hs[hs[g].then.next].at = "bound"
          /\ \A f \in Handlers :
               WillStore(hs, K, Null, f) /\ hs[f].then.next = hs[g].then.next => f = g
      BY <3>1 DEF Core, Continuing
    <3>3. hs[g].then.next # stored
      BY <1>5, <2>2, <3>1, <3>2, StorageAssumption
    <3> QED BY <2>4, <3>2, <3>3
  <2>7. ASSUME NEW g \in Handlers, hs[g].at = "bound", g # stored
        PROVE  /\ hs[g].then = NoContinuation
               /\ \E f \in Handlers : WillStore(hs, K2, stored, f) /\ hs[f].then.next = g
    <3>1. hs[g].then = NoContinuation /\ g # Null
      BY <2>7, StorageAssumption DEF Core, Continuing
    <3>2. PICK f \in Handlers : WillStore(hs, K, Null, f) /\ hs[f].then.next = g
      BY <2>7, <3>1 DEF Core, Continuing
    <3>3. f # h
      BY <2>7, <3>2 DEF stored, WillStore
    <3> QED BY <2>4, <3>1, <3>2, <3>3
  <2> QED BY <2>2, <2>5, <2>6, <2>7 DEF Continuing
<1> QED BY <1>4, <1>5, <1>6, <1>7 DEF Core, K2

(***************************************************************************)
(* What the handler owned is released: the storages that it was the last   *)
(* to own are to be closed.                                                *)
(***************************************************************************)
Freed(hs, h) == [hs EXCEPT ![h].at = "ended", ![h].owns = {}]

Lost(hs, h, rt) == hs[h].owns \ (rt \cup OwnedBy(Freed(hs, h)))

LEMMA Released ==
  ASSUME NEW st, NEW hs, NEW K, NEW D, NEW E, NEW X, NEW C, NEW Q, NEW rt, NEW w, NEW z,
         Core(st, hs, K, D, E, X, C, Q, rt, w, z), NEW h \in Handlers, h \in D, h \notin K
  PROVE  LET m == Freed(hs, h)
             lost == Lost(hs, h, rt)
         IN  /\ lost \subseteq Storages /\ lost \cap X = {} /\ hs[h].at = "dying"
             /\ m[h].at = "ended" /\ \A g \in Handlers : g # h => m[g] = hs[g]
             /\ m \in [Handlers -> HandlerState]
             /\ \A Y : (\A s \in Storages : s \in Y <=> s \in X \/ s \in lost) /\ z \notin Y =>
                  Core(st, m, K, D \ {h}, E, Y, C, Q, rt, w, z)
<1> DEFINE m == Freed(hs, h)
           lost == Lost(hs, h, rt)
<1>1. hs[h].at = "dying" /\ hs[h] \in HandlerState /\ hs \in [Handlers -> HandlerState]
  BY DEF Core, Places, Typed
<1>2. /\ m \in [Handlers -> HandlerState] /\ m[h].at = "ended" /\ m[h].owns = {}
      /\ m[h].then = hs[h].then
      /\ \A g \in Handlers : g # h => m[g] = hs[g]
  BY <1>1 DEF HandlerState, Freed
<1>0. lost = hs[h].owns \ (rt \cup OwnedBy(m))
  BY DEF Lost
<1> HIDE DEF m, lost
<1>3. \A s : s \in OwnedBy(hs) <=> s \in OwnedBy(m) \/ s \in hs[h].owns
  BY <1>2, Owners
<1>4. \A s \in OwnedBy(hs) : s \in Storages /\ st[s].life = "alive" /\ s \notin X /\ s # z
  BY <1>1, OwnedStorages DEF Core, Closing
<1>5. lost \subseteq Storages /\ lost \cap X = {}
  BY <1>0, <1>3, <1>4
<1>6. ASSUME NEW Y, \A s \in Storages : s \in Y <=> s \in X \/ s \in lost, z \notin Y
      PROVE  Core(st, m, K, D \ {h}, E, Y, C, Q, rt, w, z)
  <2>1. Typed(st, m, rt)
    BY <1>2 DEF Core, Typed
  <2>2. Places(st, m, K, D \ {h}, E, C, Q)
    <3> SUFFICES ASSUME NEW g \in Handlers
                 PROVE  /\ m[g].at = "dying" <=> g \in D \ {h}
                        /\ m[g].at = "taken" <=> g \in E
                        /\ m[g].at = "chained" <=> g \in C
                        /\ m[g].at = "queued" <=> g \in Q
                        /\ m[g].at = "stored" <=> \E s \in Storages : st[s].handler = g
                        /\ g \in K => g \in D \ {h}
                        /\ m[g].at \in {"unborn", "ended"} => m[g].owns = {}
                        /\ m[g].at = "unborn" => m[g].then = NoContinuation
      BY DEF Places
    <3>1. CASE g = h
      BY <1>1, <1>2, <3>1 DEF Core, Places
    <3>2. CASE g # h
      BY <1>2, <3>2 DEF Core, Places
    <3> QED BY <3>1, <3>2
  <2>3. Closing(st, m, Y, rt, z)
    <3>1. \A s \in rt \cup OwnedBy(m) : st[s].life = "alive"
      BY <1>3 DEF Core, Closing
    <3>2. ASSUME NEW s \in Storages
          PROVE  s \in Y \/ s = z <=> /\ st[s].life = "alive"
                                      /\ s \notin rt /\ s \notin OwnedBy(m)
      <4>1. s \in X \/ s = z <=> /\ st[s].life = "alive"
                                 /\ s \notin rt /\ s \notin OwnedBy(hs)
        BY DEF Core, Closing
      <4>2. s \in Y <=> s \in X \/ s \in lost
        BY <1>6
      <4>3. s \in lost <=> s \in hs[h].owns /\ s \notin rt /\ s \notin OwnedBy(m)
        BY <1>0
      <4> HIDE DEF lost
      <4> QED BY <1>3, <1>4, <4>1, <4>2, <4>3
    <3> QED BY <1>6, <3>1, <3>2 DEF Closing
  <2>4. Continuing(m, K, w)
    <3>1. \A g \in Handlers : Will(hs, K, w, g) => g # h
      BY <1>1, StorageAssumption DEF Core, Will, Continuing
    <3>2. \A g \in Handlers : Will(m, K, w, g) <=> Will(hs, K, w, g)
      <4> SUFFICES ASSUME NEW g \in Handlers PROVE Will(m, K, w, g) <=> Will(hs, K, w, g)
        OBVIOUS
      <4>1. CASE g = h
        BY <1>2, <3>1, <4>1 DEF Will
      <4>2. CASE g # h
        BY <1>2, <4>2 DEF Will
      <4> QED BY <4>1, <4>2
    <3>3. \A g \in Handlers : Will(m, K, w, g) => m[g] = hs[g]
      BY <1>2, <3>1, <3>2
    <3>4. \A g \in Handlers : WillStore(m, K, w, g) <=> WillStore(hs, K, w, g)
      BY <1>2, <3>1, <3>2, <3>3 DEF WillStore
    <3>5. \A g \in Handlers : m[g].at = "bound" <=> hs[g].at = "bound"
      BY <1>1, <1>2
    <3>6. ASSUME NEW g \in Handlers, Will(m, K, w, g), m[g].then.op # "none"
          PROVE  m[g].then.on \in m[g].owns
      BY <3>2, <3>3, <3>6 DEF Core, Continuing
    <3>7. ASSUME NEW g \in Handlers, WillStore(m, K, w, g)
          PROVE  /\ m[g].then.next \in Handlers \ {w}
                 /\ m[m[g].then.next].at = "bound"
                 /\ \A f \in Handlers :
                      WillStore(m, K, w, f) /\ m[f].then.next = m[g].then.next => f = g
      <4>1. WillStore(hs, K, w, g) /\ m[g].then.next = hs[g].then.next
        BY <3>3, <3>4, <3>7 DEF WillStore
      <4>2. /\ hs[g].then.next \in Handlers \ {w} /\ hs[hs[g].then.next].at = "bound"
            /\ \A f \in Handlers :
                 WillStore(hs, K, w, f) /\ hs[f].then.next = hs[g].then.next => f = g
        BY <4>1 DEF Core, Continuing
      <4>3. \A f \in Handlers : WillStore(m, K, w, f) => m[f].then.next = hs[f].then.next
        BY <3>3 DEF WillStore
      <4> QED BY <3>4, <3>5, <4>1, <4>2, <4>3
    <3>8. ASSUME NEW g \in Handlers, m[g].at = "bound", g # w
          PROVE  /\ m[g].then = NoContinuation
                 /\ \E f \in Handlers : WillStore(m, K, w, f) /\ m[f].then.next = g
      <4>1. hs[g].at = "bound" /\ m[g] = hs[g]
        BY <1>1, <1>2, <3>8
      <4>2. PICK f \in Handlers : WillStore(hs, K, w, f) /\ hs[f].then.next = g
        BY <3>8, <4>1 DEF Core, Continuing
      <4>3. WillStore(m, K, w, f) /\ m[f].then.next = g
        BY <3>3, <3>4, <4>2 DEF WillStore
      <4> QED BY <3>8, <4>1, <4>3 DEF Core, Continuing
    <3>9. w # Null => w \in Handlers /\ m[w].at = "bound"
      BY <3>5 DEF Core, Continuing
    <3> QED BY <3>6, <3>7, <3>8, <3>9 DEF Continuing
  <2> QED BY <2>1, <2>2, <2>3, <2>4 DEF Core
<1> QED BY <1>1, <1>2, <1>5, <1>6 DEF m, lost

(***************************************************************************)
(* The destructor of a storage begins, and the storage is dead when it is  *)
(* empty.                                                                  *)
(***************************************************************************)
LEMMA CloseBegins ==
  ASSUME NEW st, NEW hs, NEW K, NEW D, NEW E, NEW X, NEW C, NEW Q, NEW rt, NEW w,
         Core(st, hs, K, D, E, X, C, Q, rt, w, Null), NEW s \in Storages, s \in X
  PROVE  st[s].life = "alive" /\ Core(st, hs, K, D, E, X \ {s}, C, Q, rt, w, s)
<1>1. \A t \in Storages : t # Null
  BY StorageAssumption
<1>2. st[s].life = "alive"
  BY DEF Core, Closing
<1>3. Closing(st, hs, X \ {s}, rt, s)
  BY <1>1 DEF Core, Closing
<1> QED BY <1>2, <1>3 DEF Core

LEMMA CloseEnds ==
  ASSUME NEW st, NEW hs, NEW K, NEW D, NEW E, NEW X, NEW C, NEW Q, NEW rt, NEW w, NEW z,
         Core(st, hs, K, D, E, X, C, Q, rt, w, z), z \in Storages,
         st[z].handler = Null, NEW u, u = [st EXCEPT ![z].life = "dead"], Null \notin X
  PROVE  /\ u[z] = [life |-> "dead", handler |-> Null]
         /\ \A t \in Storages : t # z => u[t] = st[t]
         /\ Core(u, hs, K, D, E, X, C, Q, rt, w, Null)
<1>1. st \in [Storages -> StorageState] /\ st[z] \in StorageState
  BY DEF Core, Typed
<1>2. /\ u \in [Storages -> StorageState] /\ u[z] = [life |-> "dead", handler |-> Null]
      /\ \A t \in Storages : t # z => u[t] = st[t]
  BY <1>1 DEF StorageState
<1>3. \A t \in Storages : u[t].handler = st[t].handler
  BY <1>2
<1>4. Places(st, hs, K, D, E, C, Q) => Places(u, hs, K, D, E, C, Q)
  BY <1>3 DEF Places
<1>5. Slots(u)
  <2>1. Slots(st)
    BY DEF Core
  <2>2. ASSUME NEW t \in Storages, u[t].handler # Null PROVE u[t].life = "alive"
    BY <1>2, <2>1, <2>2 DEF Slots
  <2>3. \A t, v \in Storages : u[t].handler = u[v].handler => t = v \/ u[t].handler = Null
    BY <1>3, <2>1 DEF Slots
  <2> QED BY <2>2, <2>3 DEF Slots
<1>6. Closing(u, hs, X, rt, Null)
  <2>1. /\ z \notin X /\ z \notin rt /\ z \notin OwnedBy(hs)
    BY DEF Core, Closing
  <2>2. rt \subseteq Storages /\ OwnedBy(hs) \subseteq Storages
    BY OwnedStorages DEF Core, Typed
  <2>3. \A s \in rt \cup OwnedBy(hs) : u[s].life = "alive"
    BY <1>2, <2>1, <2>2 DEF Core, Closing
  <2>4. ASSUME NEW s \in Storages
        PROVE  s \in X \/ s = Null <=> /\ u[s].life = "alive"
                                       /\ s \notin rt /\ s \notin OwnedBy(hs)
    <3>1. CASE s = z
      BY <1>2, <2>1, <3>1, StorageAssumption
    <3>2. CASE s # z
      BY <1>2, <3>2, StorageAssumption DEF Core, Closing
    <3> QED BY <3>1, <3>2
  <2> QED BY <2>3, <2>4 DEF Closing
<1> QED BY <1>2, <1>4, <1>5, <1>6 DEF Core, Typed

\* construct and move_construct.
LEMMA Constructed ==
  ASSUME NEW st, NEW hs, NEW K, NEW D, NEW E, NEW X, NEW C, NEW Q, NEW rt, NEW w,
         Core(st, hs, K, D, E, X, C, Q, rt, w, Null),
         NEW s \in Storages, st[s].life = "none"
  PROVE  Core([st EXCEPT ![s].life = "alive"], hs, K, D, E, X, C, Q, rt \cup {s}, w, Null)
<1> DEFINE u == [st EXCEPT ![s].life = "alive"]
<1>1. st \in [Storages -> StorageState] /\ st[s] \in StorageState
  BY DEF Core, Typed
<1>2. /\ u \in [Storages -> StorageState] /\ u[s].life = "alive"
      /\ u[s].handler = st[s].handler /\ \A t \in Storages : t # s => u[t] = st[t]
  BY <1>1 DEF StorageState
<1> HIDE DEF u
<1>3. \A t \in Storages : u[t].handler = st[t].handler
  BY <1>2
<1>4. Places(st, hs, K, D, E, C, Q) => Places(u, hs, K, D, E, C, Q)
  BY <1>3 DEF Places
<1>5. Slots(u)
  <2>1. Slots(st)
    BY DEF Core
  <2>2. ASSUME NEW t \in Storages, u[t].handler # Null PROVE u[t].life = "alive"
    BY <1>2, <2>1, <2>2 DEF Slots
  <2>3. \A t, v \in Storages : u[t].handler = u[v].handler => t = v \/ u[t].handler = Null
    BY <1>3, <2>1 DEF Slots
  <2> QED BY <2>2, <2>3 DEF Slots
<1>6. Closing(u, hs, X, rt \cup {s}, Null)
  <2>1. rt \subseteq Storages /\ OwnedBy(hs) \subseteq Storages
    BY OwnedStorages DEF Core, Typed
  <2>2. s \notin X
    BY DEF Core, Closing
  <2>3. \A t \in (rt \cup {s}) \cup OwnedBy(hs) : u[t].life = "alive"
    BY <1>2, <2>1 DEF Core, Closing
  <2>4. ASSUME NEW t \in Storages
        PROVE  t \in X \/ t = Null <=> /\ u[t].life = "alive"
                                       /\ t \notin rt \cup {s} /\ t \notin OwnedBy(hs)
    <3>1. CASE t = s
      BY <2>2, <3>1, StorageAssumption
    <3>2. CASE t # s
      BY <1>2, <3>2 DEF Core, Closing
    <3> QED BY <3>1, <3>2
  <2> QED BY <2>3, <2>4 DEF Core, Closing
<1>7. Typed(u, hs, rt \cup {s})
  BY <1>2 DEF Core, Typed
<1> QED BY <1>4, <1>5, <1>6, <1>7 DEF Core, u

\* A handler moves from one storage to another that is empty.
LEMMA SlotMoved ==
  ASSUME NEW st, NEW hs, NEW K, NEW D, NEW E, NEW X, NEW C, NEW Q, NEW rt, NEW w, NEW z,
         Core(st, hs, K, D, E, X, C, Q, rt, w, z),
         NEW s \in Storages, NEW from \in Storages, s # from,
         st[s].life = "alive", st[s].handler = Null
  PROVE  Core([st EXCEPT ![s].handler = st[from].handler, ![from].handler = Null],
              hs, K, D, E, X, C, Q, rt, w, z)
<1> DEFINE u == [st EXCEPT ![s].handler = st[from].handler, ![from].handler = Null]
<1>1. st \in [Storages -> StorageState] /\ st[s] \in StorageState /\ st[from] \in StorageState
  BY DEF Core, Typed
<1>2. /\ u \in [Storages -> StorageState] /\ u[s].life = st[s].life
      /\ u[from].life = st[from].life
      /\ u[s].handler = st[from].handler /\ u[from].handler = Null
      /\ \A t \in Storages : t # s /\ t # from => u[t] = st[t]
  BY <1>1 DEF StorageState
<1> HIDE DEF u
<1>3. \A t \in Storages : u[t].life = st[t].life
  BY <1>2
<1>4. Slots(st)
  BY DEF Core
<1>5. \A h \in Handlers : (\E t \in Storages : u[t].handler = h)
                            <=> \E t \in Storages : st[t].handler = h
  <2> SUFFICES ASSUME NEW h \in Handlers
               PROVE  (\E t \in Storages : u[t].handler = h)
                        <=> \E t \in Storages : st[t].handler = h
    OBVIOUS
  <2>1. h # Null
    BY StorageAssumption
  <2>2. ASSUME NEW t \in Storages, u[t].handler = h PROVE \E v \in Storages : st[v].handler = h
    BY <1>2, <2>1, <2>2
  <2>3. ASSUME NEW t \in Storages, st[t].handler = h PROVE \E v \in Storages : u[v].handler = h
    BY <1>2, <2>1, <2>3
  <2> QED BY <2>2, <2>3
<1>6. Places(st, hs, K, D, E, C, Q) => Places(u, hs, K, D, E, C, Q)
  BY <1>5 DEF Places
<1>7. Slots(u)
  <2>1. ASSUME NEW t \in Storages, u[t].handler # Null PROVE u[t].life = "alive"
    BY <1>2, <1>3, <1>4, <2>1 DEF Slots
  <2>2. ASSUME NEW t \in Storages, NEW v \in Storages, u[t].handler = u[v].handler,
               u[t].handler # Null
        PROVE  t = v
    <3>1. t # from /\ v # from
      BY <1>2, <2>2
    <3>2. CASE t = s
      BY <1>2, <1>4, <2>2, <3>1, <3>2 DEF Slots
    <3>3. CASE v = s
      BY <1>2, <1>4, <2>2, <3>1, <3>3 DEF Slots
    <3>4. CASE t # s /\ v # s
      BY <1>2, <1>4, <2>2, <3>1, <3>4 DEF Slots
    <3> QED BY <3>2, <3>3, <3>4
  <2> QED BY <2>1, <2>2 DEF Slots
<1>8. Closing(u, hs, X, rt, z)
  BY <1>3, CloseTheSame, OwnedStorages DEF Core, Typed
<1> QED BY <1>2, <1>6, <1>7, <1>8 DEF Core, Typed, u

\* The program lets go of a storage: somebody else owns it, or it is closed.
LEMMA Dropped ==
  ASSUME NEW st, NEW hs, NEW K, NEW D, NEW E, NEW X, NEW C, NEW Q, NEW rt, NEW w,
         Core(st, hs, K, D, E, X, C, Q, rt, w, Null), NEW s \in Storages, s \in rt
  PROVE  /\ s \notin X
         /\ s \in OwnedBy(hs) => Core(st, hs, K, D, E, X, C, Q, rt \ {s}, w, Null)
         /\ s \notin OwnedBy(hs) /\ Null \notin X =>
              Core(st, hs, K, D, E, X \cup {s}, C, Q, rt \ {s}, w, Null)
<1>1. s \notin X /\ s # Null /\ st[s].life = "alive"
  BY StorageAssumption DEF Core, Closing
<1>2. s \in OwnedBy(hs) => Closing(st, hs, X, rt \ {s}, Null)
  BY DEF Core, Closing
<1>3. s \notin OwnedBy(hs) /\ Null \notin X => Closing(st, hs, X \cup {s}, rt \ {s}, Null)
  BY <1>1 DEF Core, Closing
<1>4. Typed(st, hs, rt \ {s})
  BY DEF Core, Typed
<1> QED BY <1>1, <1>2, <1>3, <1>4 DEF Core

(***************************************************************************)
(* shutdown_service takes all handlers out of their storages.              *)
(***************************************************************************)
LEMMA Chained ==
  ASSUME NEW st, NEW hs, NEW K, NEW D, NEW E, NEW X, NEW C, NEW Q, NEW rt, NEW w, NEW z,
         Core(st, hs, K, D, E, X, C, Q, rt, w, z)
  PROVE  LET u == [s \in Storages |-> [st[s] EXCEPT !.handler = Null]]
             m == [h \in Handlers |->
                     IF hs[h].at = "stored" THEN [hs[h] EXCEPT !.at = "chained"] ELSE hs[h]]
         IN  \A B : (\A h \in Handlers :
                        h \in B <=> h \in C \/ \E s \in Storages : st[s].handler = h) =>
               Core(u, m, K, D, E, X, B, Q, rt, w, z)
<1> DEFINE u == [s \in Storages |-> [st[s] EXCEPT !.handler = Null]]
           m == [h \in Handlers |->
                   IF hs[h].at = "stored" THEN [hs[h] EXCEPT !.at = "chained"] ELSE hs[h]]
<1>1. st \in [Storages -> StorageState] /\ hs \in [Handlers -> HandlerState]
  BY DEF Core, Typed
<1>2. u \in [Storages -> StorageState]
      /\ \A s \in Storages : u[s].life = st[s].life /\ u[s].handler = Null
  BY <1>1 DEF StorageState
<1>3. /\ m \in [Handlers -> HandlerState]
      /\ \A h \in Handlers :
           /\ m[h].at = IF hs[h].at = "stored" THEN "chained" ELSE hs[h].at
           /\ m[h].owns = hs[h].owns /\ m[h].then = hs[h].then
  <2>1. ASSUME NEW h \in Handlers
        PROVE  /\ m[h] \in HandlerState
               /\ m[h].at = IF hs[h].at = "stored" THEN "chained" ELSE hs[h].at
               /\ m[h].owns = hs[h].owns /\ m[h].then = hs[h].then
    <3>1. hs[h] \in HandlerState
      BY <1>1
    <3> QED BY <3>1 DEF HandlerState
  <2>2. m = [h \in Handlers |-> m[h]]
    OBVIOUS
  <2> HIDE DEF m
  <2> QED BY <2>1, <2>2
<1> HIDE DEF u, m
<1>4. OwnedBy(m) = OwnedBy(hs)
  BY <1>3 DEF OwnedBy
<1>5. ASSUME NEW B, \A h \in Handlers : h \in B <=> h \in C \/ \E s \in Storages : st[s].handler = h
      PROVE  Places(u, m, K, D, E, B, Q)
  <2>1. \A h \in Handlers, s \in Storages : u[s].handler # h
    BY <1>2, StorageAssumption
  <2>2. ASSUME NEW h \in Handlers
        PROVE  /\ m[h].at = "dying" <=> h \in D
               /\ m[h].at = "taken" <=> h \in E
               /\ m[h].at = "chained" <=> h \in B
               /\ m[h].at = "queued" <=> h \in Q
               /\ m[h].at # "stored"
               /\ h \in K => h \in D
               /\ m[h].at \in {"unborn", "ended"} => m[h].owns = {}
               /\ m[h].at = "unborn" => m[h].then = NoContinuation
    <3>1. CASE hs[h].at = "stored"
      BY <1>3, <1>5, <3>1 DEF Core, Places
    <3>2. CASE hs[h].at # "stored"
      BY <1>3, <1>5, <3>2 DEF Core, Places
    <3> QED BY <3>1, <3>2
  <2> QED BY <2>1, <2>2 DEF Places
<1>6. Slots(u)
  BY <1>2 DEF Slots
<1>7. Closing(u, m, X, rt, z)
  BY <1>1, <1>2, <1>4, CloseTheSame, OwnedStorages DEF Core, Typed
<1>8. Continuing(m, K, w)
  <2>1. \A g \in Handlers : Will(m, K, w, g) <=> Will(hs, K, w, g)
    BY <1>3 DEF Will
  <2>2. \A g \in Handlers : WillStore(m, K, w, g) <=> WillStore(hs, K, w, g)
    BY <1>3, <2>1 DEF WillStore
  <2>3. \A g \in Handlers : m[g].at = "bound" <=> hs[g].at = "bound"
    BY <1>3
  <2>4. ASSUME NEW g \in Handlers, Will(m, K, w, g), m[g].then.op # "none"
        PROVE  m[g].then.on \in m[g].owns
    BY <1>3, <2>1, <2>4 DEF Core, Continuing
  <2>5. ASSUME NEW g \in Handlers, WillStore(m, K, w, g)
        PROVE  /\ m[g].then.next \in Handlers \ {w}
               /\ m[m[g].then.next].at = "bound"
               /\ \A f \in Handlers :
                    WillStore(m, K, w, f) /\ m[f].then.next = m[g].then.next => f = g
    <3>1. /\ hs[g].then.next \in Handlers \ {w} /\ hs[hs[g].then.next].at = "bound"
          /\ \A f \in Handlers :
               WillStore(hs, K, w, f) /\ hs[f].then.next = hs[g].then.next => f = g
      BY <2>2, <2>5 DEF Core, Continuing
    <3> QED BY <1>3, <2>2, <2>3, <3>1
  <2>6. ASSUME NEW g \in Handlers, m[g].at = "bound", g # w
        PROVE  /\ m[g].then = NoContinuation
               /\ \E f \in Handlers : WillStore(m, K, w, f) /\ m[f].then.next = g
    <3>1. /\ hs[g].then = NoContinuation
          /\ \E f \in Handlers : WillStore(hs, K, w, f) /\ hs[f].then.next = g
      BY <2>3, <2>6 DEF Core, Continuing
    <3> QED BY <1>3, <2>2, <3>1
  <2>7. w # Null => w \in Handlers /\ m[w].at = "bound"
    BY <2>3 DEF Core, Continuing
  <2> QED BY <2>4, <2>5, <2>6, <2>7 DEF Continuing
<1> QED BY <1>2, <1>3, <1>5, <1>6, <1>7, <1>8 DEF Core, Typed, u, m

(***************************************************************************)
(* A handler that the program makes, and with it the handler that it will  *)
(* store, if n is one.                                                     *)
(***************************************************************************)
Makes(hs, m, h, n, rt) ==
  /\ m \in [Handlers -> HandlerState] /\ m[h].at = "bound"
  /\ n # h /\ n \in Handlers \cup {Null}
  /\ n # Null => /\ hs[n].at = "unborn" /\ m[n].at = "bound"
                 /\ m[n].then = NoContinuation /\ m[n].owns \subseteq rt
  /\ \A g \in Handlers : g # h /\ g # n => m[g] = hs[g]
  /\ m[h].owns \subseteq rt
  /\ m[h].then.op # "none" => m[h].then.on \in m[h].owns
  /\ m[h].then.op = "store" <=> n # Null
  /\ n # Null => m[h].then.next = n

LEMMA Made ==
  ASSUME Typed(storage, handler, roots), NEW h \in Handlers, NEW m \in NewHandlers(h)
  PROVE  \E n : Makes(handler, m, h, n, roots)
<1> DEFINE plain(owns) == [at |-> "bound", owns |-> owns, then |-> NoContinuation]
           active(owns, op, on, stored) ==
             [at |-> "bound", owns |-> owns \cup {on},
              then |-> [op |-> op, on |-> on, next |-> stored]]
<1>0. /\ Null \notin Handlers /\ Null \notin Storages /\ roots \subseteq Storages
      /\ handler \in [Handlers -> HandlerState]
  BY StorageAssumption DEF Typed
<1>1. \A owns \in SUBSET roots : plain(owns) \in HandlerState
  BY <1>0 DEF HandlerState, NoContinuation, Continuation
<1>2. \A owns \in SUBSET roots, op \in {"store", "clear", "post"}, on \in roots,
         stored \in Handlers \cup {Null} : active(owns, op, on, stored) \in HandlerState
  BY <1>0 DEF HandlerState, Continuation
<1>3. /\ \A owns : /\ plain(owns).at = "bound" /\ plain(owns).owns = owns
                   /\ plain(owns).then = NoContinuation
      /\ \A owns, op, on, stored :
           /\ active(owns, op, on, stored).at = "bound"
           /\ active(owns, op, on, stored).owns = owns \cup {on}
           /\ active(owns, op, on, stored).then.op = op
           /\ active(owns, op, on, stored).then.on = on
           /\ active(owns, op, on, stored).then.next = stored
      /\ NoContinuation.op = "none"
  BY DEF NoContinuation
<1>4. \/ \E owns \in SUBSET roots : m = [handler EXCEPT ![h] = plain(owns)]
      \/ \E op \in {"clear", "post"}, on \in roots :
           m = [handler EXCEPT ![h] = active({}, op, on, Null)]
      \/ \E owns \in SUBSET roots, on \in roots,
            stored \in {g \in Handlers : g # h /\ handler[g].at = "unborn"} :
           m = [handler EXCEPT ![h] = active(owns, "store", on, stored),
                               ![stored] = plain(owns)]
  BY DEF NewHandlers
<1> HIDE DEF plain, active
<1>5. CASE \E owns \in SUBSET roots : m = [handler EXCEPT ![h] = plain(owns)]
  <2> PICK owns \in SUBSET roots : m = [handler EXCEPT ![h] = plain(owns)]
    BY <1>5
  <2>1. m[h] = plain(owns) /\ \A g \in Handlers : g # h => m[g] = handler[g]
    BY <1>0
  <2>2. m \in [Handlers -> HandlerState]
    BY <1>0, <1>1
  <2>3. Makes(handler, m, h, Null, roots)
    BY <1>0, <1>3, <2>1, <2>2 DEF Makes
  <2> QED BY <2>3
<1>6. CASE \E op \in {"clear", "post"}, on \in roots :
             m = [handler EXCEPT ![h] = active({}, op, on, Null)]
  <2> PICK op \in {"clear", "post"}, on \in roots :
         m = [handler EXCEPT ![h] = active({}, op, on, Null)]
    BY <1>6
  <2>1. m[h] = active({}, op, on, Null) /\ \A g \in Handlers : g # h => m[g] = handler[g]
    BY <1>0
  <2>2. m \in [Handlers -> HandlerState]
    <3>1. active({}, op, on, Null) \in HandlerState
      BY <1>2
    <3> QED BY <1>0, <3>1
  <2>3. /\ m[h].at = "bound" /\ m[h].owns = {on} /\ m[h].then.op = op /\ m[h].then.on = on
    BY <1>3, <2>1
  <2>4. Makes(handler, m, h, Null, roots)
    BY <1>0, <2>1, <2>2, <2>3 DEF Makes
  <2> QED BY <2>4
<1>7. CASE \E owns \in SUBSET roots, on \in roots,
             stored \in {g \in Handlers : g # h /\ handler[g].at = "unborn"} :
             m = [handler EXCEPT ![h] = active(owns, "store", on, stored),
                                 ![stored] = plain(owns)]
  <2> PICK owns \in SUBSET roots, on \in roots,
           stored \in {g \in Handlers : g # h /\ handler[g].at = "unborn"} :
         m = [handler EXCEPT ![h] = active(owns, "store", on, stored),
                             ![stored] = plain(owns)]
    BY <1>7
  <2>0. stored \in Handlers /\ stored # h /\ handler[stored].at = "unborn" /\ stored # Null
    BY <1>0
  <2>1. /\ m[h] = active(owns, "store", on, stored) /\ m[stored] = plain(owns)
        /\ \A g \in Handlers : g # h /\ g # stored => m[g] = handler[g]
    BY <1>0, <2>0
  <2>2. m \in [Handlers -> HandlerState]
    <3>1. active(owns, "store", on, stored) \in HandlerState /\ plain(owns) \in HandlerState
      BY <1>1, <1>2, <2>0
    <3> QED BY <1>0, <2>0, <3>1
  <2>3. /\ m[h].at = "bound" /\ m[h].owns = owns \cup {on} /\ m[h].then.op = "store"
        /\ m[h].then.on = on /\ m[h].then.next = stored
        /\ m[stored].at = "bound" /\ m[stored].owns = owns /\ m[stored].then = NoContinuation
    <3>1. m[h] = active(owns, "store", on, stored) /\ m[stored] = plain(owns)
      BY <2>1
    <3>2. /\ plain(owns).at = "bound" /\ plain(owns).owns = owns
          /\ plain(owns).then = NoContinuation
      BY <1>3
    <3>3. /\ active(owns, "store", on, stored).at = "bound"
          /\ active(owns, "store", on, stored).owns = owns \cup {on}
          /\ active(owns, "store", on, stored).then.op = "store"
          /\ active(owns, "store", on, stored).then.on = on
          /\ active(owns, "store", on, stored).then.next = stored
      BY <1>3
    <3> QED BY <3>1, <3>2, <3>3
  <2>4. Makes(handler, m, h, stored, roots)
    BY <2>0, <2>1, <2>2, <2>3 DEF Makes
  <2> QED BY <2>4
<1> QED BY <1>4, <1>5, <1>6, <1>7

\* The new handler is in hand.
LEMMA Born ==
  ASSUME NEW st, NEW hs, NEW K, NEW D, NEW E, NEW X, NEW C, NEW Q, NEW rt,
         Core(st, hs, K, D, E, X, C, Q, rt, Null, Null),
         NEW h \in Handlers, hs[h].at = "unborn", NEW m, NEW n, Makes(hs, m, h, n, rt)
  PROVE  Core(st, m, K, D, E, X, C, Q, rt, h, Null)
<1>0. /\ Null \notin Handlers /\ Typed(st, hs, rt) /\ Places(st, hs, K, D, E, C, Q)
      /\ Slots(st) /\ Closing(st, hs, X, rt, Null) /\ Continuing(hs, K, Null)
      /\ NoContinuation.op = "none"
  BY StorageAssumption DEF Core, NoContinuation
<1>1. Typed(st, m, rt)
  BY <1>0 DEF Typed, Makes
<1>2. \A g \in Handlers : m[g] # hs[g] =>
        hs[g].at = "unborn" /\ m[g].at = "bound" /\ (g = h \/ g = n)
  BY <1>0 DEF Makes
<1>3. Places(st, m, K, D, E, C, Q)
  <2> SUFFICES ASSUME NEW g \in Handlers
               PROVE  /\ m[g].at = "dying" <=> g \in D
                      /\ m[g].at = "taken" <=> g \in E
                      /\ m[g].at = "chained" <=> g \in C
                      /\ m[g].at = "queued" <=> g \in Q
                      /\ m[g].at = "stored" <=> \E s \in Storages : st[s].handler = g
                      /\ g \in K => g \in D
                      /\ m[g].at \in {"unborn", "ended"} => m[g].owns = {}
                      /\ m[g].at = "unborn" => m[g].then = NoContinuation
    BY DEF Places
  <2>1. CASE m[g] = hs[g]
    BY <1>0, <2>1 DEF Places
  <2>2. CASE m[g] # hs[g]
    <3>1. hs[g].at = "unborn" /\ m[g].at = "bound"
      BY <1>2, <2>2
    <3>2. /\ g \notin D /\ g \notin E /\ g \notin C /\ g \notin Q /\ g \notin K
          /\ ~ \E s \in Storages : st[s].handler = g
      BY <1>0, <3>1 DEF Places
    <3> QED BY <3>1, <3>2
  <2> QED BY <2>1, <2>2
<1>4. /\ \A s : s \in OwnedBy(m) => s \in OwnedBy(hs) \/ s \in rt
      /\ \A s : s \in OwnedBy(hs) => s \in OwnedBy(m)
  <2>1. \A g \in Handlers : m[g].owns \subseteq rt \/ m[g] = hs[g]
    BY <1>0 DEF Makes
  <2>2. \A g \in Handlers : m[g] = hs[g] \/ hs[g].owns = {}
    BY <1>0, <1>2 DEF Places
  <2> QED BY <2>1, <2>2, Owners
<1>5. Closing(st, m, X, rt, Null)
  <2>1. \A s \in Storages : s \in X \/ s = Null <=> /\ st[s].life = "alive"
                                /\ s \notin rt /\ s \notin OwnedBy(m)
    BY <1>0, <1>4 DEF Closing
  <2>2. \A s \in rt \cup OwnedBy(m) : st[s].life = "alive"
    BY <1>0, <1>4 DEF Closing
  <2> QED BY <1>0, <2>1, <2>2 DEF Closing
<1>6. h \notin K
  BY <1>0 DEF Places
<1>7. \A g \in Handlers : Will(m, K, h, g) <=> Will(hs, K, Null, g) \/ g = h
  <2> SUFFICES ASSUME NEW g \in Handlers
               PROVE  Will(m, K, h, g) <=> Will(hs, K, Null, g) \/ g = h
    OBVIOUS
  <2>1. CASE m[g] = hs[g]
    BY <1>0, <2>1 DEF Will
  <2>2. CASE m[g] # hs[g]
    <3>1. hs[g].at = "unborn" /\ m[g].at = "bound" /\ g # Null
      BY <1>0, <1>2, <2>2
    <3> QED BY <1>0, <3>1 DEF Will
  <2> QED BY <2>1, <2>2
<1>8. ~Will(hs, K, Null, h)
  BY <1>0, <1>6 DEF Will
<1>9. \A g \in Handlers : Will(hs, K, Null, g) => m[g] = hs[g]
  <2> SUFFICES ASSUME NEW g \in Handlers, Will(hs, K, Null, g), m[g] # hs[g] PROVE FALSE
    OBVIOUS
  <2>1. hs[g].at = "unborn" /\ g # Null
    BY <1>0, <1>2
  <2>2. g \in K
    BY <2>1 DEF Will
  <2> QED BY <1>0, <2>1, <2>2 DEF Places
<1>10. \A g \in Handlers : WillStore(m, K, h, g) <=>
                             WillStore(hs, K, Null, g) \/ (g = h /\ n # Null)
  <2> SUFFICES ASSUME NEW g \in Handlers
               PROVE  WillStore(m, K, h, g) <=>
                        WillStore(hs, K, Null, g) \/ (g = h /\ n # Null)
    OBVIOUS
  <2>1. CASE g = h
    BY <1>7, <1>8, <2>1 DEF WillStore, Makes
  <2>2. CASE g # h
    BY <1>7, <1>9, <2>2 DEF WillStore
  <2> QED BY <2>1, <2>2
<1>11. \A g \in Handlers : WillStore(hs, K, Null, g) =>
          /\ hs[g].then.next \in Handlers /\ hs[hs[g].then.next].at = "bound"
          /\ hs[g].then.next # h /\ hs[g].then.next # n
          /\ m[g] = hs[g] /\ m[hs[g].then.next] = hs[hs[g].then.next]
  <2> SUFFICES ASSUME NEW g \in Handlers, WillStore(hs, K, Null, g)
               PROVE  /\ hs[g].then.next \in Handlers /\ hs[hs[g].then.next].at = "bound"
                      /\ hs[g].then.next # h /\ hs[g].then.next # n
                      /\ m[g] = hs[g] /\ m[hs[g].then.next] = hs[hs[g].then.next]
    OBVIOUS
  <2> DEFINE x == hs[g].then.next
  <2>1. x \in Handlers /\ hs[x].at = "bound"
    BY <1>0 DEF Continuing
  <2>2. m[g] = hs[g]
    BY <1>9 DEF WillStore
  <2> HIDE DEF x
  <2>3. x # h /\ x # n /\ m[x] = hs[x]
    <3>1. x # h
      BY <2>1
    <3>2. x # n
      BY <1>0, <2>1 DEF Makes
    <3> QED BY <2>1, <3>1, <3>2 DEF Makes
  <2> QED BY <2>1, <2>2, <2>3 DEF x
<1>12. \A g \in Handlers : Will(m, K, h, g) /\ m[g].then.op # "none" =>
          m[g].then.on \in m[g].owns
  <2> SUFFICES ASSUME NEW g \in Handlers, Will(m, K, h, g), m[g].then.op # "none"
               PROVE  m[g].then.on \in m[g].owns
    OBVIOUS
  <2>1. CASE g = h
    BY <2>1 DEF Makes
  <2>2. CASE g # h
    BY <1>0, <1>7, <1>9, <2>2 DEF Continuing
  <2> QED BY <2>1, <2>2
<1>13. \A g \in Handlers : WillStore(m, K, h, g) =>
          /\ m[g].then.next \in Handlers \ {h}
          /\ m[m[g].then.next].at = "bound"
          /\ \A f \in Handlers :
               WillStore(m, K, h, f) /\ m[f].then.next = m[g].then.next => f = g
  <2> SUFFICES ASSUME NEW g \in Handlers, WillStore(m, K, h, g)
               PROVE  /\ m[g].then.next \in Handlers \ {h}
                      /\ m[m[g].then.next].at = "bound"
                      /\ \A f \in Handlers :
                           WillStore(m, K, h, f) /\ m[f].then.next = m[g].then.next => f = g
    OBVIOUS
  <2>1. CASE WillStore(hs, K, Null, g)
    <3>1. m[g] = hs[g] /\ hs[g].then.next # n /\ hs[g].then.next \in Handlers \ {h}
          /\ m[m[g].then.next].at = "bound"
      BY <1>11, <2>1
    <3>2. ASSUME NEW f \in Handlers, WillStore(m, K, h, f), m[f].then.next = m[g].then.next
          PROVE  f = g
      <4>1. CASE WillStore(hs, K, Null, f)
        <5>1. m[f] = hs[f]
          BY <1>11, <4>1
        <5> QED BY <1>0, <2>1, <3>1, <3>2, <4>1, <5>1 DEF Continuing
      <4>2. CASE f = h /\ n # Null
        <5>1. m[f].then.next = n
          BY <4>2 DEF Makes
        <5> QED BY <3>1, <3>2, <5>1
      <4> QED BY <1>10, <3>2, <4>1, <4>2
    <3> QED BY <3>1, <3>2
  <2>2. CASE g = h /\ n # Null
    <3>1. m[g].then.next = n /\ n \in Handlers \ {h} /\ m[n].at = "bound"
      BY <2>2 DEF Makes
    <3>2. ASSUME NEW f \in Handlers, WillStore(m, K, h, f), m[f].then.next = m[g].then.next
          PROVE  f = g
      <4>1. ~WillStore(hs, K, Null, f)
        BY <1>11, <3>1, <3>2
      <4> QED BY <1>10, <2>2, <3>2, <4>1
    <3> QED BY <3>1, <3>2
  <2> QED BY <1>10, <2>1, <2>2
<1>14. \A g \in Handlers : m[g].at = "bound" /\ g # h =>
          /\ m[g].then = NoContinuation
          /\ \E f \in Handlers : WillStore(m, K, h, f) /\ m[f].then.next = g
  <2> SUFFICES ASSUME NEW g \in Handlers, m[g].at = "bound", g # h
               PROVE  /\ m[g].then = NoContinuation
                      /\ \E f \in Handlers : WillStore(m, K, h, f) /\ m[f].then.next = g
    OBVIOUS
  <2>1. CASE g = n
    <3>1. n # Null /\ m[h].then.next = n /\ m[n].then = NoContinuation
      BY <1>0, <2>1 DEF Makes
    <3> QED BY <1>10, <2>1, <3>1
  <2>2. CASE g # n
    <3>1. m[g] = hs[g] /\ g # Null
      BY <1>0, <2>2 DEF Makes
    <3>2. /\ hs[g].then = NoContinuation
          /\ \E f \in Handlers : WillStore(hs, K, Null, f) /\ hs[f].then.next = g
      BY <1>0, <3>1 DEF Continuing
    <3> QED BY <1>10, <1>11, <3>1, <3>2
  <2> QED BY <2>1, <2>2
<1>15. m[h].at = "bound"
  BY DEF Makes
<1>16. Continuing(m, K, h)
  BY <1>12, <1>13, <1>14, <1>15 DEF Continuing
<1> QED BY <1>0, <1>1, <1>3, <1>5, <1>16 DEF Core

-----------------------------------------------------------------------------
(* What shutdown_service collects.  The library's theorems on induction    *)
(* and on recursive functions take an operator as a parameter; here both   *)
(* go through a set of numbers and its least element.                      *)

\* A nonempty set of numbers has a least one.
LEMMA LeastExists ==
  ASSUME NEW S \in SUBSET Nat, S # {}
  PROVE  \E x \in S : \A y \in S : x <= y
<1>1. PICK x \in S : \A y \in S : ~(<<y, x>> \in OpToRel(<, Nat))
  BY NatLessThanWellFounded, WFMin
<1>2. \A y \in S : x <= y
  <2> SUFFICES ASSUME NEW y \in S, y < x PROVE FALSE
    OBVIOUS
  <2>1. <<y, x>> \in Nat \X Nat
    OBVIOUS
  <2>2. <<y, x>> \in OpToRel(<, Nat)
    BY <2>1, Zenon DEF OpToRel
  <2> QED BY <1>1, <2>2
<1> QED BY <1>2

\* So a set that holds 0, and with each number up to n the stored, holds 0..n.
LEMMA UpTo ==
  ASSUME NEW n \in Nat, NEW S, 0 \in S, \A k \in 1..n : k - 1 \in S => k \in S
  PROVE  \A k \in 0..n : k \in S
<1> SUFFICES ASSUME ~ \A k \in 0..n : k \in S PROVE FALSE
  OBVIOUS
<1> DEFINE B == {k \in 0..n : k \notin S}
<1>1. B # {} /\ B \in SUBSET Nat
  OBVIOUS
<1>2. PICK m \in B : \A y \in B : m <= y
  BY <1>1, LeastExists
<1>3. m \in 1..n /\ m \notin S
  OBVIOUS
<1>4. m - 1 \in 0..n /\ ~(m <= m - 1)
  BY <1>3
<1>5. m - 1 \in S
  BY <1>2, <1>4
<1> QED BY <1>3, <1>5

\* h begins with d and goes on as F says.
Follows(h, d, n, F) == h[0] = d /\ \A k \in 1..n : h[k] = F[<<k, h[k - 1]>>]

\* A function on 0..n can be defined by what follows from each value.
LEMMA Recursion ==
  ASSUME NEW D, NEW d \in D, NEW n \in Nat, NEW F \in [(1..n) \X D -> D]
  PROVE  \E h \in [0..n -> D] : Follows(h, d, n, F)
<1> DEFINE S == {m \in 0..n : \E h \in [0..m -> D] :
                   h[0] = d /\ \A k \in 1..m : h[k] = F[<<k, h[k - 1]>>]}
<1>1. 0 \in S
  <2> DEFINE h == [k \in 0..0 |-> d]
  <2>1. h \in [0..0 -> D] /\ h[0] = d /\ \A k \in 1..0 : h[k] = F[<<k, h[k - 1]>>]
    OBVIOUS
  <2> HIDE DEF h
  <2>2. 0 \in 0..n
    OBVIOUS
  <2> QED BY <2>1, <2>2
<1>2. ASSUME NEW m \in 1..n, m - 1 \in S PROVE m \in S
  <2>1. PICK h \in [0..m - 1 -> D] :
          h[0] = d /\ \A k \in 1..m - 1 : h[k] = F[<<k, h[k - 1]>>]
    BY <1>2
  <2> DEFINE g == [k \in 0..m |-> IF k = m THEN F[<<m, h[m - 1]>>] ELSE h[k]]
  <2>2. h[m - 1] \in D
    OBVIOUS
  <2>3. F[<<m, h[m - 1]>>] \in D
    BY <2>2
  <2>4. /\ \A k \in 0..m : k # m => k \in 0..m - 1
        /\ \A k \in 1..m : k # m => k \in 1..m - 1
        /\ \A k \in 1..m : k - 1 \in 0..m - 1 /\ k - 1 # m /\ k - 1 \in 0..m /\ k \in 0..m
        /\ 0 \in 0..m /\ 0 # m
    OBVIOUS
  <2>5. g \in [0..m -> D]
    BY <2>3, <2>4
  <2>6. \A k \in 0..m - 1 : g[k] = h[k]
    BY <2>4
  <2>7. g[0] = d
    BY <2>1, <2>4
  <2>8. ASSUME NEW k \in 1..m PROVE g[k] = F[<<k, g[k - 1]>>]
    <3>1. g[k - 1] = h[k - 1]
      BY <2>4
    <3>2. CASE k = m
      BY <2>4, <3>1, <3>2
    <3>3. CASE k # m
      BY <2>1, <2>4, <3>1, <3>3
    <3> QED BY <3>2, <3>3
  <2> HIDE DEF g
  <2> QED BY <2>5, <2>7, <2>8
<1> HIDE DEF S
<1>3. n \in S
  BY <1>1, <1>2, UpTo
<1> QED BY <1>3 DEF S, Follows

LEMMA Prepended ==
  ASSUME NEW S, NEW q \in Seq(S), NEW x \in S, Distinct(q), x \notin Elements(q)
  PROVE  LET r == <<x>> \o q
         IN  /\ r \in Seq(S) /\ Distinct(r)
             /\ \A y : y \in Elements(r) <=> y = x \/ y \in Elements(q)
<1> DEFINE r == <<x>> \o q
           n == Len(q)
<1>1. /\ r \in Seq(S) /\ n \in Nat /\ DOMAIN q = 1..n /\ DOMAIN r = 1..n + 1
      /\ r[1] = x /\ \A i \in 1..n : r[i + 1] = q[i]
  OBVIOUS
<1> HIDE DEF r, n
<1>2. \A i \in DOMAIN r : i = 1 \/ (i - 1 \in DOMAIN q /\ r[i] = q[i - 1])
  <2> SUFFICES ASSUME NEW i \in DOMAIN r, i # 1 PROVE i - 1 \in DOMAIN q /\ r[i] = q[i - 1]
    OBVIOUS
  <2>1. i - 1 \in 1..n /\ (i - 1) + 1 = i
    BY <1>1
  <2> QED BY <1>1, <2>1
<1>3. Distinct(r)
  <2> SUFFICES ASSUME NEW i \in DOMAIN r, NEW j \in DOMAIN r, r[i] = r[j]
               PROVE  i = j
    BY DEF Distinct
  <2>1. CASE i = 1 /\ j = 1
    BY <2>1
  <2>2. CASE i = 1 /\ j # 1
    BY <1>1, <1>2, <2>2 DEF Elements
  <2>3. CASE i # 1 /\ j = 1
    BY <1>1, <1>2, <2>3 DEF Elements
  <2>4. CASE i # 1 /\ j # 1
    <3>1. i - 1 = j - 1
      BY <1>2, <2>4 DEF Distinct
    <3> QED BY <1>1, <3>1
  <2> QED BY <2>1, <2>2, <2>3, <2>4
<1>4. ASSUME NEW y PROVE y \in Elements(r) <=> y = x \/ y \in Elements(q)
  <2>1. y \in Elements(r) => y = x \/ y \in Elements(q)
    BY <1>1, <1>2 DEF Elements
  <2>2. y = x => y \in Elements(r)
    <3>1. 1 \in DOMAIN r
      BY <1>1
    <3> QED BY <1>1, <3>1 DEF Elements
  <2>3. y \in Elements(q) => y \in Elements(r)
    <3> SUFFICES ASSUME NEW i \in DOMAIN q PROVE q[i] \in Elements(r)
      BY DEF Elements
    <3>1. i + 1 \in DOMAIN r /\ r[i + 1] = q[i]
      BY <1>1
    <3> QED BY <3>1 DEF Elements
  <2> QED BY <2>1, <2>2, <2>3
<1> QED BY <1>1, <1>3, <1>4 DEF r

\* The list of shutdown_service has the handlers of the storages, each once.
LEMMA CollectedHandlers ==
  ASSUME storage \in [Storages -> StorageState], Slots(storage),
         listed \in Seq(Storages), Distinct(listed),
         \A s \in Storages : Slot(s) # Null => s \in Elements(listed)
  PROVE  /\ Collected \in Seq(Handlers) /\ Distinct(Collected)
         /\ \A h \in Handlers :
              h \in Elements(Collected) <=> \E s \in Storages : storage[s].handler = h
<1> DEFINE n == Len(listed)
           D == Seq(Handlers)
           F == [p \in (1..n) \X D |->
                   IF Slot(listed[p[1]]) = Null THEN p[2]
                   ELSE <<Slot(listed[p[1]])>> \o p[2]]
           g == CHOOSE h : h = [k \in 0..n |-> IF k = 0 THEN << >>
                                  ELSE IF Slot(listed[k]) = Null THEN h[k - 1]
                                  ELSE <<Slot(listed[k])>> \o h[k - 1]]
<1>1. n \in Nat /\ DOMAIN listed = 1..n /\ << >> \in D /\ Null \notin Handlers
  BY StorageAssumption
<1>2. \A k \in 1..n : listed[k] \in Storages
  BY <1>1, ElementOfSeq
<1>3. \A k \in 1..n : Slot(listed[k]) \in Handlers \cup {Null}
  BY <1>2 DEF StorageState, Slot
<1>4. F \in [(1..n) \X D -> D]
  <2> SUFFICES ASSUME NEW k \in 1..n, NEW q \in D
               PROVE  (IF Slot(listed[k]) = Null THEN q ELSE <<Slot(listed[k])>> \o q) \in D
    OBVIOUS
  <2>1. CASE Slot(listed[k]) = Null
    BY <2>1
  <2>2. CASE Slot(listed[k]) # Null
    <3>1. Slot(listed[k]) \in Handlers
      BY <1>3, <2>2
    <3> HIDE DEF n
    <3> QED BY <2>2, <3>1
  <2> QED BY <2>1, <2>2
<1>5. \A k \in 1..n, q \in D :
        F[<<k, q>>] = IF Slot(listed[k]) = Null THEN q ELSE <<Slot(listed[k])>> \o q
  OBVIOUS
<1>6. PICK h \in [0..n -> D] : Follows(h, << >>, n, F)
  <2> HIDE DEF F, n, D
  <2> QED BY <1>1, <1>4, Recursion
<1>7. ASSUME NEW k \in 1..n
      PROVE  h[k] = IF Slot(listed[k]) = Null THEN h[k - 1] ELSE <<Slot(listed[k])>> \o h[k - 1]
  <2>1. k - 1 \in 0..n
    BY <1>1
  <2> HIDE DEF n, F, D
  <2>2. h[k - 1] \in D
    BY <1>6, <2>1
  <2> QED BY <1>5, <1>6, <2>2 DEF Follows
<1> HIDE DEF F
<1>8. h = [k \in 0..n |-> IF k = 0 THEN << >>
                          ELSE IF Slot(listed[k]) = Null THEN h[k - 1]
                          ELSE <<Slot(listed[k])>> \o h[k - 1]]
  <2> DEFINE G(k) == IF Slot(listed[k]) = Null THEN h[k - 1]
                     ELSE <<Slot(listed[k])>> \o h[k - 1]
  <2> HIDE DEF n, D
  <2>1. h[0] = << >> /\ \A k \in 1..n : h[k] = G(k)
    BY <1>6, <1>7 DEF Follows
  <2> HIDE DEF G
  <2>2. h = [k \in 0..n |-> IF k = 0 THEN << >> ELSE G(k)]
    BY <1>1, <1>6, <2>1
  <2> QED BY <2>2 DEF G
<1>9. g = [k \in 0..n |-> IF k = 0 THEN << >>
                          ELSE IF Slot(listed[k]) = Null THEN g[k - 1]
                          ELSE <<Slot(listed[k])>> \o g[k - 1]]
  BY <1>8
<1> HIDE DEF g
<1> HIDE DEF n, D
<1>10. g[0] = << >>
  BY <1>1, <1>9
<1>11. ASSUME NEW k \in 1..n
       PROVE  g[k] = IF Slot(listed[k]) = Null THEN g[k - 1]
                     ELSE <<Slot(listed[k])>> \o g[k - 1]
  <2>1. k \in 0..n /\ k # 0
    BY <1>1
  <2> QED BY <1>9, <2>1, Zenon
<1> USE DEF D
<1> DEFINE Good(k) == /\ g[k] \in D /\ Distinct(g[k])
                      /\ \A x : x \in Elements(g[k]) <=>
                                  x # Null /\ \E i \in 1..k : Slot(listed[i]) = x
           S == {k \in 0..n : Good(k)}
<1>12. 0 \in S
  <2>1. DOMAIN g[0] = {}
    BY <1>10
  <2>2. Distinct(g[0]) /\ \A x : x \notin Elements(g[0])
    BY <2>1, Zenon DEF Distinct, Elements
  <2>3. 1..0 = {}
    OBVIOUS
  <2>4. g[0] \in D /\ 0 \in 0..n
    BY <1>1, <1>10
  <2>5. Good(0)
    BY <2>2, <2>3, <2>4, Zenon
  <2> QED BY <2>4, <2>5, Zenon
<1>13. ASSUME NEW k \in 1..n, k - 1 \in S PROVE k \in S
  <2> DEFINE x == Slot(listed[k])
             q == g[k - 1]
  <2>1. Good(k - 1) /\ k - 1 \in 0..n /\ k \in 0..n /\ k \in Nat
    BY <1>13, <1>1
  <2>2. \A i : i \in 1..k <=> i = k \/ i \in 1..k - 1
    BY <2>1
  <2>3. CASE x = Null
    <3>1. g[k] = q
      BY <1>11, <2>3
    <3>2. ASSUME NEW y
          PROVE  y \in Elements(g[k]) <=> y # Null /\ \E i \in 1..k : Slot(listed[i]) = y
      BY <2>1, <2>2, <2>3, <3>1
    <3> QED BY <2>1, <3>1, <3>2
  <2>4. CASE x # Null
    <3>1. x \in Handlers /\ g[k] = <<x>> \o q
      BY <1>3, <1>11, <2>4
    <3>2. x \notin Elements(q)
      <4> SUFFICES ASSUME NEW i \in 1..k - 1, Slot(listed[i]) = x PROVE FALSE
        BY <2>1
      <4>1. i \in 1..n /\ i # k
        BY <1>1
      <4>2. listed[i] \in Storages /\ listed[k] \in Storages
        BY <1>2, <4>1
      <4>3. listed[i] = listed[k]
        BY <2>4, <4>2 DEF Slots, Slot
      <4> QED BY <1>1, <4>1, <4>3 DEF Distinct
    <3>3. q \in Seq(Handlers) /\ Distinct(q)
      BY <2>1
    <3> HIDE DEF q, x
    <3>4. /\ g[k] \in Seq(Handlers) /\ Distinct(g[k])
          /\ \A y : y \in Elements(g[k]) <=> y = x \/ y \in Elements(q)
      BY <3>1, <3>2, <3>3, Prepended
    <3>5. ASSUME NEW y
          PROVE  y \in Elements(g[k]) <=> y # Null /\ \E i \in 1..k : Slot(listed[i]) = y
      <4>1. y \in Elements(q) <=> y # Null /\ \E i \in 1..k - 1 : Slot(listed[i]) = y
        BY <2>1 DEF q
      <4> QED BY <2>2, <2>4, <3>4, <4>1 DEF x
    <3> QED BY <2>1, <3>4, <3>5
  <2> QED BY <2>3, <2>4
<1> HIDE DEF S
<1>14. \A k \in 0..n : k \in S
  <2> HIDE DEF n
  <2> QED BY <1>1, <1>12, <1>13, UpTo
<1>15. Good(n)
  <2>1. n \in 0..n
    BY <1>1
  <2> QED BY <1>14, <2>1, Zenon DEF S
<1>16. Collected = g[n]
  BY DEF Collected, g, n
<1>17. ASSUME NEW x \in Handlers
       PROVE  x \in Elements(Collected) <=> \E s \in Storages : storage[s].handler = x
  <2>1. x \in Elements(Collected) <=> \E i \in 1..n : Slot(listed[i]) = x
    BY <1>1, <1>15, <1>16
  <2>2. \A s \in Storages : storage[s].handler = x => \E i \in 1..n : listed[i] = s
    BY <1>1 DEF Slot, Elements
  <2> QED BY <1>2, <2>1, <2>2 DEF Slot
<1> QED BY <1>15, <1>16, <1>17

\* The pointers of a handler are released after its continuation.
LEMMA ReleasedLast ==
  ASSUME NEW stk, Orderly(stk), stk # << >>, Head(stk).do = "release"
  PROVE  Head(stk).on \notin On(stk, "continue")
<1> SUFFICES ASSUME Head(stk).on \in On(stk, "continue") PROVE FALSE
  OBVIOUS
<1>1. /\ stk \in Seq(Call) /\ Head(stk) = stk[1] /\ 1 \in DOMAIN stk
      /\ DOMAIN stk = 1..Len(stk) /\ Len(stk) \in Nat
  BY DEF Orderly
<1>2. stk[1] = Frame("release", Head(stk).on)
  <2>1. stk[1] \in Call
    BY <1>1, ElementOfSeq
  <2> QED BY <1>1, <2>1 DEF Call, Frame
<1>3. PICK i \in DOMAIN stk : stk[i] = Frame("continue", Head(stk).on)
  BY <1>1, OnStack
<1>4. i + 1 \in DOMAIN stk /\ stk[i + 1] = Frame("release", Head(stk).on)
  BY <1>3, Frames DEF Orderly, Placed
<1>5. i + 1 = 1
  BY <1>1, <1>2, <1>4 DEF Orderly, Distinct
<1> QED BY <1>1, <1>5

-----------------------------------------------------------------------------
(* The operations, with the calls that are to go on. *)

\* Core with what the calls on the stack are about.
Sound(stk, st, hs, C, Q, rt, w) ==
  /\ Orderly(stk)
  /\ Core(st, hs, On(stk, "continue"), On(stk, "release"), On(stk, "enqueue"),
          On(stk, "close"), C, Q, rt, w, Null)

\* No handler goes back, and none ends.
Passes(hs, m) ==
  \A h \in Handlers :
    /\ hs[h].at = "ended" <=> m[h].at = "ended"
    /\ hs[h].at \notin {"unborn", "bound"} => m[h].at \notin {"unborn", "bound"}
    /\ hs[h].at \in {"dying", "ended"} => m[h].at \in {"dying", "ended"}

\* What an operation on a storage leaves, hs being the handlers before it.
Keeps(hs, rest) ==
  /\ Passes(hs, handler')
  /\ \A s \in Storages : storage'[s].life = storage[s].life
  /\ \A do \in {"chain", "queue"} : On(stack', do) = On(rest, do)
  /\ shutdown /\ (\A s \in Storages : storage[s].handler = Null) =>
       /\ On(stack', "enqueue") = On(rest, "enqueue")
       /\ \A s \in Storages : storage'[s].handler = Null

LEMMA MovePasses ==
  ASSUME NEW hs \in [Handlers -> HandlerState], NEW h \in Handlers, NEW at \in Place,
         \/ at \in {"stored", "chained", "taken", "queued"} /\ hs[h].at \notin {"dying", "ended"}
         \/ at = "dying" /\ hs[h].at # "ended"
  PROVE  Passes(hs, Moved(hs, h, at))
<1>1. Moves(hs, Moved(hs, h, at), h, at)
  BY MovedMoves
<1> QED BY <1>1 DEF Moves, Passes

LEMMA Clears ==
  ASSUME NEW C, NEW Q, NEW rest, NEW s \in Storages,
         Sound(rest, storage, handler, C, Q, roots, Null), DoClear(s, rest)
  PROVE  Sound(stack', storage', handler', C, Q, roots, Null) /\ Keeps(handler, rest)
<1> DEFINE K == On(rest, "continue")
           D == On(rest, "release")
           E == On(rest, "enqueue")
           X == On(rest, "close")
           old == Slot(s)
<1>0. /\ Orderly(rest)
      /\ storage \in [Storages -> StorageState] /\ handler \in [Handlers -> HandlerState]
  BY DEF Sound, Core, Typed
<1>1. Core(storage, handler, K, D, E, X, C, Q, roots, Null, Null)
  BY DEF Sound
<1>2. CASE old = Null
  <2>1. storage' = storage /\ handler' = handler /\ stack' = rest
    BY <1>2 DEF DoClear, Become
  <2> QED BY <2>1 DEF Keeps, Passes
<1>3. CASE old # Null
  <2> DEFINE u == [storage EXCEPT ![s].handler = Null]
             m == Moved(handler, old, "dying")
             new == Ending(old) \o rest
  <2>1. storage' = u /\ handler' = m /\ stack' = new
    BY <1>3 DEF DoClear, Become
  <2> HIDE DEF K, D, E, X
  <2>2. old = storage[s].handler
    BY DEF Slot
  <2> HIDE DEF old
  <2>3. /\ old \in Handlers /\ old \notin D /\ old \notin K /\ handler[old].at = "stored"
        /\ Core(u, m, K \cup {old}, D \cup {old}, E, X, C, Q, roots, Null, Null)
    BY <1>1, <1>3, <2>2, EmptyAndDrop
  <2>4. /\ Orderly(new)
        /\ On(new, "continue") = K \cup {old} /\ On(new, "release") = D \cup {old}
        /\ On(new, "enqueue") = E /\ On(new, "close") = X
        /\ On(new, "chain") = On(rest, "chain") /\ On(new, "queue") = On(rest, "queue")
    BY <1>0, <2>3, PushEnding DEF K, D, E, X
  <2>5. Passes(handler, m)
    BY <1>0, <2>3, MovePasses DEF Place
  <2>6. /\ \A t \in Storages : u[t].life = storage[t].life
        /\ \A t \in Storages : storage[t].handler = Null => u[t].handler = Null
    BY <1>0 DEF StorageState
  <2> HIDE DEF u, m, new
  <2>7. Sound(new, u, m, C, Q, roots, Null)
    BY <2>3, <2>4 DEF Sound
  <2> QED BY <2>1, <2>4, <2>5, <2>6, <2>7 DEF Keeps, E
<1> QED BY <1>2, <1>3

LEMMA Posts ==
  ASSUME NEW C, NEW Q, NEW rest, NEW s \in Storages,
         Sound(rest, storage, handler, C, Q, roots, Null), DoPost(s, rest)
  PROVE  Sound(stack', storage', handler', C, Q, roots, Null) /\ Keeps(handler, rest)
<1> DEFINE K == On(rest, "continue")
           D == On(rest, "release")
           E == On(rest, "enqueue")
           X == On(rest, "close")
           old == Slot(s)
<1>0. /\ Orderly(rest)
      /\ storage \in [Storages -> StorageState] /\ handler \in [Handlers -> HandlerState]
  BY DEF Sound, Core, Typed
<1>1. Core(storage, handler, K, D, E, X, C, Q, roots, Null, Null)
  BY DEF Sound
<1>2. CASE old = Null
  <2>1. storage' = storage /\ handler' = handler /\ stack' = rest
    BY <1>2 DEF DoPost, Become
  <2> QED BY <2>1 DEF Keeps, Passes
<1>3. CASE old # Null
  <2> DEFINE u == [storage EXCEPT ![s].handler = Null]
             m == Moved(handler, old, "taken")
             f == Frame("enqueue", old)
             new == <<f>> \o rest
  <2>1. storage' = u /\ handler' = m /\ stack' = new
    BY <1>3 DEF DoPost, Become
  <2> HIDE DEF K, D, E, X
  <2>2. old = storage[s].handler
    BY DEF Slot
  <2> HIDE DEF old
  <2>3. /\ old \in Handlers /\ old \notin E /\ handler[old].at = "stored"
        /\ Core(u, m, K, D, E \cup {old}, X, C, Q, roots, Null, Null)
    BY <1>1, <1>3, <2>2, EmptyAndTake
  <2>4. f \in Call /\ f.do = "enqueue" /\ f.on = old
    BY <2>3, Frames
  <2>5. /\ Orderly(new) /\ On(new, f.do) = On(rest, f.do) \cup {f.on}
        /\ \A do : do # f.do => On(new, do) = On(rest, do)
    <3> HIDE DEF f
    <3> QED BY <1>0, <2>3, <2>4, Push DEF E
  <2>6. /\ On(new, "continue") = K /\ On(new, "release") = D
        /\ On(new, "enqueue") = E \cup {old} /\ On(new, "close") = X
        /\ On(new, "chain") = On(rest, "chain") /\ On(new, "queue") = On(rest, "queue")
    BY <2>4, <2>5 DEF K, D, E, X
  <2>7. Passes(handler, m)
    BY <1>0, <2>3, MovePasses DEF Place
  <2>8. \A t \in Storages : u[t].life = storage[t].life
    BY <1>0 DEF StorageState
  <2> HIDE DEF u, m, new, f
  <2>9. Sound(new, u, m, C, Q, roots, Null)
    BY <2>3, <2>5, <2>6 DEF Sound
  <2>10. ~ \A t \in Storages : storage[t].handler = Null
    BY <1>3, <2>2
  <2> QED BY <2>1, <2>6, <2>7, <2>8, <2>9, <2>10 DEF Keeps
<1> QED BY <1>2, <1>3

LEMMA PassesOn ==
  ASSUME NEW a, NEW b, NEW c, Passes(a, b), Passes(b, c)
  PROVE  Passes(a, c)
BY DEF Passes

\* The handler in hand is stored, or dropped when the io_service is being
\* destroyed.
LEMMA Stores ==
  ASSUME NEW C, NEW Q, NEW rest, NEW s \in Storages, NEW h \in Handlers, NEW hs,
         Sound(rest, storage, hs, C, Q, roots, h), storage[s].life = "alive",
         DoStore(s, h, hs, rest)
  PROVE  /\ Sound(stack', storage', handler', C, Q, roots, Null) /\ Keeps(hs, rest)
         /\ promised' # promised => /\ run = "running" /\ promised' = promised \cup {h}
                                    /\ handler'[h].at = "stored"
<1> DEFINE K == On(rest, "continue")
           D == On(rest, "release")
           E == On(rest, "enqueue")
           X == On(rest, "close")
           old == Slot(s)
           put == [storage EXCEPT ![s].handler = h]
           now == Moved(hs, h, "stored")
<1>0. /\ Orderly(rest) /\ h # Null
      /\ storage \in [Storages -> StorageState] /\ hs \in [Handlers -> HandlerState]
  BY StorageAssumption DEF Sound, Core, Typed
<1>1. Core(storage, hs, K, D, E, X, C, Q, roots, h, Null) /\ h # Null
  BY <1>0 DEF Sound
<1>2. hs[h].at = "bound"
  BY <1>1 DEF Core, Continuing
<1>3. old = storage[s].handler
  BY DEF Slot
<1>4. now \in [Handlers -> HandlerState] /\ now[h].at = "stored"
      /\ \A g \in Handlers : g # h => now[g] = hs[g]
  BY <1>0 DEF Moved, HandlerState
<1>5. Passes(hs, now)
  BY <1>0, <1>2, MovePasses DEF Place
<1>6. CASE shutdown
  <2> DEFINE m == Moved(hs, h, "dying")
             new == Ending(h) \o rest
  <2>1. storage' = storage /\ handler' = m /\ stack' = new /\ promised' = promised
    BY <1>6 DEF DoStore, Become
  <2> HIDE DEF K, D, E, X
  <2>2. /\ h \notin D /\ h \notin K
        /\ Core(storage, m, K \cup {h}, D \cup {h}, E, X, C, Q, roots, Null, Null)
    BY <1>1, DropInHand
  <2>3. /\ Orderly(new)
        /\ On(new, "continue") = K \cup {h} /\ On(new, "release") = D \cup {h}
        /\ On(new, "enqueue") = E /\ On(new, "close") = X
        /\ On(new, "chain") = On(rest, "chain") /\ On(new, "queue") = On(rest, "queue")
    BY <1>0, <2>2, PushEnding DEF K, D, E, X
  <2>4. Passes(hs, m)
    BY <1>0, <1>2, MovePasses DEF Place
  <2> HIDE DEF m, new
  <2>5. Sound(new, storage, m, C, Q, roots, Null)
    BY <2>2, <2>3 DEF Sound
  <2> QED BY <2>1, <2>3, <2>4, <2>5 DEF Keeps, E
<1>7. CASE ~shutdown /\ old = Null
  <2>1. /\ storage' = put /\ handler' = now /\ stack' = rest
        /\ promised' = IF run = "running" THEN promised \cup {h} ELSE promised
    BY <1>7 DEF DoStore, Become
  <2> HIDE DEF K, D, E, X, old
  <2>2. Core(put, now, K, D, E, X, C, Q, roots, Null, Null)
    BY <1>1, <1>3, <1>7, PutInHand
  <2>3. \A t \in Storages : put[t].life = storage[t].life
    BY <1>0 DEF StorageState
  <2> HIDE DEF put, now
  <2>4. Sound(rest, put, now, C, Q, roots, Null)
    BY <1>0, <2>2 DEF Sound, K, D, E, X
  <2> QED BY <1>4, <1>5, <1>7, <2>1, <2>3, <2>4 DEF Keeps
<1>8. CASE ~shutdown /\ old # Null
  <2> DEFINE st1 == [storage EXCEPT ![s].handler = Null]
             hs1 == Moved(hs, old, "dying")
             m == Moved(now, old, "dying")
             K2 == K \cup {old}
             D2 == D \cup {old}
             new == Ending(old) \o rest
  <2>1. /\ storage' = put /\ handler' = m /\ stack' = new
        /\ promised' = IF run = "running" THEN promised \cup {h} ELSE promised
    BY <1>8 DEF DoStore, Become
  <2> HIDE DEF K, D, E, X, old
  <2>2. /\ old \in Handlers /\ old \notin D /\ old \notin K /\ hs[old].at = "stored"
        /\ Core(st1, hs1, K2, D2, E, X, C, Q, roots, h, Null)
    BY <1>1, <1>3, <1>8, EmptyAndDrop
  <2>3. /\ st1[s].handler = Null /\ st1[s].life = "alive"
        /\ [st1 EXCEPT ![s].handler = h] = put
    BY <1>0 DEF StorageState
  <2>4. old # h
    BY <1>2, <2>2
  <2>5. Moved(hs1, h, "stored") = m
    <3>1. DOMAIN hs = Handlers
      BY <1>0
    <3> QED BY <2>2, <2>4, <3>1 DEF Moved
  <2> HIDE DEF K2, D2, hs1, st1
  <2>6. Core([st1 EXCEPT ![s].handler = h], Moved(hs1, h, "stored"), K2, D2, E, X, C, Q,
             roots, Null, Null)
    BY <1>1, <2>2, <2>3, PutInHand
  <2>7. /\ Orderly(new)
        /\ On(new, "continue") = K2 /\ On(new, "release") = D2
        /\ On(new, "enqueue") = E /\ On(new, "close") = X
        /\ On(new, "chain") = On(rest, "chain") /\ On(new, "queue") = On(rest, "queue")
    BY <1>0, <2>2, PushEnding DEF K, D, E, X, K2, D2
  <2>8. Passes(hs, m)
    <3> HIDE DEF now
    <3>1. now[old].at = "stored"
      BY <1>4, <2>2, <2>4
    <3>2. Passes(now, m)
      BY <1>4, <2>2, <3>1, MovePasses DEF Place
    <3> QED BY <1>5, <3>2, PassesOn
  <2>9. m[h].at = "stored"
    <3> HIDE DEF now
    <3> QED BY <1>4, <2>2, <2>4 DEF Moved
  <2>10. \A t \in Storages : put[t].life = storage[t].life
    BY <1>0 DEF StorageState
  <2> HIDE DEF put, now, m, new
  <2>11. Sound(new, put, m, C, Q, roots, Null)
    BY <2>3, <2>5, <2>6, <2>7 DEF Sound
  <2> QED BY <1>8, <2>1, <2>7, <2>8, <2>9, <2>10, <2>11 DEF Keeps
<1> QED BY <1>6, <1>7, <1>8

-----------------------------------------------------------------------------
(* What every step has to show. *)

LEMMA Whole ==
  ASSUME IInv
  PROVE  /\ TypeOK /\ ListInv /\ ShutdownInv /\ EndsInv /\ PromiseInv
         /\ Sound(stack, storage, handler, Elements(chain), Elements(queue), roots, Null)
         /\ Distinct(chain) /\ Distinct(queue)
BY DEF IInv, CoreInv, Sound

\* The types of what Core is about, and Core itself.
LEMMA StaysSound ==
  ASSUME Sound(stack', storage', handler', Elements(chain'), Elements(queue'), roots', Null),
         Distinct(chain'), Distinct(queue')
  PROVE  /\ CoreInv'
         /\ storage' \in [Storages -> StorageState] /\ handler' \in [Handlers -> HandlerState]
         /\ stack' \in Seq(Call) /\ roots' \subseteq Storages
<1>1. CoreInv'
  BY DEF Sound, CoreInv
<1>2. /\ storage' \in [Storages -> StorageState] /\ handler' \in [Handlers -> HandlerState]
      /\ stack' \in Seq(Call) /\ roots' \subseteq Storages
  BY DEF Sound, Core, Typed, Orderly
<1> QED BY <1>1, <1>2

\* The history, when no handler goes back or ends.
LEMMA Histories ==
  ASSUME TypeOK, EndsInv, PromiseInv, Passes(handler, handler'), run' = run, ends' = ends,
         \/ promised' = promised
         \/ /\ run = "running"
            /\ \E h \in Handlers : promised' = promised \cup {h} /\ handler'[h].at = "stored"
  PROVE  EndsInv' /\ PromiseInv' /\ promised' \subseteq Handlers
<1>1. EndsInv'
  BY DEF EndsInv, Passes
<1>2. promised' \subseteq Handlers
  BY DEF TypeOK
<1>3. ASSUME NEW h \in promised' PROVE handler'[h].at \notin {"unborn", "bound"}
  <2>1. h \in Handlers
    BY <1>2
  <2>2. h \in promised \/ handler'[h].at = "stored"
    OBVIOUS
  <2> QED BY <2>1, <2>2 DEF PromiseInv, Passes
<1>4. ASSUME NEW h \in promised', run' = "returned" PROVE handler'[h].at \in {"dying", "ended"}
  <2>1. h \in promised /\ h \in Handlers
    BY <1>2, <1>4
  <2> QED BY <1>4, <2>1 DEF PromiseInv, Passes
<1>5. PromiseInv'
  BY <1>3, <1>4 DEF PromiseInv
<1> QED BY <1>1, <1>2, <1>5

\* A step that is one operation on a storage.
LEMMA Operated ==
  ASSUME IInv, run # "gone", NEW rest,
         Sound(stack', storage', handler', Elements(chain), Elements(queue), roots, Null),
         Keeps(handler, rest),
         \A do \in {"chain", "queue", "enqueue"} : On(rest, do) = On(stack, do),
         UNCHANGED <<listed, shutdown, chain, queue, roots, run, ends>>,
         \/ promised' = promised
         \/ /\ run = "running"
            /\ \E h \in Handlers : promised' = promised \cup {h} /\ handler'[h].at = "stored"
  PROVE  IInv'
<1>1. /\ TypeOK /\ ListInv /\ ShutdownInv /\ EndsInv /\ PromiseInv
      /\ Distinct(chain) /\ Distinct(queue)
  BY Whole
<1>2. /\ CoreInv'
      /\ storage' \in [Storages -> StorageState] /\ handler' \in [Handlers -> HandlerState]
      /\ stack' \in Seq(Call) /\ roots' \subseteq Storages
  <2>1. chain' = chain /\ queue' = queue /\ roots' = roots
    OBVIOUS
  <2> QED BY <1>1, <2>1, StaysSound
<1>3. EndsInv' /\ PromiseInv' /\ promised' \subseteq Handlers
  BY <1>1, Histories DEF Keeps
<1>4. TypeOK'
  BY <1>1, <1>2, <1>3 DEF TypeOK
<1>5. ListInv'
  <2>1. \A s \in Storages : Alive(s)' <=> Alive(s)
    BY DEF Keeps, Alive
  <2> QED BY <1>1, <2>1 DEF ListInv
<1>6. ShutdownInv'
  <2>1. /\ On(stack', "chain") = On(stack, "chain") /\ On(stack', "queue") = On(stack, "queue")
        /\ shutdown => /\ \A s \in Storages : storage'[s].handler = Null
                       /\ On(stack', "enqueue") = {}
    BY <1>1 DEF Keeps, ShutdownInv, Slot
  <2>2. shutdown' = shutdown /\ run' = run /\ roots' = roots /\ chain' = chain
    OBVIOUS
  <2> QED BY <1>1, <2>1, <2>2 DEF ShutdownInv, Slot
<1> QED BY <1>2, <1>3, <1>4, <1>5, <1>6 DEF IInv

\* A step of the program is taken on an empty stack.
LEMMA Idles ==
  ASSUME IInv, Idle
  PROVE  /\ stack = << >> /\ ~shutdown /\ run # "gone" /\ chain = << >>
         /\ Orderly(stack) /\ \A do : On(stack, do) = {}
<1>1. Orderly(stack) /\ \A do : On(stack, do) = {}
  BY EmptyStack DEF Idle
<1> QED BY <1>1, Whole DEF Idle, ShutdownInv

\* The call on top of the stack is made.
LEMMA Calling ==
  ASSUME IInv, NEW do, Running(do)
  PROVE  /\ Orderly(stack) /\ stack # << >> /\ Head(stack).do = do /\ run # "gone"
         /\ Orderly(Tail(stack)) /\ Subject \in On(stack, do)
         /\ On(Tail(stack), do) = On(stack, do) \ {Subject}
         /\ \A e : e # do => On(Tail(stack), e) = On(stack, e)
<1>1. Orderly(stack) /\ stack # << >> /\ Head(stack).do = do
  BY Whole DEF Running, Sound
<1>2. run # "gone"
  BY <1>1, Whole DEF ShutdownInv
<1>3. /\ Orderly(Tail(stack)) /\ Subject \in On(stack, do)
      /\ On(Tail(stack), do) = On(stack, do) \ {Subject}
      /\ \A e : e # do => On(Tail(stack), e) = On(stack, e)
  BY <1>1, Pop DEF Subject
<1> QED BY <1>1, <1>2, <1>3

-----------------------------------------------------------------------------
(* The steps. *)

LEMMA ContinueStep ==
  ASSUME IInv, Continue
  PROVE  IInv'
<1> DEFINE h == Subject
           rest == Tail(stack)
           c == handler[h].then
           C == Elements(chain)
           Q == Elements(queue)
           K == On(stack, "continue")
           stored == IF c.op = "store" THEN c.next ELSE Null
<1>1. Running("continue")
  BY DEF Continue
<1>2. /\ Orderly(stack) /\ run # "gone" /\ Orderly(rest) /\ h \in K
      /\ On(rest, "continue") = K \ {h}
      /\ \A do : do # "continue" => On(rest, do) = On(stack, do)
  BY <1>1, Calling
<1>3. h \in Handlers
  BY <1>2, ContinueReleases
<1>4. Core(storage, handler, K, On(stack, "release"), On(stack, "enqueue"),
           On(stack, "close"), C, Q, roots, Null, Null)
  BY Whole DEF Sound
<1>5. UNCHANGED <<listed, shutdown, chain, queue, roots, run, ends>>
  BY DEF Continue
<1>6. /\ \/ c.op = "none" /\ Become(storage, handler, rest) /\ UNCHANGED promised
         \/ c.op = "store" /\ DoStore(c.on, c.next, handler, rest)
         \/ c.op = "clear" /\ DoClear(c.on, rest) /\ UNCHANGED promised
         \/ c.op = "post" /\ DoPost(c.on, rest) /\ UNCHANGED promised
  <2>1. handler[h].then.op \in {"none", "store", "clear", "post"}
    BY <1>3, Whole DEF TypeOK, HandlerState, Continuation
  <2> QED BY <2>1 DEF Continue
<1> HIDE DEF h, rest, c, C, Q, K
<1>7. /\ c.op # "none" => c.on \in Storages /\ storage[c.on].life = "alive"
      /\ c.op = "store" => c.next \in Handlers
      /\ Core(storage, handler, K \ {h}, On(stack, "release"), On(stack, "enqueue"),
              On(stack, "close"), C, Q, roots, stored, Null)
  BY <1>2, <1>3, <1>4, Continued DEF c
<1> HIDE DEF stored
<1>8. Sound(rest, storage, handler, C, Q, roots, stored)
  BY <1>2, <1>7 DEF Sound
<1>9. \A do \in {"chain", "queue", "enqueue"} : On(rest, do) = On(stack, do)
  BY <1>2
<1>10. /\ Sound(stack', storage', handler', C, Q, roots, Null) /\ Keeps(handler, rest)
       /\ \/ promised' = promised
          \/ /\ run = "running"
             /\ \E g \in Handlers : promised' = promised \cup {g} /\ handler'[g].at = "stored"
  <2>1. CASE c.op = "none" /\ Become(storage, handler, rest) /\ UNCHANGED promised
    <3>1. stored = Null
      BY <2>1 DEF stored
    <3>2. storage' = storage /\ handler' = handler /\ stack' = rest
      BY <2>1 DEF Become
    <3> QED BY <1>8, <2>1, <3>1, <3>2 DEF Keeps, Passes
  <2>2. CASE c.op = "store" /\ DoStore(c.on, c.next, handler, rest)
    <3>1. stored = c.next
      BY <2>2 DEF stored
    <3>2. /\ c.on \in Storages /\ storage[c.on].life = "alive" /\ c.next \in Handlers
          /\ Sound(rest, storage, handler, C, Q, roots, c.next)
      BY <1>7, <1>8, <2>2, <3>1
    <3>3. /\ Sound(stack', storage', handler', C, Q, roots, Null) /\ Keeps(handler, rest)
          /\ promised' # promised => /\ run = "running" /\ promised' = promised \cup {c.next}
                                     /\ handler'[c.next].at = "stored"
      BY <2>2, <3>2, Stores
    <3> QED BY <3>2, <3>3
  <2>3. CASE c.op = "clear" /\ DoClear(c.on, rest) /\ UNCHANGED promised
    <3>1. stored = Null
      BY <2>3 DEF stored
    <3> QED BY <1>7, <1>8, <2>3, <3>1, Clears
  <2>4. CASE c.op = "post" /\ DoPost(c.on, rest) /\ UNCHANGED promised
    <3>1. stored = Null
      BY <2>4 DEF stored
    <3> QED BY <1>7, <1>8, <2>4, <3>1, Posts
  <2> QED BY <1>6, <2>1, <2>2, <2>3, <2>4
<1> QED BY <1>2, <1>5, <1>9, <1>10, Operated DEF C, Q

LEMMA StoreHandlerStep ==
  ASSUME IInv, NEW s \in Storages, NEW h \in Handlers, StoreHandler(s, h)
  PROVE  IInv'
<1> DEFINE C == Elements(chain)
           Q == Elements(queue)
<1>1. Idle /\ s \in roots /\ handler[h].at = "unborn"
  BY DEF StoreHandler
<1>2. /\ stack = << >> /\ ~shutdown /\ run # "gone" /\ Orderly(stack)
      /\ \A do : On(stack, do) = {}
  BY <1>1, Idles
<1>3. PICK hs \in NewHandlers(h) :
        \/ DoStore(s, h, hs, << >>)
        \/ Become(storage, Moved(hs, h, "dying"), Ending(h)) /\ UNCHANGED promised
  BY DEF StoreHandler
<1>4. UNCHANGED <<listed, shutdown, chain, queue, roots, run, ends>>
  BY DEF StoreHandler
<1>5. /\ Core(storage, handler, On(stack, "continue"), On(stack, "release"),
              On(stack, "enqueue"), On(stack, "close"), C, Q, roots, Null, Null)
  BY Whole DEF Sound
<1>6. Typed(storage, handler, roots)
  BY <1>5 DEF Core
<1>7. PICK n : Makes(handler, hs, h, n, roots)
  BY <1>6, Made
<1> HIDE DEF C, Q
<1>8. Core(storage, hs, On(stack, "continue"), On(stack, "release"),
           On(stack, "enqueue"), On(stack, "close"), C, Q, roots, h, Null)
  BY <1>1, <1>5, <1>7, Born
<1>9. Sound(<< >>, storage, hs, C, Q, roots, h)
  BY <1>2, <1>8 DEF Sound
<1>10. hs \in [Handlers -> HandlerState] /\ hs[h].at = "bound"
  BY <1>7 DEF Makes
<1>11. Passes(handler, hs)
  <2>1. n \in Handlers => hs[n].at = "bound" /\ handler[n].at = "unborn"
    BY <1>7, StorageAssumption DEF Makes
  <2>2. \A g \in Handlers : g # h /\ g # n => hs[g] = handler[g]
    BY <1>7 DEF Makes
  <2> QED BY <1>1, <1>10, <2>1, <2>2 DEF Passes
<1>12. storage[s].life = "alive"
  BY <1>1, <1>5 DEF Core, Closing
<1>13. /\ Sound(stack', storage', handler', C, Q, roots, Null) /\ Keeps(hs, << >>)
       /\ \/ promised' = promised
          \/ /\ run = "running"
             /\ \E g \in Handlers : promised' = promised \cup {g} /\ handler'[g].at = "stored"
  <2>1. CASE DoStore(s, h, hs, << >>)
    <3>1. /\ Sound(stack', storage', handler', C, Q, roots, Null) /\ Keeps(hs, << >>)
          /\ promised' # promised => /\ run = "running" /\ promised' = promised \cup {h}
                                     /\ handler'[h].at = "stored"
      BY <1>9, <1>12, <2>1, Stores
    <3> QED BY <3>1
  <2>2. CASE Become(storage, Moved(hs, h, "dying"), Ending(h)) /\ UNCHANGED promised
    <3> DEFINE K == On(stack, "continue")
               D == On(stack, "release")
               K2 == K \cup {h}
               D2 == D \cup {h}
               m == Moved(hs, h, "dying")
    <3>1. h # Null
      BY StorageAssumption
    <3>2. /\ h \notin K /\ h \notin D
          /\ Core(storage, m, K2, D2, On(stack, "enqueue"), On(stack, "close"), C, Q,
                  roots, Null, Null)
      BY <1>8, <3>1, DropInHand
    <3>3. Ending(h) \o << >> = Ending(h)
      BY DEF Ending
    <3>4. /\ Orderly(Ending(h) \o stack)
          /\ On(Ending(h) \o stack, "continue") = K2 /\ On(Ending(h) \o stack, "release") = D2
          /\ \A do \in {"enqueue", "close", "chain", "queue"} :
               On(Ending(h) \o stack, do) = On(stack, do)
      <4>1. Orderly(stack)
        BY <1>2
      <4>2. h \notin On(stack, "continue") /\ h \notin On(stack, "release")
        BY <3>2
      <4> QED BY <4>1, <4>2, PushEnding
    <3>5. storage' = storage /\ handler' = m /\ stack' = Ending(h) \o stack
      BY <1>2, <2>2, <3>3 DEF Become
    <3>6. Passes(hs, m)
      BY <1>10, MovePasses DEF Place
    <3> HIDE DEF K, D, K2, D2, m
    <3>7. Sound(stack', storage', handler', C, Q, roots, Null)
      BY <3>2, <3>4, <3>5 DEF Sound
    <3>8. Keeps(hs, << >>)
      BY <1>2, <3>4, <3>5, <3>6 DEF Keeps
    <3> QED BY <2>2, <3>7, <3>8
  <2> QED BY <1>3, <2>1, <2>2
<1>14. Keeps(handler, << >>)
  <2>1. Passes(handler, handler')
    BY <1>11, <1>13, PassesOn DEF Keeps
  <2> QED BY <1>13, <2>1 DEF Keeps
<1> QED BY <1>2, <1>4, <1>13, <1>14, Operated DEF C, Q

LEMMA ClearStorageStep ==
  ASSUME IInv, NEW s \in Storages, ClearStorage(s)
  PROVE  IInv'
<1>1. /\ Idle /\ DoClear(s, << >>)
      /\ UNCHANGED <<listed, shutdown, chain, queue, roots, run, promised, ends>>
  BY DEF ClearStorage
<1>2. /\ stack = << >> /\ run # "gone"
      /\ Sound(<< >>, storage, handler, Elements(chain), Elements(queue), roots, Null)
  BY <1>1, Idles, Whole
<1>3. /\ Sound(stack', storage', handler', Elements(chain), Elements(queue), roots, Null)
      /\ Keeps(handler, << >>)
  BY <1>1, <1>2, Clears
<1> QED BY <1>1, <1>2, <1>3, Operated

LEMMA PostStoredStep ==
  ASSUME IInv, NEW s \in Storages, PostStored(s)
  PROVE  IInv'
<1>1. /\ Idle /\ DoPost(s, << >>)
      /\ UNCHANGED <<listed, shutdown, chain, queue, roots, run, promised, ends>>
  BY DEF PostStored
<1>2. /\ stack = << >> /\ run # "gone"
      /\ Sound(<< >>, storage, handler, Elements(chain), Elements(queue), roots, Null)
  BY <1>1, Idles, Whole
<1>3. /\ Sound(stack', storage', handler', Elements(chain), Elements(queue), roots, Null)
      /\ Keeps(handler, << >>)
  BY <1>1, <1>2, Posts
<1> QED BY <1>1, <1>2, <1>3, Operated

LEMMA ReleaseStep ==
  ASSUME IInv, Release
  PROVE  IInv'
<1> DEFINE h == Subject
           rest == Tail(stack)
           C == Elements(chain)
           Q == Elements(queue)
           K == On(stack, "continue")
           D == On(stack, "release")
           E == On(stack, "enqueue")
           X == On(stack, "close")
           m == Freed(handler, h)
           lost == Lost(handler, h, roots)
<1>1. /\ Running("release") /\ handler' = m /\ ends' = [ends EXCEPT ![h] = @ + 1]
      /\ \E order \in Seqs!SetToSeqs(lost) :
           stack' = [i \in DOMAIN order |-> Frame("close", order[i])] \o rest
      /\ UNCHANGED <<storage, listed, shutdown, chain, queue, roots, run, promised>>
  BY DEF Release, Freed, Lost
<1>2. /\ Orderly(stack) /\ run # "gone" /\ Orderly(rest) /\ h \in D
      /\ On(rest, "release") = D \ {h}
      /\ \A do : do # "release" => On(rest, do) = On(stack, do)
      /\ stack # << >> /\ Head(stack).do = "release"
  BY <1>1, Calling
<1>3. h \in Handlers /\ h \notin K
  BY <1>2, TopFrame, ReleasedLast DEF Subject
<1>4. Core(storage, handler, K, D, E, X, C, Q, roots, Null, Null)
  BY Whole DEF Sound
<1>5. /\ TypeOK /\ ListInv /\ ShutdownInv /\ EndsInv /\ PromiseInv
      /\ Distinct(chain) /\ Distinct(queue)
  BY Whole
<1> HIDE DEF h, rest, C, Q, K, D, E, X
<1>6. /\ lost \subseteq Storages /\ lost \cap X = {} /\ handler[h].at = "dying"
      /\ m[h].at = "ended" /\ \A g \in Handlers : g # h => m[g] = handler[g]
      /\ m \in [Handlers -> HandlerState]
      /\ \A Y : (\A s \in Storages : s \in Y <=> s \in X \/ s \in lost) /\ Null \notin Y =>
           Core(storage, m, K, D \ {h}, E, Y, C, Q, roots, Null, Null)
  BY <1>2, <1>3, <1>4, Released
<1> HIDE DEF m, lost
<1>7. PICK order \in Seqs!SetToSeqs(lost) :
        stack' = [i \in DOMAIN order |-> Frame("close", order[i])] \o rest
  BY <1>1
<1>8. /\ order \in Seq(Storages) /\ Distinct(order)
      /\ \A s : s \in lost <=> \E i \in DOMAIN order : order[i] = s
  BY <1>6, Ordered
<1>9. \A i \in DOMAIN order : order[i] \notin On(rest, "close")
  BY <1>2, <1>6, <1>8 DEF X
<1>10. /\ Orderly(stack')
       /\ \A s : s \in On(stack', "close") <=> s \in X \/ s \in lost
       /\ \A do : do # "close" => On(stack', do) = On(rest, do)
  <2> DEFINE new == [i \in DOMAIN order |-> Frame("close", order[i])] \o rest
  <2>1. /\ Orderly(new)
        /\ \A s : s \in On(new, "close")
                    <=> s \in On(rest, "close") \/ \E i \in DOMAIN order : order[i] = s
        /\ \A do : do # "close" => On(new, do) = On(rest, do)
    BY <1>2, <1>8, <1>9, PushCloses
  <2> HIDE DEF new
  <2>2. stack' = new
    BY <1>7 DEF new
  <2>3. On(rest, "close") = X
    BY <1>2 DEF X
  <2> QED BY <1>8, <2>1, <2>2, <2>3
<1>11. Null \notin On(stack', "close")
  <2>1. Null \notin X
    BY <1>4 DEF Core, Closing
  <2> QED BY <1>6, <1>10, <2>1, StorageAssumption
<1>12. Core(storage, m, K, D \ {h}, E, On(stack', "close"), C, Q, roots, Null, Null)
  BY <1>6, <1>10, <1>11
<1>13. Sound(stack', storage', handler', Elements(chain'), Elements(queue'), roots', Null)
  <2>1. /\ On(stack', "continue") = K /\ On(stack', "release") = D \ {h}
        /\ On(stack', "enqueue") = E
    BY <1>2, <1>10 DEF K, E
  <2>2. storage' = storage /\ roots' = roots /\ chain' = chain /\ queue' = queue /\ handler' = m
    BY <1>1
  <2> QED BY <1>10, <1>12, <2>1, <2>2 DEF Sound, C, Q
<1>14. /\ CoreInv'
       /\ storage' \in [Storages -> StorageState] /\ handler' \in [Handlers -> HandlerState]
       /\ stack' \in Seq(Call) /\ roots' \subseteq Storages
  BY <1>1, <1>5, <1>13, StaysSound
<1>15. TypeOK' /\ EndsInv'
  <2>1. /\ ends \in [Handlers -> Nat] /\ \A g \in Handlers :
             ends[g] = IF handler[g].at = "ended" THEN 1 ELSE 0
    BY <1>5 DEF TypeOK, EndsInv
  <2>2. ends' \in [Handlers -> Nat]
    BY <1>1, <1>3, <2>1
  <2>3. TypeOK'
    BY <1>1, <1>5, <1>14, <2>2 DEF TypeOK
  <2>4. ends[h] = 0 /\ ends'[h] = ends[h] + 1 /\ \A g \in Handlers : g # h => ends'[g] = ends[g]
    BY <1>1, <1>3, <1>6, <2>1
  <2>5. EndsInv'
    BY <1>1, <1>6, <2>1, <2>4 DEF EndsInv
  <2> QED BY <2>3, <2>5
<1>16. PromiseInv'
  <2>1. \A g \in promised : g \in Handlers /\ (handler'[g] = handler[g] \/ g = h)
    BY <1>1, <1>5, <1>6 DEF TypeOK
  <2> QED BY <1>1, <1>5, <1>6, <2>1 DEF PromiseInv
<1>17. ListInv'
  BY <1>1, <1>5 DEF ListInv, Alive
<1>18. ShutdownInv'
  <2>1. \A do \in {"chain", "queue", "enqueue"} : On(stack', do) = On(stack, do)
    BY <1>2, <1>10
  <2> QED BY <1>1, <1>2, <1>5, <2>1 DEF ShutdownInv, Slot
<1> QED BY <1>14, <1>15, <1>16, <1>17, <1>18 DEF IInv

LEMMA EnqueueStep ==
  ASSUME IInv, Enqueue
  PROVE  IInv'
<1> DEFINE h == Subject
           rest == Tail(stack)
           C == Elements(chain)
           Q == Elements(queue)
           K == On(stack, "continue")
           D == On(stack, "release")
           E == On(stack, "enqueue")
           X == On(stack, "close")
           m == Moved(handler, h, "queued")
<1>1. /\ Running("enqueue") /\ queue' = Append(queue, h) /\ handler' = m /\ stack' = rest
      /\ UNCHANGED <<storage, listed, shutdown, chain, roots, run, promised, ends>>
  BY DEF Enqueue
<1>2. /\ Orderly(stack) /\ run # "gone" /\ Orderly(rest) /\ h \in E
      /\ On(rest, "enqueue") = E \ {h}
      /\ \A do : do # "enqueue" => On(rest, do) = On(stack, do)
      /\ stack # << >> /\ Head(stack).do = "enqueue"
  BY <1>1, Calling
<1>3. h \in Handlers
  BY <1>2, TopFrame DEF Subject
<1>4. Core(storage, handler, K, D, E, X, C, Q, roots, Null, Null)
  BY Whole DEF Sound
<1>5. /\ TypeOK /\ ListInv /\ ShutdownInv /\ EndsInv /\ PromiseInv
      /\ Distinct(chain) /\ Distinct(queue)
  BY Whole
<1> HIDE DEF h, rest, C, Q, K, D, E, X
<1>6. /\ h \notin Q /\ handler[h].at = "taken"
      /\ Core(storage, m, K, D, E \ {h}, X, C, Q \cup {h}, roots, Null, Null)
  BY <1>2, <1>3, <1>4, Posted
<1>7. queue' \in Seq(Handlers) /\ Distinct(queue') /\ Elements(queue') = Q \cup {h}
  BY <1>1, <1>3, <1>5, <1>6, Appended DEF TypeOK, Q
<1>8. Sound(stack', storage', handler', Elements(chain'), Elements(queue'), roots', Null)
  <2>1. /\ On(stack', "continue") = K /\ On(stack', "release") = D
        /\ On(stack', "enqueue") = E \ {h} /\ On(stack', "close") = X
    BY <1>1, <1>2 DEF K, D, X
  <2>2. /\ storage' = storage /\ roots' = roots /\ Elements(chain') = C /\ handler' = m
        /\ Orderly(stack')
    BY <1>1, <1>2 DEF C
  <2> HIDE DEF m
  <2> QED BY <1>6, <1>7, <2>1, <2>2 DEF Sound
<1>9. /\ CoreInv'
      /\ storage' \in [Storages -> StorageState] /\ handler' \in [Handlers -> HandlerState]
      /\ stack' \in Seq(Call) /\ roots' \subseteq Storages
  BY <1>1, <1>5, <1>7, <1>8, StaysSound
<1>10. Passes(handler, handler')
  <2>1. handler \in [Handlers -> HandlerState]
    BY <1>5 DEF TypeOK
  <2> QED BY <1>1, <1>3, <1>6, <2>1, MovePasses DEF Place
<1>11. EndsInv' /\ PromiseInv' /\ promised' \subseteq Handlers
  BY <1>1, <1>5, <1>10, Histories
<1>12. TypeOK'
  BY <1>1, <1>5, <1>7, <1>9, <1>11 DEF TypeOK
<1>13. ListInv'
  BY <1>1, <1>5 DEF ListInv, Alive
<1>14. ShutdownInv'
  <2>1. /\ \A do \in {"chain", "queue"} : On(stack', do) = On(stack, do)
        /\ On(stack', "enqueue") \subseteq On(stack, "enqueue")
    BY <1>1, <1>2 DEF E
  <2> QED BY <1>1, <1>2, <1>5, <2>1 DEF ShutdownInv, Slot
<1> QED BY <1>9, <1>11, <1>12, <1>13, <1>14 DEF IInv

\* A handler at the front of a list is destroyed in a step.
LEMMA DestroyChainedStep ==
  ASSUME IInv, DestroyChained
  PROVE  IInv'
<1> DEFINE h == Head(chain)
           rest == Tail(stack)
           C == Elements(chain)
           Q == Elements(queue)
           K == On(stack, "continue")
           D == On(stack, "release")
           E == On(stack, "enqueue")
           X == On(stack, "close")
           m == Moved(handler, h, "dying")
           new == Ending(h) \o stack
<1>1. /\ Running("chain")
      /\ UNCHANGED <<storage, listed, shutdown, queue, roots, run, promised, ends>>
      /\ \/ chain = << >> /\ stack' = rest /\ UNCHANGED <<handler, chain>>
         \/ chain # << >> /\ chain' = Tail(chain) /\ handler' = m /\ stack' = new
  BY DEF DestroyChained
<1>2. /\ Orderly(stack) /\ run # "gone" /\ Orderly(rest) /\ Subject \in On(stack, "chain")
      /\ On(rest, "chain") = On(stack, "chain") \ {Subject}
      /\ \A do : do # "chain" => On(rest, do) = On(stack, do)
      /\ stack # << >> /\ Head(stack).do = "chain"
  BY <1>1, Calling
<1>3. Subject = Null
  BY <1>2, TopFrame DEF Subject
<1>4. Core(storage, handler, K, D, E, X, C, Q, roots, Null, Null)
  BY Whole DEF Sound
<1>5. /\ TypeOK /\ ListInv /\ ShutdownInv /\ EndsInv /\ PromiseInv
      /\ Distinct(chain) /\ Distinct(queue)
  BY Whole
<1>6. ListInv'
  BY <1>1, <1>5 DEF ListInv, Alive
<1> HIDE DEF h, rest, C, Q, K, D, E, X
<1>7. CASE chain = << >> /\ stack' = rest /\ UNCHANGED <<handler, chain>>
  <2>1. Sound(stack', storage', handler', Elements(chain'), Elements(queue'), roots', Null)
    <3>1. /\ On(stack', "continue") = K /\ On(stack', "release") = D
          /\ On(stack', "enqueue") = E /\ On(stack', "close") = X
      BY <1>2, <1>7 DEF K, D, E, X
    <3>2. /\ storage' = storage /\ roots' = roots /\ Elements(chain') = C
          /\ Elements(queue') = Q /\ handler' = handler /\ Orderly(stack')
      BY <1>1, <1>2, <1>7 DEF C, Q
    <3> QED BY <1>4, <3>1, <3>2 DEF Sound
  <2>2. /\ CoreInv'
        /\ storage' \in [Storages -> StorageState] /\ handler' \in [Handlers -> HandlerState]
        /\ stack' \in Seq(Call) /\ roots' \subseteq Storages
    BY <1>1, <1>5, <1>7, <2>1, StaysSound
  <2>3. EndsInv' /\ PromiseInv' /\ TypeOK'
    BY <1>1, <1>5, <1>7, <2>2 DEF EndsInv, PromiseInv, TypeOK
  <2>4. ShutdownInv'
    <3>1. \A do \in {"queue", "enqueue"} : On(stack', do) = On(stack, do)
      BY <1>2, <1>7
    <3> QED BY <1>1, <1>2, <1>5, <1>7, <3>1 DEF ShutdownInv, Slot
  <2> QED BY <1>6, <2>2, <2>3, <2>4 DEF IInv
<1>8. CASE chain # << >> /\ chain' = Tail(chain) /\ handler' = m /\ stack' = new
  <2>1. /\ chain' \in Seq(Handlers) /\ Distinct(chain') /\ h \in Handlers /\ h \in C
        /\ Elements(chain') = C \ {h}
    BY <1>5, <1>8, Taken DEF TypeOK, C, h
  <2> DEFINE K2 == K \cup {h}
             D2 == D \cup {h}
  <2>2. /\ h \notin D /\ h \notin K /\ handler[h].at = "chained"
        /\ Core(storage, m, K2, D2, E, X, C \ {h}, Q, roots, Null, Null)
    BY <1>4, <2>1, DropChained
  <2>3. /\ Orderly(new)
        /\ On(new, "continue") = K2 /\ On(new, "release") = D2
        /\ \A do \in {"enqueue", "close", "chain", "queue"} : On(new, do) = On(stack, do)
    BY <1>2, <2>1, <2>2, PushEnding DEF K, D
  <2>4. Passes(handler, handler')
    <3>1. handler \in [Handlers -> HandlerState]
      BY <1>5 DEF TypeOK
    <3> QED BY <1>8, <2>1, <2>2, <3>1, MovePasses DEF Place
  <2> HIDE DEF m, new, K2, D2
  <2>5. Sound(stack', storage', handler', Elements(chain'), Elements(queue'), roots', Null)
    <3>1. /\ storage' = storage /\ roots' = roots /\ Elements(queue') = Q /\ handler' = m
          /\ stack' = new /\ On(new, "enqueue") = E /\ On(new, "close") = X
      BY <1>1, <1>8, <2>3 DEF Q, E, X
    <3> QED BY <2>1, <2>2, <2>3, <3>1 DEF Sound
  <2>6. /\ CoreInv'
        /\ storage' \in [Storages -> StorageState] /\ handler' \in [Handlers -> HandlerState]
        /\ stack' \in Seq(Call) /\ roots' \subseteq Storages
    BY <1>1, <1>5, <2>1, <2>5, StaysSound
  <2>7. EndsInv' /\ PromiseInv' /\ promised' \subseteq Handlers
    BY <1>1, <1>5, <2>4, Histories
  <2>8. TypeOK'
    BY <1>1, <1>5, <2>1, <2>6, <2>7 DEF TypeOK
  <2>9. ShutdownInv'
    <3>1. \A do \in {"chain", "queue", "enqueue"} : On(stack', do) = On(stack, do)
      BY <1>8, <2>3
    <3> QED BY <1>1, <1>2, <1>3, <1>5, <3>1 DEF ShutdownInv, Slot
  <2> QED BY <1>6, <2>6, <2>7, <2>8, <2>9 DEF IInv
<1> QED BY <1>1, <1>7, <1>8

LEMMA DestroyQueuedStep ==
  ASSUME IInv, DestroyQueued
  PROVE  IInv'
<1> DEFINE h == Head(queue)
           rest == Tail(stack)
           C == Elements(chain)
           Q == Elements(queue)
           K == On(stack, "continue")
           D == On(stack, "release")
           E == On(stack, "enqueue")
           X == On(stack, "close")
           m == Moved(handler, h, "dying")
           new == Ending(h) \o stack
<1>1. /\ Running("queue")
      /\ UNCHANGED <<storage, listed, shutdown, chain, roots, promised, ends>>
      /\ \/ queue = << >> /\ stack' = rest /\ run' = "gone" /\ UNCHANGED <<handler, queue>>
         \/ /\ queue # << >> /\ queue' = Tail(queue) /\ handler' = m /\ stack' = new
            /\ UNCHANGED run
  BY DEF DestroyQueued
<1>2. /\ Orderly(stack) /\ run # "gone" /\ Orderly(rest) /\ Subject \in On(stack, "queue")
      /\ On(rest, "queue") = On(stack, "queue") \ {Subject}
      /\ \A do : do # "queue" => On(rest, do) = On(stack, do)
      /\ stack # << >> /\ Head(stack).do = "queue"
  BY <1>1, Calling
<1>3. Subject = Null /\ rest = << >>
  BY <1>2, TopFrame DEF Subject
<1>4. Core(storage, handler, K, D, E, X, C, Q, roots, Null, Null)
  BY Whole DEF Sound
<1>5. /\ TypeOK /\ ListInv /\ ShutdownInv /\ EndsInv /\ PromiseInv
      /\ Distinct(chain) /\ Distinct(queue)
  BY Whole
<1>6. ListInv' /\ shutdown
  BY <1>1, <1>2, <1>3, <1>5 DEF ListInv, Alive, ShutdownInv
<1> HIDE DEF h, rest, C, Q, K, D, E, X
<1>7. CASE queue = << >> /\ stack' = rest /\ run' = "gone" /\ UNCHANGED <<handler, queue>>
  <2>1. Sound(stack', storage', handler', Elements(chain'), Elements(queue'), roots', Null)
    <3>1. /\ On(stack', "continue") = K /\ On(stack', "release") = D
          /\ On(stack', "enqueue") = E /\ On(stack', "close") = X
      BY <1>2, <1>7 DEF K, D, E, X
    <3>2. /\ storage' = storage /\ roots' = roots /\ Elements(chain') = C
          /\ Elements(queue') = Q /\ handler' = handler /\ Orderly(stack')
      BY <1>1, <1>2, <1>7 DEF C, Q
    <3> QED BY <1>4, <3>1, <3>2 DEF Sound
  <2>2. /\ CoreInv'
        /\ storage' \in [Storages -> StorageState] /\ handler' \in [Handlers -> HandlerState]
        /\ stack' \in Seq(Call) /\ roots' \subseteq Storages
    BY <1>1, <1>5, <1>7, <2>1, StaysSound
  <2>3. EndsInv' /\ PromiseInv' /\ TypeOK'
    BY <1>1, <1>5, <1>7, <2>2 DEF EndsInv, PromiseInv, TypeOK
  <2>4. ShutdownInv'
    <3>1. \A do : On(stack', do) = {}
      BY <1>3, <1>7, EmptyStack
    <3>2. chain = << >>
      <4>1. On(stack, "chain") = On(rest, "chain")
        BY <1>2
      <4>2. On(stack, "chain") = {}
        BY <1>3, <4>1, EmptyStack
      <4> QED BY <1>5, <4>2 DEF ShutdownInv
    <3> QED BY <1>1, <1>3, <1>5, <1>6, <1>7, <3>1, <3>2 DEF ShutdownInv, Slot
  <2> QED BY <1>6, <2>2, <2>3, <2>4 DEF IInv
<1>8. CASE /\ queue # << >> /\ queue' = Tail(queue) /\ handler' = m /\ stack' = new
           /\ UNCHANGED run
  <2>1. /\ queue' \in Seq(Handlers) /\ Distinct(queue') /\ h \in Handlers /\ h \in Q
        /\ Elements(queue') = Q \ {h}
    BY <1>5, <1>8, Taken DEF TypeOK, Q, h
  <2> DEFINE K2 == K \cup {h}
             D2 == D \cup {h}
  <2>2. /\ h \notin D /\ h \notin K /\ handler[h].at = "queued"
        /\ Core(storage, m, K2, D2, E, X, C, Q \ {h}, roots, Null, Null)
    BY <1>4, <2>1, DropPosted
  <2>3. /\ Orderly(new)
        /\ On(new, "continue") = K2 /\ On(new, "release") = D2
        /\ \A do \in {"enqueue", "close", "chain", "queue"} : On(new, do) = On(stack, do)
    BY <1>2, <2>1, <2>2, PushEnding DEF K, D
  <2>4. Passes(handler, handler')
    <3>1. handler \in [Handlers -> HandlerState]
      BY <1>5 DEF TypeOK
    <3> QED BY <1>8, <2>1, <2>2, <3>1, MovePasses DEF Place
  <2> HIDE DEF m, new, K2, D2
  <2>5. Sound(stack', storage', handler', Elements(chain'), Elements(queue'), roots', Null)
    <3>1. /\ storage' = storage /\ roots' = roots /\ Elements(chain') = C /\ handler' = m
          /\ stack' = new /\ On(new, "enqueue") = E /\ On(new, "close") = X
      BY <1>1, <1>8, <2>3 DEF C, E, X
    <3> QED BY <2>1, <2>2, <2>3, <3>1 DEF Sound
  <2>6. /\ CoreInv'
        /\ storage' \in [Storages -> StorageState] /\ handler' \in [Handlers -> HandlerState]
        /\ stack' \in Seq(Call) /\ roots' \subseteq Storages
    BY <1>1, <1>5, <2>1, <2>5, StaysSound
  <2>7. EndsInv' /\ PromiseInv' /\ promised' \subseteq Handlers
    BY <1>1, <1>5, <1>8, <2>4, Histories
  <2>8. TypeOK'
    BY <1>1, <1>5, <1>8, <2>1, <2>6, <2>7 DEF TypeOK
  <2>9. ShutdownInv'
    <3>1. \A do \in {"chain", "queue", "enqueue"} : On(stack', do) = On(stack, do)
      BY <1>8, <2>3
    <3> QED BY <1>1, <1>2, <1>5, <1>8, <3>1 DEF ShutdownInv, Slot
  <2> QED BY <1>6, <2>6, <2>7, <2>8, <2>9 DEF IInv
<1> QED BY <1>1, <1>7, <1>8

LEMMA InvokeStep ==
  ASSUME IInv, Invoke
  PROVE  IInv'
<1> DEFINE h == Head(queue)
           C == Elements(chain)
           Q == Elements(queue)
           K == On(stack, "continue")
           D == On(stack, "release")
           E == On(stack, "enqueue")
           X == On(stack, "close")
           m == Moved(handler, h, "dying")
           new == Ending(h) \o stack
<1>1. /\ Idle /\ queue # << >> /\ queue' = Tail(queue) /\ handler' = m /\ stack' = Ending(h)
      /\ UNCHANGED <<storage, listed, shutdown, chain, roots, run, promised, ends>>
  BY DEF Invoke
<1>2. /\ Orderly(stack) /\ run # "gone" /\ stack = << >> /\ ~shutdown /\ chain = << >>
      /\ \A do : On(stack, do) = {}
  BY <1>1, Idles
<1>3. stack' = new
  BY <1>1, <1>2 DEF Ending
<1>4. Core(storage, handler, K, D, E, X, C, Q, roots, Null, Null)
  BY Whole DEF Sound
<1>5. /\ TypeOK /\ ListInv /\ ShutdownInv /\ EndsInv /\ PromiseInv
      /\ Distinct(chain) /\ Distinct(queue)
  BY Whole
<1>6. ListInv'
  BY <1>1, <1>5 DEF ListInv, Alive
<1> HIDE DEF h, C, Q, K, D, E, X
<1>7. /\ queue' \in Seq(Handlers) /\ Distinct(queue') /\ h \in Handlers /\ h \in Q
      /\ Elements(queue') = Q \ {h}
  BY <1>1, <1>5, Taken DEF TypeOK, Q, h
<1> DEFINE K2 == K \cup {h}
           D2 == D \cup {h}
<1>8. /\ h \notin D /\ h \notin K /\ handler[h].at = "queued"
      /\ Core(storage, m, K2, D2, E, X, C, Q \ {h}, roots, Null, Null)
  BY <1>4, <1>7, DropPosted
<1>9. /\ Orderly(new)
      /\ On(new, "continue") = K2 /\ On(new, "release") = D2
      /\ \A do \in {"enqueue", "close", "chain", "queue"} : On(new, do) = On(stack, do)
  <2>1. Orderly(stack) /\ h \in Handlers
    BY <1>2, <1>7
  <2>2. h \notin K /\ h \notin D
    BY <1>8
  <2> QED BY <2>1, <2>2, PushEnding DEF K, D
<1>10. Passes(handler, handler')
  <2>1. handler \in [Handlers -> HandlerState]
    BY <1>5 DEF TypeOK
  <2> QED BY <1>1, <1>7, <1>8, <2>1, MovePasses DEF Place
<1> HIDE DEF m, new, K2, D2
<1>11. Sound(stack', storage', handler', Elements(chain'), Elements(queue'), roots', Null)
  <2>1. /\ storage' = storage /\ roots' = roots /\ Elements(chain') = C /\ handler' = m
        /\ On(new, "enqueue") = E /\ On(new, "close") = X
    BY <1>1, <1>9 DEF C, E, X
  <2> QED BY <1>3, <1>7, <1>8, <1>9, <2>1 DEF Sound
<1>12. /\ CoreInv'
       /\ storage' \in [Storages -> StorageState] /\ handler' \in [Handlers -> HandlerState]
       /\ stack' \in Seq(Call) /\ roots' \subseteq Storages
  BY <1>1, <1>5, <1>7, <1>11, StaysSound
<1>13. EndsInv' /\ PromiseInv' /\ promised' \subseteq Handlers
  BY <1>1, <1>5, <1>10, Histories
<1>14. TypeOK'
  BY <1>1, <1>5, <1>7, <1>12, <1>13 DEF TypeOK
<1>15. ShutdownInv'
  <2>1. \A do \in {"chain", "queue", "enqueue"} : On(stack', do) = On(stack, do)
    BY <1>3, <1>9
  <2> QED BY <1>1, <1>2, <1>5, <2>1 DEF ShutdownInv
<1> QED BY <1>6, <1>12, <1>13, <1>14, <1>15 DEF IInv

(***************************************************************************)
(* The destructor of a storage that is on the stack to be closed: it is    *)
(* dead, and the handler it had is to be destroyed.                        *)
(***************************************************************************)
Dead(st, s) == [st EXCEPT ![s] = [life |-> "dead", handler |-> Null]]

LEMMA ClosedEmpty ==
  ASSUME NEW st, NEW hs, NEW K, NEW D, NEW E, NEW X, NEW C, NEW Q, NEW rt, NEW w,
         Core(st, hs, K, D, E, X, C, Q, rt, w, Null), NEW s \in Storages, s \in X,
         st[s].handler = Null
  PROVE  Core(Dead(st, s), hs, K, D, E, X \ {s}, C, Q, rt, w, Null)
<1> DEFINE u == [st EXCEPT ![s].life = "dead"]
           Y == X \ {s}
<1>1. st[s].life = "alive" /\ Core(st, hs, K, D, E, Y, C, Q, rt, w, s)
  BY CloseBegins
<1>2. Null \notin Y
  BY DEF Core, Closing
<1>3. u = Dead(st, s)
  <2>1. st \in [Storages -> StorageState]
    BY DEF Core, Typed
  <2>2. st[s] = [life |-> "alive", handler |-> Null]
    BY <1>1, <2>1 DEF StorageState
  <2>3. [st[s] EXCEPT !.life = "dead"] = [life |-> "dead", handler |-> Null]
    BY <2>2
  <2> QED BY <2>1, <2>3 DEF Dead
<1>4. Core(u, hs, K, D, E, Y, C, Q, rt, w, Null)
  <2> HIDE DEF Y
  <2>1. Core(st, hs, K, D, E, Y, C, Q, rt, w, s)
    BY <1>1
  <2> QED BY <1>2, <2>1, CloseEnds
<1> HIDE DEF u
<1> QED BY <1>3, <1>4

LEMMA ClosedFull ==
  ASSUME NEW st, NEW hs, NEW K, NEW D, NEW E, NEW X, NEW C, NEW Q, NEW rt, NEW w,
         Core(st, hs, K, D, E, X, C, Q, rt, w, Null), NEW s \in Storages, s \in X,
         NEW old, old = st[s].handler, old # Null
  PROVE  /\ old \in Handlers /\ old \notin D /\ old \notin K /\ hs[old].at = "stored"
         /\ Core(Dead(st, s), Moved(hs, old, "dying"), K \cup {old}, D \cup {old}, E,
                 X \ {s}, C, Q, rt, w, Null)
<1> DEFINE v == [st EXCEPT ![s].handler = Null]
           u == [v EXCEPT ![s].life = "dead"]
           Y == X \ {s}
           m == Moved(hs, old, "dying")
           K2 == K \cup {old}
           D2 == D \cup {old}
<1>1. Core(st, hs, K, D, E, Y, C, Q, rt, w, s)
  BY CloseBegins
<1>2. Null \notin Y
  BY DEF Core, Closing
<1>3. u = Dead(st, s) /\ v[s].handler = Null
  <2>1. st \in [Storages -> StorageState]
    BY DEF Core, Typed
  <2>2. v[s] = [st[s] EXCEPT !.handler = Null] /\ v = [st EXCEPT ![s] = v[s]]
    BY <2>1
  <2>3. v[s].handler = Null /\ [v[s] EXCEPT !.life = "dead"] = [life |-> "dead", handler |-> Null]
    <3> HIDE DEF v
    <3>1. st[s] \in StorageState
      BY <2>1
    <3>2. v[s] = [life |-> st[s].life, handler |-> Null]
      BY <2>2, <3>1 DEF StorageState
    <3> QED BY <3>2
  <2>4. u = [v EXCEPT ![s] = [life |-> "dead", handler |-> Null]]
    BY <2>3
  <2> HIDE DEF u
  <2>5. u = [st EXCEPT ![s] = [life |-> "dead", handler |-> Null]]
    BY <2>1, <2>4
  <2> QED BY <2>3, <2>5 DEF Dead
<1>4. /\ old \in Handlers /\ old \notin D /\ old \notin K /\ hs[old].at = "stored"
      /\ Core(v, m, K2, D2, E, Y, C, Q, rt, w, s)
  <2> HIDE DEF Y
  <2> QED BY <1>1, EmptyAndDrop
<1>5. Core(v, m, K2, D2, E, Y, C, Q, rt, w, s)
  BY <1>4
<1>6. Core(u, m, K2, D2, E, Y, C, Q, rt, w, Null)
  <2> HIDE DEF Y, K2, D2, m, v
  <2>1. v[s].handler = Null
    BY <1>3
  <2> QED BY <1>2, <1>5, <2>1, CloseEnds
<1> HIDE DEF u
<1> QED BY <1>3, <1>4, <1>6

LEMMA CloseStep ==
  ASSUME IInv, Close
  PROVE  IInv'
<1> DEFINE s == Subject
           rest == Tail(stack)
           old == Slot(s)
           C == Elements(chain)
           Q == Elements(queue)
           K == On(stack, "continue")
           D == On(stack, "release")
           E == On(stack, "enqueue")
           X == On(stack, "close")
           Y == X \ {s}
           m == Moved(handler, old, "dying")
           dead == Dead(storage, s)
           new == Ending(old) \o rest
<1>1. /\ Running("close")
      /\ UNCHANGED <<shutdown, chain, queue, roots, run, promised, ends>>
      /\ \/ /\ shutdown /\ storage' = [storage EXCEPT ![s].life = "dead"]
            /\ handler' = handler /\ stack' = rest /\ UNCHANGED listed
         \/ /\ ~shutdown /\ Unlist(s) /\ storage' = dead
            /\ \/ old = Null /\ handler' = handler /\ stack' = rest
               \/ old # Null /\ handler' = m /\ stack' = new
  BY DEF Close, Become, Dead
<1>2. /\ Orderly(stack) /\ run # "gone" /\ Orderly(rest) /\ s \in X
      /\ On(rest, "close") = Y
      /\ \A do : do # "close" => On(rest, do) = On(stack, do)
      /\ stack # << >> /\ Head(stack).do = "close"
  BY <1>1, Calling
<1>3. s \in Storages
  BY <1>2, TopFrame DEF Subject
<1>4. Core(storage, handler, K, D, E, X, C, Q, roots, Null, Null)
  BY Whole DEF Sound
<1>5. /\ TypeOK /\ ListInv /\ ShutdownInv /\ EndsInv /\ PromiseInv
      /\ Distinct(chain) /\ Distinct(queue)
  BY Whole
<1>6. old = storage[s].handler /\ Null \notin Y
  <2>1. Null \notin X
    BY <1>4 DEF Core, Closing
  <2> QED BY <2>1 DEF Slot
<1> HIDE DEF s, rest, old, C, Q, K, D, E, X
<1>7. /\ Core(storage, handler, K, D, E, X, C, Q, roots, Null, Null)
      /\ s \in X /\ s \in Storages /\ old = storage[s].handler
  BY <1>2, <1>3, <1>4, <1>6
<1>8. storage \in [Storages -> StorageState] /\ handler \in [Handlers -> HandlerState]
  BY <1>5 DEF TypeOK
<1> HIDE DEF Y
<1>9. /\ dead[s] = [life |-> "dead", handler |-> Null]
      /\ \A t \in Storages : t # s => dead[t] = storage[t]
  BY <1>3, <1>8 DEF Dead
<1>10. storage' = dead /\ (shutdown => old = Null)
  <2>1. CASE shutdown
    <3>1. storage[s].handler = Null
      BY <1>3, <1>5, <2>1 DEF ShutdownInv, Slot
    <3>2. storage[s].life = "alive"
      BY <1>2, <1>3, <1>4, CloseBegins
    <3>3. storage[s] = [life |-> "alive", handler |-> Null]
      BY <1>3, <1>8, <3>1, <3>2 DEF StorageState
    <3>4. storage' = [storage EXCEPT ![s].life = "dead"]
      BY <1>1, <2>1
    <3>5. storage' = dead
      <4>1. [storage[s] EXCEPT !.life = "dead"] = [life |-> "dead", handler |-> Null]
        BY <3>3
      <4> QED BY <3>4, <4>1 DEF Dead
    <3> QED BY <1>6, <3>1, <3>5
  <2>2. CASE ~shutdown
    BY <1>1, <2>2
  <2> QED BY <2>1, <2>2
<1>11. /\ Sound(stack', storage', handler', C, Q, roots, Null)
      /\ Passes(handler, handler')
      /\ \A do \in {"chain", "queue", "enqueue"} : On(stack', do) = On(stack, do)
  <2>1. CASE old = Null /\ storage' = dead /\ handler' = handler /\ stack' = rest
    <3>1. Core(dead, handler, K, D, E, Y, C, Q, roots, Null, Null)
      <4>1. storage[s].handler = Null
        BY <1>6, <2>1
      <4> QED BY <1>7, <4>1, ClosedEmpty DEF Y
    <3>2. /\ On(rest, "continue") = K /\ On(rest, "release") = D
          /\ On(rest, "enqueue") = E /\ On(rest, "close") = Y
      BY <1>2 DEF K, D, E
    <3> HIDE DEF dead
    <3>3. Sound(rest, dead, handler, C, Q, roots, Null)
      BY <1>2, <3>1, <3>2 DEF Sound
    <3> QED BY <1>2, <1>9, <2>1, <3>3 DEF Passes
  <2>2. CASE old # Null /\ storage' = dead /\ handler' = m /\ stack' = new
    <3> DEFINE K2 == K \cup {old}
               D2 == D \cup {old}
    <3>0. old # Null
      BY <2>2
    <3>1. /\ old \in Handlers /\ old \notin D /\ old \notin K /\ handler[old].at = "stored"
          /\ Core(dead, m, K2, D2, E, Y, C, Q, roots, Null, Null)
      BY <1>7, <3>0, ClosedFull DEF Y
    <3>2. Passes(handler, m)
      BY <1>8, <3>1, MovePasses DEF Place
    <3> HIDE DEF m, K2, D2, dead, new
    <3>3. old \notin On(rest, "continue") /\ old \notin On(rest, "release")
          /\ On(rest, "continue") = K /\ On(rest, "release") = D
      BY <1>2, <3>1 DEF K, D
    <3>4. /\ Orderly(new)
          /\ On(new, "continue") = K2 /\ On(new, "release") = D2
          /\ \A do \in {"enqueue", "close", "chain", "queue"} : On(new, do) = On(rest, do)
      BY <1>2, <3>1, <3>3, PushEnding DEF new, K2, D2
    <3>5. On(new, "enqueue") = E /\ On(new, "close") = Y
      BY <1>2, <3>4 DEF E
    <3>6. Sound(new, dead, m, C, Q, roots, Null)
      BY <3>1, <3>4, <3>5 DEF Sound
    <3> QED BY <1>2, <1>9, <2>2, <3>2, <3>4, <3>6
  <2> QED BY <1>1, <1>10, <2>1, <2>2
<1>12. Sound(stack', storage', handler', Elements(chain'), Elements(queue'), roots', Null)
  BY <1>1, <1>11 DEF C, Q
<1>13. /\ CoreInv'
       /\ storage' \in [Storages -> StorageState] /\ handler' \in [Handlers -> HandlerState]
       /\ stack' \in Seq(Call) /\ roots' \subseteq Storages
  BY <1>1, <1>5, <1>12, StaysSound
<1>14. EndsInv' /\ PromiseInv' /\ promised' \subseteq Handlers
  BY <1>1, <1>5, <1>11, Histories
<1>15. ListInv' /\ listed' \in Seq(Storages)
  <2>1. CASE shutdown
    BY <1>1, <1>5, <2>1 DEF ListInv, TypeOK
  <2>2. CASE ~shutdown
    <3>1. PICK i \in DOMAIN listed : listed[i] = s /\ listed' = Seqs!RemoveAt(listed, i)
      BY <1>1, <2>2 DEF Unlist
    <3>2. /\ listed \in Seq(Storages) /\ Distinct(listed)
          /\ Elements(listed) = {t \in Storages : storage[t].life = "alive"}
      BY <1>5, <2>2 DEF ListInv, TypeOK, Alive
    <3>3. /\ listed' \in Seq(Storages) /\ Distinct(listed')
          /\ Elements(listed') = Elements(listed) \ {s}
      BY <3>1, <3>2, Erased
    <3>4. \A t : t \in Elements(listed') <=> t \in {x \in Storages : storage'[x].life = "alive"}
      BY <1>9, <1>10, <3>2, <3>3
    <3>5. Elements(listed') = {x \in Storages : storage'[x].life = "alive"}
      BY <3>4
    <3> QED BY <3>3, <3>5 DEF ListInv, Alive
  <2> QED BY <2>1, <2>2
<1>16. TypeOK'
  BY <1>1, <1>5, <1>13, <1>14, <1>15 DEF TypeOK
<1>17. ShutdownInv'
  <2>1. \A t \in Storages : storage[t].handler = Null => storage'[t].handler = Null
    BY <1>9, <1>10
  <2> QED BY <1>1, <1>2, <1>5, <1>11, <2>1 DEF ShutdownInv, Slot
<1> QED BY <1>13, <1>14, <1>15, <1>16, <1>17 DEF IInv

\* construct appends the storage to impl_list_.
LEMMA ListedStorages ==
  ASSUME TypeOK, ListInv, ~shutdown, shutdown' = shutdown, NEW s \in Storages,
         storage[s].life = "none", storage'[s].life = "alive",
         \A t \in Storages : t # s => storage'[t].life = storage[t].life,
         listed' = Append(listed, s)
  PROVE  ListInv' /\ listed' \in Seq(Storages)
<1>1. /\ listed \in Seq(Storages) /\ Distinct(listed)
      /\ Elements(listed) = {t \in Storages : storage[t].life = "alive"}
  BY DEF ListInv, TypeOK, Alive
<1>2. s \notin Elements(listed)
  BY <1>1
<1>3. /\ listed' \in Seq(Storages) /\ Distinct(listed')
      /\ Elements(listed') = Elements(listed) \cup {s}
  BY <1>1, <1>2, Appended
<1>4. \A t : t \in Elements(listed') <=> t \in {x \in Storages : storage'[x].life = "alive"}
  BY <1>1, <1>3
<1>5. Elements(listed') = {x \in Storages : storage'[x].life = "alive"}
  BY <1>4
<1> QED BY <1>3, <1>5 DEF ListInv, Alive

LEMMA ConstructStep ==
  ASSUME IInv, NEW s \in Storages, Construct(s)
  PROVE  IInv'
<1> DEFINE u == [storage EXCEPT ![s].life = "alive"]
           rt == roots \cup {s}
<1>1. /\ Idle /\ storage[s].life = "none" /\ storage' = u
      /\ listed' = Append(listed, s) /\ roots' = rt
      /\ UNCHANGED <<shutdown, handler, stack, chain, queue, run, promised, ends>>
  BY DEF Construct
<1>2. /\ stack = << >> /\ ~shutdown /\ run # "gone" /\ Orderly(stack)
      /\ \A do : On(stack, do) = {}
  BY <1>1, Idles
<1>3. /\ TypeOK /\ ListInv /\ ShutdownInv /\ EndsInv /\ PromiseInv
      /\ Distinct(chain) /\ Distinct(queue)
  BY Whole
<1>4. Core(storage, handler, On(stack, "continue"), On(stack, "release"),
           On(stack, "enqueue"), On(stack, "close"), Elements(chain), Elements(queue), roots,
           Null, Null)
  BY Whole DEF Sound
<1>5. Core(u, handler, On(stack, "continue"), On(stack, "release"),
           On(stack, "enqueue"), On(stack, "close"), Elements(chain), Elements(queue), rt,
           Null, Null)
  <2>1. storage[s].life = "none"
    BY <1>1
  <2> QED BY <1>4, <2>1, Constructed
<1>6. storage \in [Storages -> StorageState]
  BY <1>3 DEF TypeOK
<1>7. /\ u[s].life = "alive" /\ \A t \in Storages : t # s => u[t] = storage[t]
  BY <1>6 DEF StorageState
<1> HIDE DEF u, rt
<1>8. Sound(stack', storage', handler', Elements(chain'), Elements(queue'), roots', Null)
  BY <1>1, <1>2, <1>5 DEF Sound
<1>9. /\ CoreInv'
      /\ storage' \in [Storages -> StorageState] /\ handler' \in [Handlers -> HandlerState]
      /\ stack' \in Seq(Call) /\ roots' \subseteq Storages
  BY <1>1, <1>3, <1>8, StaysSound
<1>10. EndsInv' /\ PromiseInv' /\ promised' \subseteq Handlers
  BY <1>1, <1>3 DEF EndsInv, PromiseInv, TypeOK
<1>11. ListInv' /\ listed' \in Seq(Storages)
  BY <1>1, <1>2, <1>3, <1>7, ListedStorages
<1>12. TypeOK'
  BY <1>1, <1>3, <1>9, <1>10, <1>11 DEF TypeOK
<1>13. ShutdownInv'
  BY <1>1, <1>2, <1>3 DEF ShutdownInv
<1> QED BY <1>9, <1>10, <1>11, <1>12, <1>13 DEF IInv

LEMMA MoveConstructStep ==
  ASSUME IInv, NEW s \in Storages, NEW from \in Storages, MoveConstruct(s, from)
  PROVE  IInv'
<1> DEFINE u == [storage EXCEPT ![s].life = "alive"]
           v == [u EXCEPT ![s].handler = u[from].handler, ![from].handler = Null]
           rt == roots \cup {s}
<1>1. /\ Idle /\ storage[s].life = "none" /\ from \in roots
      /\ storage' = [storage EXCEPT ![s] = [life |-> "alive", handler |-> Slot(from)],
                                    ![from].handler = Null]
      /\ listed' = Append(listed, s) /\ roots' = rt
      /\ UNCHANGED <<shutdown, handler, stack, chain, queue, run, promised, ends>>
  BY DEF MoveConstruct
<1>2. /\ stack = << >> /\ ~shutdown /\ run # "gone" /\ Orderly(stack)
      /\ \A do : On(stack, do) = {}
  BY <1>1, Idles
<1>3. /\ TypeOK /\ ListInv /\ ShutdownInv /\ EndsInv /\ PromiseInv
      /\ Distinct(chain) /\ Distinct(queue)
  BY Whole
<1>4. Core(storage, handler, On(stack, "continue"), On(stack, "release"),
           On(stack, "enqueue"), On(stack, "close"), Elements(chain), Elements(queue), roots,
           Null, Null)
  BY Whole DEF Sound
<1>5. Core(u, handler, On(stack, "continue"), On(stack, "release"),
           On(stack, "enqueue"), On(stack, "close"), Elements(chain), Elements(queue), rt,
           Null, Null)
  <2>1. storage[s].life = "none"
    BY <1>1
  <2> QED BY <1>4, <2>1, Constructed
<1>6. storage \in [Storages -> StorageState]
  BY <1>3 DEF TypeOK
<1>7. s # from /\ storage[s] = [life |-> "none", handler |-> Null]
  <2>1. storage[from].life = "alive"
    BY <1>1, <1>4 DEF Core, Closing
  <2>2. storage[s].handler = Null
    BY <1>1, <1>4 DEF Core, Slots
  <2>3. storage[s] \in StorageState
    BY <1>6
  <2> QED BY <1>1, <2>1, <2>2, <2>3 DEF StorageState
<1>8. /\ u \in [Storages -> StorageState] /\ u[s] = [life |-> "alive", handler |-> Null]
      /\ \A t \in Storages : t # s => u[t] = storage[t]
  BY <1>6, <1>7 DEF StorageState
<1> HIDE DEF u
<1>9. s # from /\ u[s].life = "alive" /\ u[s].handler = Null
  BY <1>7, <1>8
<1> HIDE DEF rt
<1>10. Core(v, handler, On(stack, "continue"), On(stack, "release"),
            On(stack, "enqueue"), On(stack, "close"), Elements(chain), Elements(queue), rt,
            Null, Null)
  BY <1>5, <1>9, SlotMoved
<1>11. storage' = v
  <2> DEFINE new == [life |-> "alive", handler |-> Slot(from)]
             out == [storage[from] EXCEPT !.handler = Null]
  <2>1. storage' = [[storage EXCEPT ![s] = new] EXCEPT ![from] = out]
    BY <1>1, <1>6, <1>7
  <2>2. v = [[u EXCEPT ![s] = new] EXCEPT ![from] = out]
    <3>1. u[from] = storage[from]
      BY <1>7, <1>8
    <3>2. [u[s] EXCEPT !.handler = u[from].handler] = new
      BY <1>8, <3>1 DEF Slot
    <3> QED BY <1>7, <1>8, <3>1, <3>2
  <2> HIDE DEF new, out, v
  <2>3. [u EXCEPT ![s] = new] = [storage EXCEPT ![s] = new]
    BY <1>6, <1>8
  <2> QED BY <2>1, <2>2, <2>3
<1>12. /\ v[s].life = "alive" /\ \A t \in Storages : t # s => v[t].life = storage[t].life
  BY <1>7, <1>8 DEF StorageState
<1> HIDE DEF v
<1>13. Sound(stack', storage', handler', Elements(chain'), Elements(queue'), roots', Null)
  BY <1>1, <1>2, <1>10, <1>11 DEF Sound
<1>14. /\ CoreInv'
       /\ storage' \in [Storages -> StorageState] /\ handler' \in [Handlers -> HandlerState]
       /\ stack' \in Seq(Call) /\ roots' \subseteq Storages
  BY <1>1, <1>3, <1>13, StaysSound
<1>15. EndsInv' /\ PromiseInv' /\ promised' \subseteq Handlers
  BY <1>1, <1>3 DEF EndsInv, PromiseInv, TypeOK
<1>16. ListInv' /\ listed' \in Seq(Storages)
  BY <1>1, <1>2, <1>3, <1>11, <1>12, ListedStorages
<1>17. TypeOK'
  BY <1>1, <1>3, <1>14, <1>15, <1>16 DEF TypeOK
<1>18. ShutdownInv'
  BY <1>1, <1>2, <1>3 DEF ShutdownInv
<1> QED BY <1>14, <1>15, <1>16, <1>17, <1>18 DEF IInv

LEMMA DropStorageStep ==
  ASSUME IInv, NEW s \in Storages, DropStorage(s)
  PROVE  IInv'
<1> DEFINE K == On(stack, "continue")
           D == On(stack, "release")
           E == On(stack, "enqueue")
           X == On(stack, "close")
           rt == roots \ {s}
           f == Frame("close", s)
<1>1. /\ Idle /\ s \in roots /\ roots' = rt
      /\ stack' = IF s \in OwnedBy(handler) THEN << >> ELSE <<f>>
      /\ UNCHANGED <<storage, listed, shutdown, handler, chain, queue, run, promised, ends>>
  BY DEF DropStorage
<1>2. /\ stack = << >> /\ ~shutdown /\ run # "gone" /\ Orderly(stack) /\ chain = << >>
      /\ \A do : On(stack, do) = {}
  BY <1>1, Idles
<1>3. /\ TypeOK /\ ListInv /\ ShutdownInv /\ EndsInv /\ PromiseInv
      /\ Distinct(chain) /\ Distinct(queue)
  BY Whole
<1>4. Core(storage, handler, K, D, E, X, Elements(chain), Elements(queue), roots, Null, Null)
  BY Whole DEF Sound
<1>5. Null \notin X
  BY <1>2
<1>6. /\ s \notin X
      /\ s \in OwnedBy(handler) =>
           Core(storage, handler, K, D, E, X, Elements(chain), Elements(queue), rt, Null, Null)
      /\ s \notin OwnedBy(handler) =>
           Core(storage, handler, K, D, E, X \cup {s}, Elements(chain), Elements(queue), rt,
                Null, Null)
  <2> HIDE DEF K, D, E, X
  <2>1. s \in roots
    BY <1>1
  <2> QED BY <1>4, <1>5, <2>1, Dropped
<1> HIDE DEF rt
<1>7. /\ Sound(stack', storage', handler', Elements(chain'), Elements(queue'), roots', Null)
      /\ \A do \in {"chain", "queue"} : On(stack', do) = {}
  <2>1. CASE s \in OwnedBy(handler)
    BY <1>1, <1>2, <1>6, <2>1 DEF Sound
  <2>2. CASE s \notin OwnedBy(handler)
    <3> DEFINE new == <<f>> \o stack
    <3>1. f \in Call /\ f.do = "close" /\ f.on = s
      BY Frames
    <3>2. stack' = new
      BY <1>1, <1>2, <2>2
    <3> HIDE DEF f
    <3>3. /\ Orderly(new) /\ On(new, f.do) = On(stack, f.do) \cup {f.on}
          /\ \A do : do # f.do => On(new, do) = On(stack, do)
      <4>1. Orderly(stack) /\ f.on \notin On(stack, f.do) /\ f.on \in Storages
        BY <1>2, <3>1
      <4> QED BY <3>1, <4>1, Push
    <3> HIDE DEF new
    <3>4. /\ On(new, "continue") = K /\ On(new, "release") = D
          /\ On(new, "enqueue") = E /\ On(new, "close") = X \cup {s}
          /\ On(new, "chain") = {} /\ On(new, "queue") = {}
      BY <1>2, <3>1, <3>3
    <3> HIDE DEF K, D, E, X
    <3> QED BY <1>1, <1>6, <2>2, <3>2, <3>3, <3>4 DEF Sound
  <2> QED BY <2>1, <2>2
<1>8. /\ CoreInv'
      /\ storage' \in [Storages -> StorageState] /\ handler' \in [Handlers -> HandlerState]
      /\ stack' \in Seq(Call) /\ roots' \subseteq Storages
  BY <1>1, <1>3, <1>7, StaysSound
<1>9. EndsInv' /\ PromiseInv' /\ ListInv'
  BY <1>1, <1>3 DEF EndsInv, PromiseInv, ListInv, Alive
<1>10. TypeOK'
  BY <1>1, <1>3, <1>8 DEF TypeOK
<1>11. ShutdownInv'
  BY <1>1, <1>2, <1>3, <1>7 DEF ShutdownInv
<1> QED BY <1>8, <1>9, <1>10, <1>11 DEF IInv

\* The threads find no work, or are stopped.
LEMMA RunEnds ==
  ASSUME IInv, run = "running", run' \in {"returned", "stopped"},
         run' = "returned" => OutstandingWork = {},
         UNCHANGED <<storage, listed, shutdown, handler, stack, chain, queue, roots,
                     promised, ends>>
  PROVE  IInv'
<1>1. /\ TypeOK /\ ListInv /\ ShutdownInv /\ EndsInv /\ PromiseInv
      /\ Distinct(chain) /\ Distinct(queue)
      /\ Sound(stack, storage, handler, Elements(chain), Elements(queue), roots, Null)
  BY Whole
<1>2. Sound(stack', storage', handler', Elements(chain'), Elements(queue'), roots', Null)
  BY <1>1
<1>3. /\ CoreInv'
      /\ storage' \in [Storages -> StorageState] /\ handler' \in [Handlers -> HandlerState]
      /\ stack' \in Seq(Call) /\ roots' \subseteq Storages
  BY <1>1, <1>2, StaysSound
<1>4. TypeOK' /\ ListInv' /\ EndsInv'
  BY <1>1, <1>3 DEF TypeOK, ListInv, Alive, EndsInv
<1>5. ShutdownInv'
  BY <1>1 DEF ShutdownInv, Slot
<1>6. PromiseInv'
  <2> SUFFICES ASSUME NEW h \in promised
               PROVE  /\ handler[h].at \notin {"unborn", "bound"}
                      /\ run' = "returned" => handler[h].at \in {"dying", "ended"}
    BY DEF PromiseInv
  <2>1. h \in Handlers /\ handler[h] \in HandlerState
    BY <1>1 DEF TypeOK
  <2>2. handler[h].at \in Place
    BY <2>1 DEF HandlerState, Place
  <2>3. run' = "returned" => handler[h].at \notin {"stored", "chained", "taken", "queued"}
    BY <2>1 DEF OutstandingWork
  <2> QED BY <1>1, <2>2, <2>3 DEF PromiseInv, Place
<1> QED BY <1>3, <1>4, <1>5, <1>6 DEF IInv

\* The handlers of the storages are collected, and the storages empty.
LEMMA ShutdownStep ==
  ASSUME IInv, Shutdown
  PROVE  IInv'
<1> DEFINE Q == Elements(queue)
           u == [s \in Storages |-> [storage[s] EXCEPT !.handler = Null]]
           m == [h \in Handlers |-> IF handler[h].at = "stored"
                                    THEN [handler[h] EXCEPT !.at = "chained"] ELSE handler[h]]
           new == <<Frame("chain", Null), Frame("queue", Null)>>
           B == Elements(Collected)
<1>1. /\ Idle /\ run \in {"returned", "stopped"} /\ roots = {} /\ shutdown' = TRUE
      /\ chain' = Collected /\ storage' = u /\ handler' = m /\ stack' = new
      /\ UNCHANGED <<listed, queue, roots, run, promised, ends>>
  BY DEF Shutdown
<1>2. /\ stack = << >> /\ ~shutdown /\ run # "gone" /\ chain = << >>
      /\ \A do : On(stack, do) = {}
  BY <1>1, Idles
<1>3. /\ TypeOK /\ ListInv /\ ShutdownInv /\ EndsInv /\ PromiseInv
      /\ Distinct(chain) /\ Distinct(queue)
  BY Whole
<1>4. Core(storage, handler, {}, {}, {}, {}, {}, Q, {}, Null, Null)
  <2>1. Elements(chain) = {}
    BY <1>2 DEF Elements
  <2> QED BY <1>1, <1>2, <2>1, Whole DEF Sound
<1>5. /\ Collected \in Seq(Handlers) /\ Distinct(Collected)
      /\ \A h \in Handlers : h \in B <=> \E s \in Storages : storage[s].handler = h
  <2>1. storage \in [Storages -> StorageState] /\ listed \in Seq(Storages)
    BY <1>3 DEF TypeOK
  <2>2. Slots(storage)
    BY <1>4 DEF Core
  <2>3. Distinct(listed) /\ \A s \in Storages : Slot(s) # Null => s \in Elements(listed)
    BY <1>2, <1>3, <2>2 DEF ListInv, Slots, Slot, Alive
  <2> QED BY <2>1, <2>2, <2>3, CollectedHandlers
<1>6. Core(u, m, {}, {}, {}, {}, B, Q, {}, Null, Null)
  <2>1. \A h \in Handlers : h \in B <=> h \in {} \/ \E s \in Storages : storage[s].handler = h
    BY <1>5
  <2> HIDE DEF B, Q
  <2> QED BY <1>4, <2>1, Chained
<1>7. /\ Orderly(new) /\ On(new, "chain") = {Null} /\ On(new, "queue") = {Null}
      /\ \A do \in {"continue", "release", "enqueue", "close"} : On(new, do) = {}
  BY BottomStack
<1>8. storage \in [Storages -> StorageState] /\ handler \in [Handlers -> HandlerState]
  BY <1>3 DEF TypeOK
<1>9. \A s \in Storages : u[s].handler = Null
  BY <1>8 DEF StorageState
<1>10. \A h \in Handlers : m[h].at = IF handler[h].at = "stored" THEN "chained"
                                     ELSE handler[h].at
  BY <1>8 DEF HandlerState
<1> HIDE DEF new, u, m
<1>11. Sound(stack', storage', handler', Elements(chain'), Elements(queue'), roots', Null)
  BY <1>1, <1>6, <1>7 DEF Sound
<1>12. /\ CoreInv'
       /\ storage' \in [Storages -> StorageState] /\ handler' \in [Handlers -> HandlerState]
       /\ stack' \in Seq(Call) /\ roots' \subseteq Storages
  BY <1>1, <1>3, <1>5, <1>11, StaysSound
<1>13. Passes(handler, handler')
  BY <1>1, <1>10 DEF Passes
<1>14. EndsInv' /\ PromiseInv' /\ promised' \subseteq Handlers
  BY <1>1, <1>3, <1>13, Histories
<1>15. TypeOK'
  BY <1>1, <1>3, <1>5, <1>12, <1>14 DEF TypeOK
<1>16. ListInv'
  BY <1>1 DEF ListInv
<1>17. ShutdownInv'
  BY <1>1, <1>7, <1>9 DEF ShutdownInv, Slot
<1> QED BY <1>12, <1>14, <1>15, <1>16, <1>17 DEF IInv

-----------------------------------------------------------------------------
(* The invariant. *)

LEMMA Initially == Init => IInv
<1> SUFFICES ASSUME Init PROVE IInv
  OBVIOUS
<1>1. /\ storage = [s \in Storages |-> [life |-> "none", handler |-> Null]]
      /\ listed = << >> /\ shutdown = FALSE
      /\ handler = [h \in Handlers |-> Unborn]
      /\ stack = << >> /\ chain = << >> /\ queue = << >>
      /\ roots = {} /\ run = "running" /\ promised = {}
      /\ ends = [h \in Handlers |-> 0]
  BY DEF Init
<1>2. Null \notin Storages /\ Null \notin Handlers
  BY StorageAssumption
<1>3. /\ storage \in [Storages -> StorageState]
      /\ \A s \in Storages : storage[s].life = "none" /\ storage[s].handler = Null
  BY <1>1 DEF StorageState
<1>4. /\ NoContinuation \in Continuation /\ Unborn \in HandlerState
      /\ Unborn.at = "unborn" /\ Unborn.owns = {} /\ Unborn.then = NoContinuation
  BY DEF NoContinuation, Continuation, Unborn, HandlerState
<1>5. /\ handler \in [Handlers -> HandlerState]
      /\ \A h \in Handlers : /\ handler[h].at = "unborn" /\ handler[h].owns = {}
                             /\ handler[h].then = NoContinuation
  BY <1>1, <1>4
<1>6. /\ Orderly(stack) /\ \A do : On(stack, do) = {}
  BY <1>1, EmptyStack
<1>7. /\ Elements(chain) = {} /\ Elements(queue) = {} /\ Elements(listed) = {}
      /\ Distinct(chain) /\ Distinct(queue) /\ Distinct(listed)
  BY <1>1 DEF Elements, Distinct
<1>8. OwnedBy(handler) = {}
  BY <1>5, Owners
<1>9. Core(storage, handler, {}, {}, {}, {}, {}, {}, {}, Null, Null)
  <2>1. Typed(storage, handler, {})
    BY <1>3, <1>5 DEF Typed
  <2>2. Places(storage, handler, {}, {}, {}, {}, {})
    BY <1>2, <1>3, <1>5 DEF Places
  <2>3. Slots(storage)
    BY <1>3 DEF Slots
  <2>4. Closing(storage, handler, {}, {}, Null)
    BY <1>2, <1>3, <1>8 DEF Closing
  <2>5. \A g \in Handlers : ~Will(handler, {}, Null, g) /\ handler[g].at # "bound"
    BY <1>2, <1>5 DEF Will
  <2>6. Continuing(handler, {}, Null)
    BY <2>5 DEF Continuing, WillStore
  <2> QED BY <2>1, <2>2, <2>3, <2>4, <2>6 DEF Core
<1>10. CoreInv
  BY <1>1, <1>6, <1>7, <1>9 DEF CoreInv
<1>11. TypeOK
  <2>1. /\ listed \in Seq(Storages) /\ stack \in Seq(Call)
        /\ chain \in Seq(Handlers) /\ queue \in Seq(Handlers)
    BY <1>1
  <2>2. ends \in [Handlers -> Nat]
    BY <1>1
  <2>3. shutdown \in BOOLEAN /\ roots \subseteq Storages /\ promised \subseteq Handlers
        /\ run \in {"running", "returned", "stopped", "gone"}
    BY <1>1
  <2> QED BY <1>3, <1>5, <2>1, <2>2, <2>3 DEF TypeOK
<1>12. ListInv
  <2>1. {s \in Storages : Alive(s)} = {}
    BY <1>3 DEF Alive
  <2> QED BY <1>7, <2>1 DEF ListInv
<1>13. ShutdownInv /\ PromiseInv
  BY <1>1, <1>6 DEF ShutdownInv, PromiseInv
<1>14. EndsInv
  BY <1>1, <1>5 DEF EndsInv
<1> QED BY <1>10, <1>11, <1>12, <1>13, <1>14 DEF IInv

LEMMA Stepwise == IInv /\ [Next]_vars => IInv'
<1> SUFFICES ASSUME IInv, [Next]_vars PROVE IInv'
  OBVIOUS
<1>1. CASE InCall
  BY <1>1, ContinueStep, ReleaseStep, CloseStep, EnqueueStep, DestroyChainedStep,
     DestroyQueuedStep DEF InCall
<1>2. CASE Program
  <2>1. ASSUME NEW s \in Storages,
               \/ Construct(s) \/ ClearStorage(s) \/ PostStored(s) \/ DropStorage(s)
        PROVE  IInv'
    BY <2>1, ConstructStep, ClearStorageStep, PostStoredStep, DropStorageStep
  <2>2. ASSUME NEW s \in Storages, NEW from \in Storages, MoveConstruct(s, from)
        PROVE  IInv'
    BY <2>2, MoveConstructStep
  <2>3. ASSUME NEW s \in Storages, NEW h \in Handlers, StoreHandler(s, h)
        PROVE  IInv'
    BY <2>3, StoreHandlerStep
  <2>4. ASSUME StopRun PROVE IInv'
    BY <2>4, RunEnds DEF StopRun
  <2> QED BY <1>2, <2>1, <2>2, <2>3, <2>4, ShutdownStep DEF Program
<1>3. CASE Invoke
  BY <1>3, InvokeStep
<1>4. CASE RunReturns
  BY <1>4, RunEnds DEF RunReturns
<1>5. CASE UNCHANGED vars
  <2>1. UNCHANGED <<storage, listed, shutdown, handler, stack, chain, queue, roots, run,
                    promised, ends>>
    BY <1>5 DEF vars
  <2>2. /\ TypeOK /\ ListInv /\ ShutdownInv /\ EndsInv /\ PromiseInv
        /\ Distinct(chain) /\ Distinct(queue)
        /\ Sound(stack, storage, handler, Elements(chain), Elements(queue), roots, Null)
    BY Whole
  <2>3. Sound(stack', storage', handler', Elements(chain'), Elements(queue'), roots', Null)
    BY <2>1, <2>2
  <2>4. CoreInv'
    BY <2>1, <2>2, <2>3, StaysSound
  <2>5. TypeOK' /\ ListInv' /\ EndsInv' /\ PromiseInv'
    BY <2>1, <2>2 DEF TypeOK, ListInv, Alive, EndsInv, PromiseInv
  <2>6. ShutdownInv'
    BY <2>1, <2>2 DEF ShutdownInv, Slot
  <2> QED BY <2>4, <2>5, <2>6 DEF IInv
<1> QED BY <1>1, <1>2, <1>3, <1>4, <1>5 DEF Next

(***************************************************************************)
(* The types, and who keeps what alive: the handlers that are stored,      *)
(* posted or on the way to be destroyed are each known to one place, the   *)
(* storages that live are pointed to or about to be closed, and a          *)
(* continuation still to be called owns the storage it uses.               *)
(***************************************************************************)
THEOREM Invariant == Spec => []IInv
BY Initially, Stepwise, PTL DEF Spec

-----------------------------------------------------------------------------
(* What the invariant says of the properties. *)

LEMMA SoundStorages == IInv => StoragesSound
<1> SUFFICES ASSUME IInv PROVE StoragesSound
  OBVIOUS
<1>1. TypeOK /\ ListInv
  BY Whole
<1>2. Core(storage, handler, On(stack, "continue"), On(stack, "release"),
           On(stack, "enqueue"), On(stack, "close"), Elements(chain), Elements(queue), roots,
           Null, Null)
  BY Whole DEF Sound
<1>3. Slots(storage)
  BY <1>2 DEF Core
<1>4. ASSUME NEW s \in Storages, Slot(s) # Null
      PROVE  Alive(s) /\ handler[Slot(s)].at = "stored"
  <2>1. Slot(s) \in Handlers
    BY <1>1, <1>4 DEF TypeOK, StorageState, Slot
  <2>2. handler[Slot(s)].at = "stored"
    BY <1>2, <2>1 DEF Core, Places, Slot
  <2> QED BY <1>3, <1>4, <2>2 DEF Slots, Slot, Alive
<1>5. \A s, t \in Storages : Slot(s) = Slot(t) => s = t \/ Slot(s) = Null
  BY <1>3 DEF Slots, Slot
<1>6. \A s \in Storages : ~shutdown => (Alive(s) <=> \E i \in DOMAIN listed : listed[i] = s)
  BY <1>1 DEF ListInv, Elements
<1>7. Running("continue") /\ handler[Subject].then.op # "none" =>
        Alive(handler[Subject].then.on)
  <2> SUFFICES ASSUME Running("continue"), handler[Subject].then.op # "none"
               PROVE  Alive(handler[Subject].then.on)
    OBVIOUS
  <2>1. Orderly(stack) /\ Subject \in On(stack, "continue")
    BY Calling
  <2>2. Subject \in Handlers
    BY <2>1, ContinueReleases
  <2> HIDE DEF Subject
  <2> DEFINE h == Subject
  <2> HIDE DEF h
  <2>3. h \in Handlers /\ h \in On(stack, "continue") /\ handler[h].then.op # "none"
    BY <2>1, <2>2 DEF h
  <2>4. storage[handler[h].then.on].life = "alive"
    <3>1. handler[h].then.on \in handler[h].owns
      BY <1>2, <2>3 DEF Core, Continuing, Will
    <3>2. handler[h].then.on \in OwnedBy(handler)
      BY <2>3, <3>1, Owners
    <3> QED BY <1>2, <3>2 DEF Core, Closing
  <2> QED BY <2>4 DEF Alive, h
<1> QED BY <1>1, <1>4, <1>5, <1>6, <1>7 DEF StoragesSound

(***************************************************************************)
(* A storage holds what is stored in it and nothing that another one       *)
(* holds, it is in impl_list_ as long as it lives, and the continuation of *)
(* a handler never calls a storage that is destroyed.                      *)
(***************************************************************************)
THEOREM StoragesAreSound == Spec => []StoragesSound
BY Invariant, SoundStorages, PTL

LEMMA OnceDestroyed == IInv => DestroyedOnce
<1> SUFFICES ASSUME IInv PROVE DestroyedOnce
  OBVIOUS
<1>1. TypeOK /\ ShutdownInv /\ EndsInv
  BY Whole
<1>2. \A h \in Handlers : ends[h] <= 1
  BY <1>1 DEF EndsInv
<1>3. ASSUME run = "gone"
      PROVE  /\ \A h \in Handlers : handler[h].at \in {"unborn", "ended"}
             /\ \A s \in Storages : storage[s].life # "alive"
  <2>1. /\ shutdown /\ stack = << >> /\ queue = << >> /\ roots = {} /\ chain = << >>
        /\ \A s \in Storages : storage[s].handler = Null
    BY <1>1, <1>3, EmptyStack DEF ShutdownInv, Slot
  <2>2. \A do : On(stack, do) = {}
    BY <2>1, EmptyStack
  <2>3. Elements(chain) = {} /\ Elements(queue) = {}
    BY <2>1 DEF Elements
  <2>4. Core(storage, handler, {}, {}, {}, {}, {}, {}, {}, Null, Null)
    BY <2>1, <2>2, <2>3, Whole DEF Sound
  <2>5. Null \notin Handlers /\ Null \notin Storages
    BY StorageAssumption
  <2>6. ASSUME NEW h \in Handlers PROVE handler[h].at \in {"unborn", "ended"}
    <3>1. handler[h].at \in Place
      BY <1>1 DEF TypeOK, HandlerState, Place
    <3>2. handler[h].at \notin {"dying", "taken", "chained", "queued", "stored"}
      BY <2>1, <2>4, <2>5 DEF Core, Places
    <3>3. \A g \in Handlers : ~WillStore(handler, {}, Null, g)
      BY <2>1, <2>4, <2>5 DEF Core, Places, WillStore, Will
    <3>4. handler[h].at # "bound"
      BY <2>4, <2>5, <3>3 DEF Core, Continuing
    <3> QED BY <3>1, <3>2, <3>4 DEF Place
  <2>7. OwnedBy(handler) = {}
    <3>1. \A h \in Handlers : handler[h].owns = {}
      BY <2>4, <2>6 DEF Core, Places
    <3> QED BY <3>1, Owners
  <2>8. \A s \in Storages : storage[s].life # "alive"
    BY <2>4, <2>5, <2>7 DEF Core, Closing
  <2> QED BY <2>6, <2>8
<1> QED BY <1>2, <1>3 DEF DestroyedOnce

(***************************************************************************)
(* Each handler is destroyed once, and when the io_service is gone so are  *)
(* all the handlers and all the storages, the ones that own themselves     *)
(* included.                                                               *)
(***************************************************************************)
THEOREM DestroyedOnceOnly == Spec => []DestroyedOnce
BY Invariant, OnceDestroyed, PTL

LEMMA PromisesKept == IInv => WorkUntilCalled
BY Whole DEF PromiseInv, WorkUntilCalled

(***************************************************************************)
(* The threads do not find the io_service without work while a handler     *)
(* that was stored before is neither called nor destroyed, in the middle   *)
(* of post included.                                                       *)
(***************************************************************************)
THEOREM WorksUntilCalled == Spec => []WorkUntilCalled
BY Invariant, PromisesKept, PTL

-----------------------------------------------------------------------------
(***************************************************************************)
(* The intrusive lists.  q is the sequence that a list is, f and b the     *)
(* pointers to its ends, nxt and prv the hooks.                            *)
(***************************************************************************)

\* What is at a position of q, also at the positions before and behind it.
At(q, i) == IF i \in DOMAIN q THEN q[i] ELSE Nil

\* From f the pointers nxt lead through q, and end there.
Threaded(q, f, nxt) ==
  f = At(q, 1) /\ \A i \in DOMAIN q : nxt[q[i]] = At(q, i + 1)

\* The pointers prv lead back.
Backed(q, prv) == \A i \in DOMAIN q : prv[q[i]] = At(q, i - 1)

\* What next reaches from f: Content(l) is Walk(front[l], next).
Walk(f, nxt) ==
  LET at[k \in 1..Cardinality(Nodes)] ==
        IF k = 1 THEN f
        ELSE IF at[k - 1] = Nil THEN Nil ELSE nxt[at[k - 1]]
  IN  [k \in {i \in 1..Cardinality(Nodes) : \A j \in 1..i : at[j] # Nil}
         |-> at[k]]

\* Distinct objects are not more than there are.
LEMMA AtMostAll ==
  ASSUME NEW q \in Seq(Nodes), Distinct(q)
  PROVE  Len(q) \in 0..Cardinality(Nodes) /\ Cardinality(Nodes) \in Nat
<1> DEFINE n == Len(q)
<1>1. n \in Nat /\ DOMAIN q = 1..n /\ q \in [1..n -> Nodes]
  OBVIOUS
<1>2. q \in Injection(1..n, Nodes)
  BY <1>1 DEF Distinct, Injection, IsInjective
<1>3. Cardinality(1..n) = n /\ IsFiniteSet(1..n)
  BY <1>1, FS_Interval
<1>4. IsFiniteSet(Nodes) /\ Cardinality(Nodes) \in Nat
  BY ListAssumption, FS_CardinalityType
<1> HIDE DEF n
<1>5. n <= Cardinality(Nodes)
  BY <1>2, <1>3, <1>4, FS_Injection
<1> QED BY <1>1, <1>4, <1>5 DEF n

\* The walk through a threaded sequence finds the sequence.
LEMMA WalksThrough ==
  ASSUME NEW q \in Seq(Nodes), Distinct(q), NEW f, NEW nxt, Threaded(q, f, nxt)
  PROVE  Walk(f, nxt) = q
<1> DEFINE n == Cardinality(Nodes)
           g == [k \in 1..n |-> At(q, k)]
           Next1(a) == IF a = Nil THEN Nil ELSE nxt[a]
           at == CHOOSE h : h = [k \in 1..n |-> IF k = 1 THEN f ELSE Next1(h[k - 1])]
<1>1. n \in Nat /\ Len(q) \in 0..n /\ DOMAIN q = 1..Len(q)
  BY AtMostAll
<1>2. \A i \in DOMAIN q : q[i] # Nil /\ nxt[q[i]] = At(q, i + 1)
  BY ListAssumption DEF Threaded
<1>3. f = At(q, 1)
  BY DEF Threaded
<1>4. ASSUME NEW k \in 1..n, k # 1 PROVE g[k] = Next1(g[k - 1])
  <2>1. k - 1 \in 1..n /\ (k - 1) + 1 = k
    BY <1>1, <1>4
  <2>2. g[k] = At(q, k) /\ g[k - 1] = At(q, k - 1)
    BY <2>1
  <2>3. CASE k - 1 \in DOMAIN q
    <3>1. At(q, k - 1) = q[k - 1] /\ q[k - 1] # Nil
      BY <1>2, <2>3 DEF At
    <3>2. nxt[q[k - 1]] = At(q, k)
      BY <1>2, <2>1, <2>3
    <3> QED BY <2>2, <3>1, <3>2
  <2>4. CASE k - 1 \notin DOMAIN q
    <3>1. k \notin DOMAIN q
      BY <1>1, <2>1, <2>4
    <3> QED BY <2>2, <2>4, <3>1 DEF At
  <2> QED BY <2>3, <2>4
<1>5. g = [k \in 1..n |-> IF k = 1 THEN f ELSE Next1(g[k - 1])]
  BY <1>3, <1>4
<1>6. at = [k \in 1..n |-> IF k = 1 THEN f ELSE Next1(at[k - 1])]
  <2> HIDE DEF g, Next1
  <2> QED BY <1>5
<1>7. ASSUME NEW k \in 1..n PROVE at[k] = g[k]
  <2> HIDE DEF at, g, Next1
  <2> DEFINE S == {i \in 0..n : i # 0 => at[i] = g[i]}
  <2>1. 0 \in S
    BY <1>1
  <2>2. ASSUME NEW i \in 1..n, i - 1 \in S PROVE i \in S
    <3>1. CASE i = 1
      BY <1>1, <1>5, <1>6, <3>1
    <3>2. CASE i # 1
      <4>1. at[i - 1] = g[i - 1]
        BY <1>1, <2>2, <3>2
      <4>2. at[i] = Next1(at[i - 1]) /\ g[i] = Next1(g[i - 1])
        BY <1>5, <1>6, <3>2
      <4>3. at[i] = g[i]
        BY <4>1, <4>2
      <4> QED BY <1>1, <4>3
    <3> QED BY <3>1, <3>2
  <2> HIDE DEF S
  <2>3. \A i \in 0..n : i \in S
    BY <1>1, <2>1, <2>2, UpTo
  <2>4. k \in S /\ k # 0
    BY <1>1, <2>3
  <2> QED BY <2>4 DEF S
<1>8. \A k \in 1..n : at[k] = At(q, k)
  BY <1>7
<1> DEFINE D == {i \in 1..n : \A j \in 1..i : at[j] # Nil}
<1>9. Walk(f, nxt) = [k \in D |-> at[k]]
  BY DEF Walk
<1> HIDE DEF at, g
<1>10. D = DOMAIN q
  <2>1. ASSUME NEW i \in DOMAIN q PROVE i \in D
    <3>1. i \in 1..n /\ \A j \in 1..i : j \in DOMAIN q /\ j \in 1..n
      BY <1>1
    <3>2. \A j \in 1..i : at[j] # Nil
      BY <1>2, <1>8, <3>1 DEF At
    <3> QED BY <3>1, <3>2
  <2>2. ASSUME NEW i \in D PROVE i \in DOMAIN q
    <3>1. i \in 1..n /\ i \in 1..i /\ at[i] # Nil
      BY <1>1
    <3> QED BY <1>8, <3>1 DEF At
  <2> QED BY <2>1, <2>2
<1>11. \A k \in D : at[k] = q[k]
  BY <1>8, <1>10 DEF At
<1> HIDE DEF D
<1>12. q = [k \in D |-> q[k]]
  BY <1>10
<1> QED BY <1>9, <1>11, <1>12

Hooks == [Nodes -> Pointer]

\* A hook of an absent object is not set.
LEMMA HookSet ==
  ASSUME NEW hooks \in Hooks, NEW v \in Pointer, NEW w
  PROVE  /\ \A x \in Nodes : SetHook(hooks, v, w)[x] = IF x = v THEN w ELSE hooks[x]
         /\ w \in Pointer => SetHook(hooks, v, w) \in Hooks
<1>1. CASE v = Nil
  BY <1>1, ListAssumption DEF SetHook, Hooks
<1>2. CASE v # Nil
  BY <1>2 DEF SetHook, Hooks, Pointer
<1> QED BY <1>1, <1>2

\* A pointer to a position, and the ends of a sequence.
LEMMA Positions ==
  ASSUME NEW q \in Seq(Nodes)
  PROVE  /\ Len(q) \in Nat /\ DOMAIN q = 1..Len(q)
         /\ \A i \in DOMAIN q : q[i] \in Nodes /\ q[i] # Nil /\ At(q, i) = q[i]
         /\ \A i : At(q, i) \in Pointer
         /\ \A i : i \notin DOMAIN q => At(q, i) = Nil
         /\ q = << >> <=> At(q, 1) = Nil
         /\ q = << >> <=> At(q, Len(q)) = Nil
         /\ q = << >> <=> Len(q) = 0
<1>1. Len(q) \in Nat /\ DOMAIN q = 1..Len(q)
  OBVIOUS
<1>2. \A i \in DOMAIN q : q[i] \in Nodes /\ q[i] # Nil /\ At(q, i) = q[i]
  BY ListAssumption DEF At
<1>3. \A i : At(q, i) \in Pointer
  BY <1>2 DEF At, Pointer
<1>4. \A i : i \notin DOMAIN q => At(q, i) = Nil
  BY DEF At
<1>5. CASE Len(q) = 0
  <2>1. q = << >> /\ 1 \notin DOMAIN q /\ Len(q) \notin DOMAIN q
    BY <1>5
  <2> QED BY <1>1, <1>2, <1>3, <1>4, <1>5, <2>1
<1>6. CASE Len(q) # 0
  <2>1. q # << >> /\ 1 \in DOMAIN q /\ Len(q) \in DOMAIN q
    BY <1>6
  <2> QED BY <1>1, <1>2, <1>3, <1>4, <1>6, <2>1
<1> QED BY <1>5, <1>6

\* Other hooks do not matter to a sequence.
LEMMA Untouched ==
  ASSUME NEW q, NEW f, NEW nxt, NEW new, \A v \in Elements(q) : new[v] = nxt[v]
  PROVE  /\ Threaded(q, f, nxt) => Threaded(q, f, new)
         /\ Backed(q, nxt) => Backed(q, new)
<1>1. \A i \in DOMAIN q : new[q[i]] = nxt[q[i]]
  BY DEF Elements
<1> QED BY <1>1 DEF Threaded, Backed

\* One list behind the other.
LEMMA Joined ==
  ASSUME NEW q \in Seq(Nodes), NEW r \in Seq(Nodes), Distinct(q), Distinct(r),
         Elements(q) \cap Elements(r) = {}
  PROVE  /\ q \o r \in Seq(Nodes) /\ Distinct(q \o r)
         /\ Elements(q \o r) = Elements(q) \cup Elements(r)
         /\ Len(q \o r) = Len(q) + Len(r)
         /\ \A i \in DOMAIN q : i \in DOMAIN (q \o r) /\ (q \o r)[i] = q[i]
         /\ \A i \in DOMAIN r : /\ Len(q) + i \in DOMAIN (q \o r)
                                /\ (q \o r)[Len(q) + i] = r[i]
         /\ \A i \in DOMAIN (q \o r) :
              i \in DOMAIN q \/ \E j \in DOMAIN r : i = Len(q) + j
<1> DEFINE c == q \o r
<1>1. /\ Len(q) \in Nat /\ DOMAIN q = 1..Len(q)
      /\ Len(r) \in Nat /\ DOMAIN r = 1..Len(r)
  OBVIOUS
<1>2. /\ c \in Seq(Nodes) /\ Len(c) = Len(q) + Len(r)
      /\ \A i \in 1..Len(q) + Len(r) :
           c[i] = IF i <= Len(q) THEN q[i] ELSE r[i - Len(q)]
  BY ConcatProperties
<1> HIDE DEF c
<1>3. DOMAIN c = 1..Len(q) + Len(r)
  BY <1>2
<1>4. \A i \in DOMAIN q : i \in DOMAIN c /\ c[i] = q[i]
  BY <1>1, <1>2, <1>3
<1>5. ASSUME NEW i \in DOMAIN r
      PROVE  Len(q) + i \in DOMAIN c /\ c[Len(q) + i] = r[i]
  <2>1. /\ Len(q) + i \in 1..Len(q) + Len(r) /\ ~(Len(q) + i <= Len(q))
        /\ (Len(q) + i) - Len(q) = i
    BY <1>1
  <2> QED BY <1>2, <1>3, <2>1
<1>6. ASSUME NEW i \in DOMAIN c
      PROVE  i \in DOMAIN q \/ \E j \in DOMAIN r : i = Len(q) + j
  <2>1. CASE i <= Len(q)
    BY <1>1, <1>3, <2>1
  <2>2. CASE ~(i <= Len(q))
    <3>1. i - Len(q) \in DOMAIN r /\ i = Len(q) + (i - Len(q))
      BY <1>1, <1>3, <2>2
    <3> QED BY <3>1
  <2> QED BY <2>1, <2>2
<1>7. ASSUME NEW v PROVE v \in Elements(c) <=> v \in Elements(q) \cup Elements(r)
  <2>1. v \in Elements(q) => v \in Elements(c)
    BY <1>4 DEF Elements
  <2>2. v \in Elements(r) => v \in Elements(c)
    BY <1>5 DEF Elements
  <2>3. ASSUME v \in Elements(c) PROVE v \in Elements(q) \cup Elements(r)
    <3>1. PICK i \in DOMAIN c : v = c[i]
      BY <2>3 DEF Elements
    <3>2. CASE i \in DOMAIN q
      BY <1>4, <3>1, <3>2 DEF Elements
    <3>3. CASE \E j \in DOMAIN r : i = Len(q) + j
      BY <1>5, <3>1, <3>3 DEF Elements
    <3> QED BY <1>6, <3>2, <3>3
  <2> QED BY <2>1, <2>2, <2>3
<1>8. ASSUME NEW i \in DOMAIN c, NEW j \in DOMAIN c, c[i] = c[j] PROVE i = j
  <2>1. \A k \in DOMAIN q, m \in DOMAIN r : q[k] # r[m]
    BY DEF Elements
  <2>2. CASE i \in DOMAIN q
    <3>1. j \in DOMAIN q
      BY <1>4, <1>5, <1>6, <1>8, <2>1, <2>2
    <3> QED BY <1>4, <1>8, <2>2, <3>1 DEF Distinct
  <2>3. CASE \E k \in DOMAIN r : i = Len(q) + k
    <3>1. PICK k \in DOMAIN r : i = Len(q) + k
      BY <2>3
    <3>2. c[i] = r[k]
      BY <1>5, <3>1
    <3>3. j \notin DOMAIN q
      BY <1>4, <1>8, <2>1, <3>2
    <3>4. PICK m \in DOMAIN r : j = Len(q) + m
      BY <1>6, <3>3
    <3>5. c[j] = r[m]
      BY <1>5, <3>4
    <3>6. k = m
      BY <1>8, <3>2, <3>5 DEF Distinct
    <3> QED BY <3>1, <3>4, <3>6
  <2> QED BY <1>6, <2>2, <2>3
<1>9. Elements(c) = Elements(q) \cup Elements(r)
  BY <1>7
<1> QED BY <1>2, <1>4, <1>5, <1>6, <1>8, <1>9 DEF c, Distinct

LEMMA JoinedElements ==
  ASSUME NEW q \in Seq(Nodes), NEW r \in Seq(Nodes), Distinct(q), Distinct(r),
         Elements(q) \cap Elements(r) = {}
  PROVE  q \o r \in Seq(Nodes) /\ Elements(q \o r) = Elements(q) \cup Elements(r)
BY Joined

\* The hooks of the last of q and the first of r are set: q goes on with r.
LEMMA JoinedThreads ==
  ASSUME NEW q \in Seq(Nodes), NEW r \in Seq(Nodes), Distinct(q), Distinct(r),
         Elements(q) \cap Elements(r) = {},
         NEW f, NEW g, NEW nxt \in Hooks,
         Threaded(q, f, nxt), Threaded(r, g, nxt)
  PROVE  Threaded(q \o r, IF f = Nil THEN g ELSE f, SetHook(nxt, At(q, Len(q)), g))
<1> DEFINE c == q \o r
           new == SetHook(nxt, At(q, Len(q)), g)
           e == At(q, Len(q))
<1>1. /\ Len(q) \in Nat /\ DOMAIN q = 1..Len(q)
      /\ Len(r) \in Nat /\ DOMAIN r = 1..Len(r)
  OBVIOUS
<1>2. /\ c \in Seq(Nodes) /\ Len(c) = Len(q) + Len(r)
      /\ \A i \in DOMAIN q : i \in DOMAIN c /\ c[i] = q[i]
      /\ \A i \in DOMAIN r : Len(q) + i \in DOMAIN c /\ c[Len(q) + i] = r[i]
      /\ \A i \in DOMAIN c : i \in DOMAIN q \/ \E j \in DOMAIN r : i = Len(q) + j
  BY Joined
<1>3. f = At(q, 1) /\ g = At(r, 1)
  BY DEF Threaded
<1>4. \A x \in Nodes : new[x] = IF x = e THEN g ELSE nxt[x]
  <2>1. At(q, Len(q)) \in Pointer /\ At(r, 1) \in Pointer
    BY Positions
  <2> HIDE DEF c
  <2> QED BY <1>3, <2>1, HookSet
<1> HIDE DEF c, new, e
<1>5. \A i \in DOMAIN q : q[i] = e <=> i = Len(q)
  BY <1>1, Positions DEF e, Distinct
<1>6. \A i \in DOMAIN r : r[i] # e
  <2>1. e = Nil \/ e \in Elements(q)
    BY DEF e, At, Elements
  <2>2. \A i \in DOMAIN r : r[i] # Nil /\ r[i] \in Elements(r)
    BY Positions DEF Elements
  <2> QED BY <2>1, <2>2
<1>7. \A i \in 1..Len(q) : At(c, i) = At(q, i)
  BY <1>1, <1>2 DEF At
<1>8. \A i \in 1..Len(r) + 1 : At(c, Len(q) + i) = At(r, i)
  <2> SUFFICES ASSUME NEW i \in 1..Len(r) + 1 PROVE At(c, Len(q) + i) = At(r, i)
    OBVIOUS
  <2>1. CASE i \in DOMAIN r
    BY <1>2, <2>1 DEF At
  <2>2. CASE i \notin DOMAIN r
    <3>1. Len(q) + i \notin DOMAIN c
      BY <1>1, <1>2, <2>2
    <3> QED BY <2>2, <3>1 DEF At
  <2> QED BY <2>1, <2>2
<1>9. (IF f = Nil THEN g ELSE f) = At(c, 1)
  <2>1. CASE q = << >>
    <3>0. At(q, 1) = Nil
      BY <2>1, Positions
    <3>1. f = Nil /\ Len(q) = 0 /\ 1 \in 1..Len(r) + 1 /\ Len(q) + 1 = 1
      BY <1>1, <1>3, <2>1, <3>0
    <3> QED BY <1>3, <1>8, <3>1
  <2>2. CASE q # << >>
    <3>1. f # Nil /\ 1 \in 1..Len(q)
      BY <1>1, <1>3, <2>2, Positions
    <3> QED BY <1>3, <1>7, <3>1
  <2> QED BY <2>1, <2>2
<1>10. ASSUME NEW i \in DOMAIN c PROVE new[c[i]] = At(c, i + 1)
  <2>1. CASE i \in DOMAIN q /\ i # Len(q)
    <3>1. i + 1 \in 1..Len(q) /\ q[i] \in Nodes /\ q[i] # e /\ c[i] = q[i]
      BY <1>1, <1>2, <1>5, <2>1
    <3>2. nxt[q[i]] = At(q, i + 1)
      BY <2>1 DEF Threaded
    <3> QED BY <1>4, <1>7, <3>1, <3>2
  <2>2. CASE i \in DOMAIN q /\ i = Len(q)
    <3>1. q[i] \in Nodes /\ q[i] = e /\ c[i] = q[i] /\ 1 \in 1..Len(r) + 1
      BY <1>1, <1>2, <1>5, <2>2
    <3> QED BY <1>3, <1>4, <1>8, <2>2, <3>1
  <2>3. CASE \E j \in DOMAIN r : i = Len(q) + j
    <3>1. PICK j \in DOMAIN r : i = Len(q) + j
      BY <2>3
    <3>2. c[i] = r[j] /\ r[j] \in Nodes /\ r[j] # e
      BY <1>2, <1>6, <3>1
    <3>3. nxt[r[j]] = At(r, j + 1)
      BY DEF Threaded
    <3>4. j + 1 \in 1..Len(r) + 1 /\ i + 1 = Len(q) + (j + 1)
      BY <1>1, <3>1
    <3> QED BY <1>4, <1>8, <3>2, <3>3, <3>4
  <2> QED BY <1>2, <2>1, <2>2, <2>3
<1> QED BY <1>9, <1>10 DEF Threaded, c, new

LEMMA JoinedBacks ==
  ASSUME NEW q \in Seq(Nodes), NEW r \in Seq(Nodes), Distinct(q), Distinct(r),
         Elements(q) \cap Elements(r) = {},
         NEW prv \in Hooks, Backed(q, prv), Backed(r, prv)
  PROVE  Backed(q \o r, SetHook(prv, At(r, 1), At(q, Len(q))))
<1> DEFINE c == q \o r
           new == SetHook(prv, At(r, 1), At(q, Len(q)))
           e == At(r, 1)
<1>1. /\ Len(q) \in Nat /\ DOMAIN q = 1..Len(q)
      /\ Len(r) \in Nat /\ DOMAIN r = 1..Len(r)
  OBVIOUS
<1>2. /\ c \in Seq(Nodes) /\ Len(c) = Len(q) + Len(r)
      /\ \A i \in DOMAIN q : i \in DOMAIN c /\ c[i] = q[i]
      /\ \A i \in DOMAIN r : Len(q) + i \in DOMAIN c /\ c[Len(q) + i] = r[i]
      /\ \A i \in DOMAIN c : i \in DOMAIN q \/ \E j \in DOMAIN r : i = Len(q) + j
  BY Joined
<1>3. \A x \in Nodes : new[x] = IF x = e THEN At(q, Len(q)) ELSE prv[x]
  <2>1. At(q, Len(q)) \in Pointer /\ At(r, 1) \in Pointer
    BY Positions
  <2> HIDE DEF c
  <2> QED BY <2>1, HookSet
<1> HIDE DEF c, new, e
<1>4. \A i \in DOMAIN r : r[i] = e <=> i = 1
  BY <1>1, Positions DEF e, Distinct
<1>5. \A i \in DOMAIN q : q[i] # e
  <2>1. e = Nil \/ e \in Elements(r)
    BY DEF e, At, Elements
  <2>2. \A i \in DOMAIN q : q[i] # Nil /\ q[i] \in Elements(q)
    BY Positions DEF Elements
  <2> QED BY <2>1, <2>2
<1>6. \A i \in 0..Len(q) : At(c, i) = At(q, i)
  <2> SUFFICES ASSUME NEW i \in 0..Len(q) PROVE At(c, i) = At(q, i)
    OBVIOUS
  <2>1. CASE i \in DOMAIN q
    BY <1>2, <2>1 DEF At
  <2>2. CASE i \notin DOMAIN q
    <3>1. i = 0
      BY <1>1, <2>2
    <3>2. i \notin DOMAIN c
      BY <1>2, <3>1
    <3> QED BY <2>2, <3>2 DEF At
  <2> QED BY <2>1, <2>2
<1>7. \A i \in DOMAIN r : At(c, Len(q) + i) = At(r, i)
  BY <1>2 DEF At
<1>8. ASSUME NEW i \in DOMAIN c PROVE new[c[i]] = At(c, i - 1)
  <2>1. CASE i \in DOMAIN q
    <3>1. i - 1 \in 0..Len(q) /\ q[i] \in Nodes /\ q[i] # e /\ c[i] = q[i]
      BY <1>1, <1>2, <1>5, <2>1
    <3>2. prv[q[i]] = At(q, i - 1)
      BY <2>1 DEF Backed
    <3> QED BY <1>3, <1>6, <3>1, <3>2
  <2>2. CASE \E j \in DOMAIN r : i = Len(q) + j
    <3>1. PICK j \in DOMAIN r : i = Len(q) + j
      BY <2>2
    <3>2. c[i] = r[j] /\ r[j] \in Nodes
      BY <1>2, <3>1
    <3>3. CASE j = 1
      <4>1. r[j] = e /\ i - 1 = Len(q) /\ Len(q) \in 0..Len(q)
        BY <1>1, <1>4, <3>1, <3>3
      <4> QED BY <1>3, <1>6, <3>2, <4>1
    <3>4. CASE j # 1
      <4>1. r[j] # e /\ j - 1 \in DOMAIN r /\ i - 1 = Len(q) + (j - 1)
        BY <1>1, <1>4, <3>1, <3>4
      <4>2. prv[r[j]] = At(r, j - 1)
        BY DEF Backed
      <4> QED BY <1>3, <1>7, <3>2, <4>1, <4>2
    <3> QED BY <3>3, <3>4
  <2> QED BY <1>2, <2>1, <2>2
<1> QED BY <1>8 DEF Backed, c, new

\* The ends of the whole.
LEMMA JoinedEnds ==
  ASSUME NEW q \in Seq(Nodes), NEW r \in Seq(Nodes), Distinct(q), Distinct(r),
         Elements(q) \cap Elements(r) = {}
  PROVE  At(q \o r, Len(q \o r)) =
           IF r = << >> THEN At(q, Len(q)) ELSE At(r, Len(r))
<1> DEFINE c == q \o r
<1>1. /\ Len(q) \in Nat /\ DOMAIN q = 1..Len(q)
      /\ Len(r) \in Nat /\ DOMAIN r = 1..Len(r)
  OBVIOUS
<1>2. /\ c \in Seq(Nodes) /\ Len(c) = Len(q) + Len(r)
      /\ \A i \in DOMAIN r : Len(q) + i \in DOMAIN c /\ c[Len(q) + i] = r[i]
  BY Joined
<1>3. CASE r = << >>
  <2>1. c = q
    BY <1>3, ConcatEmptySeq
  <2> QED BY <1>3, <2>1
<1> HIDE DEF c
<1>4. CASE r # << >>
  <2>1. Len(r) \in DOMAIN r
    BY <1>1, <1>4
  <2>2. At(c, Len(c)) = r[Len(r)]
    BY <1>2, <2>1 DEF At
  <2> QED BY <1>4, <2>1, <2>2 DEF At, c
<1> QED BY <1>3, <1>4

LEMMA SameInterval ==
  ASSUME NEW m \in Nat, NEW n \in Nat, 1..m = 1..n
  PROVE  m = n
<1>1. CASE m < n
  <2>1. n \in 1..n /\ n \notin 1..m
    BY <1>1
  <2> QED BY <2>1
<1>2. CASE n < m
  <2>1. m \in 1..m /\ m \notin 1..n
    BY <1>2
  <2> QED BY <2>1
<1> QED BY <1>1, <1>2

\* q without the object at position i.
Without(q, i) == [k \in 1..Len(q) - 1 |-> q[IF k < i THEN k ELSE k + 1]]

LEMMA WithoutOne ==
  ASSUME NEW q \in Seq(Nodes), Distinct(q), NEW i \in DOMAIN q
  PROVE  /\ Without(q, i) \in Seq(Nodes) /\ Distinct(Without(q, i))
         /\ Len(Without(q, i)) = Len(q) - 1
         /\ Elements(Without(q, i)) = Elements(q) \ {q[i]}
         /\ \A k \in 0..i - 1 : At(Without(q, i), k) = At(q, k)
         /\ \A k \in i..Len(q) : At(Without(q, i), k) = At(q, k + 1)
<1> DEFINE w == Without(q, i)
           p(k) == IF k < i THEN k ELSE k + 1
<1>1. Len(q) \in Nat /\ DOMAIN q = 1..Len(q) /\ i \in 1..Len(q) /\ Len(q) - 1 \in Nat
  OBVIOUS
<1>2. \A k \in 1..Len(q) - 1 : p(k) \in 1..Len(q) /\ p(k) # i
  BY <1>1
<1>3. \A k \in 1..Len(q) - 1 : w[k] = q[p(k)] /\ w[k] \in Nodes
  BY <1>1, <1>2 DEF Without
<1>4. DOMAIN w = 1..Len(q) - 1
  BY DEF Without
<1>5. w \in Seq(Nodes)
  <2>1. w \in [1..Len(q) - 1 -> Nodes]
    BY <1>3 DEF Without
  <2> HIDE DEF w
  <2> QED BY <1>1, <2>1
<1> HIDE DEF w
<1>6. Len(w) = Len(q) - 1
  <2>1. Len(w) \in Nat /\ DOMAIN w = 1..Len(w)
    BY <1>5
  <2>2. 1..Len(w) = 1..Len(q) - 1
    BY <1>4, <2>1
  <2> QED BY <1>1, <2>1, <2>2, SameInterval
<1>7. Distinct(w)
  <2> SUFFICES ASSUME NEW j \in 1..Len(q) - 1, NEW k \in 1..Len(q) - 1, w[j] = w[k]
               PROVE  j = k
    BY <1>4 DEF Distinct
  <2>1. q[p(j)] = q[p(k)]
    BY <1>3
  <2>2. p(j) = p(k)
    BY <1>1, <1>2, <2>1 DEF Distinct
  <2> QED BY <1>1, <2>2
<1>8. Elements(w) = Elements(q) \ {q[i]}
  <2>1. ASSUME NEW v \in Elements(w) PROVE v \in Elements(q) \ {q[i]}
    <3>1. PICK k \in 1..Len(q) - 1 : v = w[k]
      BY <1>4 DEF Elements
    <3>2. v = q[p(k)]
      BY <1>3, <3>1
    <3> HIDE DEF p
    <3>3. q[p(k)] # q[i] /\ q[p(k)] \in Elements(q)
      BY <1>1, <1>2 DEF Distinct, Elements
    <3> QED BY <3>2, <3>3
  <2>2. ASSUME NEW v \in Elements(q) \ {q[i]} PROVE v \in Elements(w)
    <3>1. PICK m \in 1..Len(q) : v = q[m]
      BY <1>1 DEF Elements
    <3>2. m # i
      BY <3>1
    <3>3. PICK k \in 1..Len(q) - 1 : p(k) = m
      <4>1. CASE m < i
        <5>1. m \in 1..Len(q) - 1
          BY <1>1, <4>1
        <5> QED BY <4>1, <5>1
      <4>2. CASE m > i
        <5>1. m - 1 \in 1..Len(q) - 1 /\ ~(m - 1 < i) /\ (m - 1) + 1 = m
          BY <1>1, <4>2
        <5> QED BY <5>1
      <4> QED BY <1>1, <3>2, <4>1, <4>2
    <3> HIDE DEF p
    <3>4. w[k] = v
      BY <1>3, <3>1, <3>3
    <3> QED BY <1>4, <3>4 DEF Elements
  <2> QED BY <2>1, <2>2
<1>9. ASSUME NEW k \in 0..i - 1 PROVE At(w, k) = At(q, k)
  <2>1. CASE k = 0
    BY <1>1, <1>4, <2>1 DEF At
  <2>2. CASE k # 0
    <3>1. k \in 1..Len(q) - 1 /\ k \in 1..Len(q) /\ k < i
      BY <1>1, <2>2
    <3> QED BY <1>1, <1>3, <1>4, <3>1 DEF At
  <2> QED BY <2>1, <2>2
<1>10. ASSUME NEW k \in Nat, i <= k, k <= Len(q) PROVE At(w, k) = At(q, k + 1)
  <2>1. CASE k = Len(q)
    <3>1. k \notin 1..Len(q) - 1 /\ k + 1 \notin 1..Len(q)
      BY <1>1, <2>1
    <3> QED BY <1>1, <1>4, <3>1 DEF At
  <2>2. CASE k # Len(q)
    <3>1. k \in 1..Len(q) - 1 /\ k + 1 \in 1..Len(q) /\ ~(k < i)
      <4>1. ASSUME NEW n \in Nat, NEW j \in 1..n, NEW m \in Nat, j <= m, m <= n, m # n
            PROVE  m \in 1..n - 1 /\ m + 1 \in 1..n /\ ~(m < j)
        BY <4>1
      <4> QED BY <1>1, <1>10, <2>2, <4>1
    <3> QED BY <1>1, <1>3, <1>4, <3>1 DEF At
  <2> QED BY <2>1, <2>2
<1>11. \A k \in i..Len(q) : k \in Nat /\ i <= k /\ k <= Len(q)
  BY <1>1
<1>12. \A k \in i..Len(q) : At(w, k) = At(q, k + 1)
  BY <1>10, <1>11
<1> QED BY <1>5, <1>6, <1>7, <1>8, <1>9, <1>12 DEF w

\* The hooks new, where v is reset and e leads to w.
Bypass(hooks, new, v, e, w) ==
  \A x \in Nodes : new[x] = IF x = v THEN Nil ELSE IF x = e THEN w ELSE hooks[x]

\* The hooks around the object that is taken out are set, and its own reset.
LEMMA WithoutThreads ==
  ASSUME NEW q \in Seq(Nodes), Distinct(q), NEW i \in DOMAIN q,
         NEW f, NEW nxt, Threaded(q, f, nxt),
         NEW new, Bypass(nxt, new, q[i], At(q, i - 1), At(q, i + 1))
  PROVE  Threaded(Without(q, i), IF i = 1 THEN At(q, 2) ELSE f, new)
<1> DEFINE w == Without(q, i)
<1>1. Len(q) \in Nat /\ DOMAIN q = 1..Len(q) /\ i \in 1..Len(q)
  OBVIOUS
<1>2. \A k \in DOMAIN q : q[k] \in Nodes /\ q[k] # Nil /\ nxt[q[k]] = At(q, k + 1)
  BY ListAssumption DEF Threaded
<1>3. /\ w \in Seq(Nodes) /\ Len(w) = Len(q) - 1
      /\ \A k \in 0..i - 1 : At(w, k) = At(q, k)
      /\ \A k \in i..Len(q) : At(w, k) = At(q, k + 1)
  BY WithoutOne
<1> HIDE DEF w
<1>4. DOMAIN w = 1..Len(q) - 1
  BY <1>1, <1>3
<1>5. (IF i = 1 THEN At(q, 2) ELSE f) = At(w, 1)
  <2>1. CASE i = 1
    <3>1. 1 \in i..Len(q) /\ 1 + 1 = 2
      BY <1>1, <2>1
    <3> QED BY <1>3, <2>1, <3>1
  <2>2. CASE i # 1
    <3>1. 1 \in 0..i - 1
      BY <1>1, <2>2
    <3> QED BY <1>3, <2>2, <3>1 DEF Threaded
  <2> QED BY <2>1, <2>2
<1>6. ASSUME NEW j \in DOMAIN q, j # i PROVE q[j] = At(q, i - 1) <=> j = i - 1
  <2>1. CASE i = 1
    <3>1. At(q, i - 1) = Nil /\ j # i - 1
      BY <1>1, <2>1 DEF At
    <3> QED BY <1>2, <3>1
  <2>2. CASE i # 1
    <3>1. i - 1 \in DOMAIN q
      BY <1>1, <2>2
    <3> QED BY <3>1 DEF At, Distinct
  <2> QED BY <2>1, <2>2
<1>7. \A j \in DOMAIN q : j # i => q[j] # q[i]
  BY DEF Distinct
<1>0. \A x \in Nodes : new[x] = IF x = q[i] THEN Nil
                              ELSE IF x = At(q, i - 1) THEN At(q, i + 1) ELSE nxt[x]
  BY DEF Bypass
<1>8. ASSUME NEW j \in DOMAIN w PROVE new[w[j]] = At(w, j + 1)
  <2>0. At(w, j) = w[j] /\ j \in 1..Len(q) - 1
    BY <1>4 DEF At
  <2>1. CASE j = i - 1
    <3>1. j \in 0..i - 1 /\ j \in DOMAIN q /\ i \in i..Len(q) /\ j # i /\ j + 1 = i
      BY <1>1, <2>0, <2>1
    <3>2. w[j] = q[j]
      BY <1>3, <2>0, <3>1 DEF At
    <3>3. new[q[j]] = At(q, i + 1)
      BY <1>0, <1>2, <1>6, <1>7, <2>1, <3>1
    <3> QED BY <1>3, <3>1, <3>2, <3>3
  <2>2. CASE j < i - 1
    <3>1. j \in 0..i - 1 /\ j \in DOMAIN q /\ j + 1 \in 0..i - 1 /\ j # i /\ j # i - 1
      BY <1>1, <2>0, <2>2
    <3>2. w[j] = q[j]
      BY <1>3, <2>0, <3>1 DEF At
    <3>3. new[q[j]] = At(q, j + 1)
      BY <1>0, <1>2, <1>6, <1>7, <3>1
    <3> QED BY <1>3, <3>1, <3>2, <3>3
  <2>3. CASE j >= i
    <3>1. /\ j \in i..Len(q) /\ j + 1 \in i..Len(q) /\ j + 1 \in DOMAIN q
          /\ j + 1 # i /\ j + 1 # i - 1
      BY <1>1, <2>0, <2>3
    <3>2. w[j] = q[j + 1]
      BY <1>3, <2>0, <3>1 DEF At
    <3>3. new[q[j + 1]] = At(q, (j + 1) + 1)
      BY <1>0, <1>2, <1>6, <1>7, <3>1
    <3> QED BY <1>3, <3>1, <3>2, <3>3
  <2> QED BY <1>1, <2>0, <2>1, <2>2, <2>3
<1> QED BY <1>5, <1>8 DEF Threaded, w

LEMMA WithoutBacks ==
  ASSUME NEW q \in Seq(Nodes), Distinct(q), NEW i \in DOMAIN q,
         NEW prv, Backed(q, prv),
         NEW new, Bypass(prv, new, q[i], At(q, i + 1), At(q, i - 1))
  PROVE  Backed(Without(q, i), new)
<1> DEFINE w == Without(q, i)
<1>1. Len(q) \in Nat /\ DOMAIN q = 1..Len(q) /\ i \in 1..Len(q)
  OBVIOUS
<1>2. \A k \in DOMAIN q : q[k] \in Nodes /\ q[k] # Nil /\ prv[q[k]] = At(q, k - 1)
  BY ListAssumption DEF Backed
<1>3. /\ w \in Seq(Nodes) /\ Len(w) = Len(q) - 1
      /\ \A k \in 0..i - 1 : At(w, k) = At(q, k)
      /\ \A k \in i..Len(q) : At(w, k) = At(q, k + 1)
  BY WithoutOne
<1> HIDE DEF w
<1>4. DOMAIN w = 1..Len(q) - 1
  BY <1>1, <1>3
<1>6. ASSUME NEW j \in DOMAIN q, j # i PROVE q[j] = At(q, i + 1) <=> j = i + 1
  <2>1. CASE i = Len(q)
    <3>1. At(q, i + 1) = Nil /\ j # i + 1
      BY <1>1, <2>1 DEF At
    <3> QED BY <1>2, <3>1
  <2>2. CASE i # Len(q)
    <3>1. i + 1 \in DOMAIN q
      BY <1>1, <2>2
    <3> QED BY <3>1 DEF At, Distinct
  <2> QED BY <2>1, <2>2
<1>7. \A j \in DOMAIN q : j # i => q[j] # q[i]
  BY DEF Distinct
<1>0. \A x \in Nodes : new[x] = IF x = q[i] THEN Nil
                              ELSE IF x = At(q, i + 1) THEN At(q, i - 1) ELSE prv[x]
  BY DEF Bypass
<1>8. ASSUME NEW j \in DOMAIN w PROVE new[w[j]] = At(w, j - 1)
  <2>0. At(w, j) = w[j] /\ j \in 1..Len(q) - 1
    BY <1>4 DEF At
  <2>1. CASE j = i
    <3>1. /\ j \in i..Len(q) /\ j + 1 \in DOMAIN q /\ j - 1 \in 0..i - 1
          /\ j + 1 # i /\ j + 1 = i + 1
      BY <1>1, <2>0, <2>1
    <3>2. w[j] = q[j + 1]
      BY <1>3, <2>0, <3>1 DEF At
    <3>3. new[q[j + 1]] = At(q, i - 1)
      BY <1>0, <1>2, <1>6, <1>7, <3>1
    <3> QED BY <1>3, <2>1, <3>1, <3>2, <3>3
  <2>2. CASE j < i
    <3>1. j \in 0..i - 1 /\ j \in DOMAIN q /\ j - 1 \in 0..i - 1 /\ j # i /\ j # i + 1
      BY <1>1, <2>0, <2>2
    <3>2. w[j] = q[j]
      BY <1>3, <2>0, <3>1 DEF At
    <3>3. new[q[j]] = At(q, j - 1)
      BY <1>0, <1>2, <1>6, <1>7, <3>1
    <3> QED BY <1>3, <3>1, <3>2, <3>3
  <2>3. CASE j > i
    <3>1. /\ j \in i..Len(q) /\ j - 1 \in i..Len(q) /\ j + 1 \in DOMAIN q
          /\ j + 1 # i /\ j + 1 # i + 1 /\ (j + 1) - 1 = (j - 1) + 1
      BY <1>1, <2>0, <2>3
    <3>2. w[j] = q[j + 1]
      BY <1>3, <2>0, <3>1 DEF At
    <3>3. new[q[j + 1]] = At(q, (j + 1) - 1)
      BY <1>0, <1>2, <1>6, <1>7, <3>1
    <3> QED BY <1>3, <3>1, <3>2, <3>3
  <2> QED BY <1>1, <2>0, <2>1, <2>2, <2>3
<1> QED BY <1>8 DEF Backed, w

LEMMA WithoutEnds ==
  ASSUME NEW q \in Seq(Nodes), Distinct(q), NEW i \in DOMAIN q
  PROVE  At(Without(q, i), Len(Without(q, i))) =
           IF i = Len(q) THEN At(q, i - 1) ELSE At(q, Len(q))
<1> DEFINE w == Without(q, i)
<1>1. Len(q) \in Nat /\ i \in 1..Len(q)
  OBVIOUS
<1>2. /\ Len(w) = Len(q) - 1
      /\ \A k \in 0..i - 1 : At(w, k) = At(q, k)
      /\ \A k \in i..Len(q) : At(w, k) = At(q, k + 1)
  BY WithoutOne
<1> HIDE DEF w
<1>3. CASE i = Len(q)
  <2>1. Len(q) - 1 \in 0..i - 1
    BY <1>1, <1>3
  <2> QED BY <1>2, <1>3, <2>1 DEF w
<1>4. CASE i # Len(q)
  <2>1. Len(q) - 1 \in i..Len(q) /\ (Len(q) - 1) + 1 = Len(q)
    BY <1>1, <1>4
  <2> QED BY <1>2, <1>4, <2>1 DEF w
<1> QED BY <1>3, <1>4

\* A list of the kind kd is the sequence q: f and b are its ends, n its size.
Listed(q, f, b, n, kd, prv, nxt) ==
  /\ Distinct(q) /\ Threaded(q, f, nxt)
  /\ kd # "shared" => b = At(q, Len(q))
  /\ kd # "forward" => Backed(q, prv)
  /\ kd = "shared" => n = Len(q)

\* The lists are the sequences cs, and have no object in common.
Shape(cs, kd, prv, nxt, frt, bck, sz) ==
  /\ cs \in [Lists -> Seq(Nodes)]
  /\ \A l \in Lists : Listed(cs[l], frt[l], bck[l], sz[l], kd, prv, nxt)
  /\ \A l, m \in Lists : l # m => Elements(cs[l]) \cap Elements(cs[m]) = {}
  /\ kd = "shared" =>
       \A v \in Nodes : (\A l \in Lists : v \notin Elements(cs[l])) =>
                          prv[v] = Nil /\ nxt[v] = Nil

LEMMA ListedEmpty ==
  ASSUME NEW n, NEW kd, NEW prv, NEW nxt, kd = "shared" => n = 0
  PROVE  /\ Listed(<< >>, Nil, Nil, n, kd, prv, nxt)
         /\ Elements(<< >>) = {}
<1>1. DOMAIN << >> = {} /\ Len(<< >>) = 0
  OBVIOUS
<1>2. Elements(<< >>) = {}
  BY <1>1 DEF Elements
<1> QED BY <1>1, <1>2 DEF Listed, Distinct, Threaded, Backed, At

\* An object whose hook is reset is a list of its own.
LEMMA ListedAlone ==
  ASSUME NEW v \in Nodes, NEW kd, NEW prv, NEW nxt, prv[v] = Nil, nxt[v] = Nil
  PROVE  /\ Listed(<<v>>, v, v, 1, kd, prv, nxt)
         /\ <<v>> \in Seq(Nodes) /\ Elements(<<v>>) = {v} /\ Len(<<v>>) = 1
         /\ At(<<v>>, 1) = v
<1> DEFINE q == <<v>>
<1>1. q \in Seq(Nodes) /\ DOMAIN q = {1} /\ Len(q) = 1 /\ q[1] = v
  OBVIOUS
<1> HIDE DEF q
<1>2. Elements(q) = {v}
  BY <1>1 DEF Elements
<1>3. At(q, 1) = v /\ At(q, 1 + 1) = Nil /\ At(q, 1 - 1) = Nil
  BY <1>1 DEF At
<1>4. Distinct(q) /\ Threaded(q, v, nxt) /\ Backed(q, prv)
  BY <1>1, <1>3 DEF Distinct, Threaded, Backed
<1>5. Listed(q, v, v, 1, kd, prv, nxt)
  BY <1>1, <1>3, <1>4 DEF Listed
<1> QED BY <1>1, <1>2, <1>3, <1>5 DEF q

\* The hooks of the objects in E.
Kept(E, old, new) == \A v \in E : new[v] = old[v]

LEMMA ListedUntouched ==
  ASSUME NEW q, NEW f, NEW b, NEW n, NEW kd, NEW prv, NEW nxt,
         Listed(q, f, b, n, kd, prv, nxt),
         NEW newprv, kd # "forward" => Kept(Elements(q), prv, newprv),
         NEW newnxt, Kept(Elements(q), nxt, newnxt)
  PROVE  Listed(q, f, b, n, kd, newprv, newnxt)
<1>1. Threaded(q, f, newnxt)
  BY Untouched DEF Listed, Kept
<1>2. kd # "forward" => Backed(q, newprv)
  BY Untouched DEF Listed, Kept
<1> QED BY <1>1, <1>2 DEF Listed

\* e is the last object of q, and the list that is joined to it starts at g.
LEMMA ListedJoined ==
  ASSUME NEW q \in Seq(Nodes), NEW r \in Seq(Nodes),
         Elements(q) \cap Elements(r) = {},
         NEW kd, NEW prv \in Hooks, NEW nxt \in Hooks,
         NEW f, NEW b, NEW n, Listed(q, f, b, n, kd, prv, nxt),
         NEW g, NEW c, NEW k, Listed(r, g, c, k, kd, prv, nxt),
         NEW newprv, kd # "forward" => newprv = SetHook(prv, g, At(q, Len(q))),
         NEW newb, kd # "shared" => newb = IF g = Nil THEN b ELSE c,
         NEW newn, kd = "shared" => newn = Len(q) + Len(r)
  PROVE  Listed(q \o r, IF f = Nil THEN g ELSE f, newb, newn, kd, newprv,
                SetHook(nxt, At(q, Len(q)), g))
<1>1. /\ Distinct(q) /\ Threaded(q, f, nxt) /\ Distinct(r) /\ Threaded(r, g, nxt)
      /\ kd # "forward" => Backed(q, prv) /\ Backed(r, prv)
  BY DEF Listed
<1>2. g = At(r, 1)
  BY <1>1 DEF Threaded
<1>3. Distinct(q \o r) /\ Len(q \o r) = Len(q) + Len(r)
  BY <1>1, Joined
<1>4. Threaded(q \o r, IF f = Nil THEN g ELSE f, SetHook(nxt, At(q, Len(q)), g))
  BY <1>1, JoinedThreads
<1>5. kd # "forward" => Backed(q \o r, newprv)
  BY <1>1, <1>2, JoinedBacks
<1>6. g = Nil <=> r = << >>
  BY <1>2, Positions
<1>7. kd # "shared" => newb = At(q \o r, Len(q \o r))
  <2>1. At(q \o r, Len(q \o r)) = IF r = << >> THEN At(q, Len(q)) ELSE At(r, Len(r))
    BY <1>1, JoinedEnds
  <2>2. kd # "shared" => b = At(q, Len(q)) /\ c = At(r, Len(r))
    BY DEF Listed
  <2> QED BY <1>6, <2>1, <2>2
<1> QED BY <1>3, <1>4, <1>5, <1>7 DEF Listed

LEMMA ListedWithout ==
  ASSUME NEW q \in Seq(Nodes), NEW i \in DOMAIN q,
         NEW kd, NEW prv, NEW nxt,
         NEW f, NEW b, NEW n, Listed(q, f, b, n, kd, prv, nxt),
         NEW newnxt, Bypass(nxt, newnxt, q[i], At(q, i - 1), At(q, i + 1)),
         NEW newprv, kd # "forward" =>
                       Bypass(prv, newprv, q[i], At(q, i + 1), At(q, i - 1)),
         NEW newf, newf = IF i = 1 THEN At(q, 2) ELSE f,
         NEW newb, kd # "shared" => newb = IF i = Len(q) THEN At(q, i - 1) ELSE b,
         NEW newn, kd = "shared" => newn = Len(q) - 1
  PROVE  Listed(Without(q, i), newf, newb, newn, kd, newprv, newnxt)
<1>1. /\ Distinct(q) /\ Threaded(q, f, nxt)
      /\ kd # "forward" => Backed(q, prv)
      /\ kd # "shared" => b = At(q, Len(q))
  BY DEF Listed
<1>2. Distinct(Without(q, i)) /\ Len(Without(q, i)) = Len(q) - 1
  BY <1>1, WithoutOne
<1>3. Threaded(Without(q, i), newf, newnxt)
  BY <1>1, WithoutThreads
<1>4. kd # "forward" => Backed(Without(q, i), newprv)
  BY <1>1, WithoutBacks
<1>5. kd # "shared" => newb = At(Without(q, i), Len(Without(q, i)))
  BY <1>1, WithoutEnds
<1> QED BY <1>2, <1>3, <1>4, <1>5 DEF Listed

\* g is f for the lists outside C.
SameBut(f, g, C) == \A k \in Lists \ C : g[k] = f[k]

\* Only the lists in C change, and no hook of another list does.
LEMMA Changed ==
  ASSUME NEW kd, NEW cs, NEW prv, NEW nxt, NEW frt, NEW bck, NEW sz,
         Shape(cs, kd, prv, nxt, frt, bck, sz),
         NEW C \in SUBSET Lists,
         NEW new \in [Lists -> Seq(Nodes)], SameBut(cs, new, C),
         NEW prv2, NEW nxt2, NEW frt2, NEW bck2, NEW sz2,
         SameBut(frt, frt2, C), SameBut(bck, bck2, C), SameBut(sz, sz2, C),
         \A k \in Lists \ C : \A v \in Elements(cs[k]) :
           nxt2[v] = nxt[v] /\ (kd # "forward" => prv2[v] = prv[v]),
         \A k \in C : Listed(new[k], frt2[k], bck2[k], sz2[k], kd, prv2, nxt2),
         \A k \in C, m \in Lists : k # m => Elements(new[k]) \cap Elements(new[m]) = {},
         kd = "shared" =>
           \A v \in Nodes : (\A k \in Lists : v \notin Elements(new[k])) =>
                              prv2[v] = Nil /\ nxt2[v] = Nil
  PROVE  Shape(new, kd, prv2, nxt2, frt2, bck2, sz2)
<1>1. ASSUME NEW k \in Lists
      PROVE  Listed(new[k], frt2[k], bck2[k], sz2[k], kd, prv2, nxt2)
  <2>1. CASE k \in C
    BY <2>1
  <2>2. CASE k \notin C
    <3>1. new[k] = cs[k] /\ frt2[k] = frt[k] /\ bck2[k] = bck[k] /\ sz2[k] = sz[k]
      BY <2>2 DEF SameBut
    <3>2. Listed(cs[k], frt[k], bck[k], sz[k], kd, prv, nxt)
      BY DEF Shape
    <3>3. /\ Kept(Elements(cs[k]), nxt, nxt2)
          /\ kd # "forward" => Kept(Elements(cs[k]), prv, prv2)
      BY <2>2 DEF Kept
    <3>4. Listed(cs[k], frt[k], bck[k], sz[k], kd, prv2, nxt2)
      BY <3>2, <3>3, ListedUntouched
    <3> QED BY <3>1, <3>4
  <2> QED BY <2>1, <2>2
<1>2. ASSUME NEW k \in Lists, NEW m \in Lists, k # m
      PROVE  Elements(new[k]) \cap Elements(new[m]) = {}
  <2>1. CASE k \in C
    BY <1>2, <2>1
  <2>2. CASE m \in C
    BY <1>2, <2>2
  <2>3. CASE k \notin C /\ m \notin C
    <3>1. new[k] = cs[k] /\ new[m] = cs[m]
      BY <2>3 DEF SameBut
    <3>2. Elements(cs[k]) \cap Elements(cs[m]) = {}
      BY <1>2 DEF Shape
    <3> QED BY <3>1, <3>2
  <2> QED BY <2>1, <2>2, <2>3
<1> QED BY <1>1, <1>2 DEF Shape

\* The first and the last object of a list are in it.
LEMMA EndsInside ==
  ASSUME NEW q \in Seq(Nodes), NEW i
  PROVE  At(q, i) = Nil \/ At(q, i) \in Elements(q)
BY DEF At, Elements

LEMMA ElementsAreNodes ==
  ASSUME NEW q \in Seq(Nodes)
  PROVE  \A v \in Elements(q) : v \in Nodes /\ v # Nil
BY Positions DEF Elements

\* What one list contributes to Shape.
LEMMA ShapeOf ==
  ASSUME NEW kd, NEW cs, NEW prv, NEW nxt, NEW frt, NEW bck, NEW sz,
         Shape(cs, kd, prv, nxt, frt, bck, sz), NEW l \in Lists
  PROVE  /\ cs[l] \in Seq(Nodes)
         /\ Distinct(cs[l])
         /\ Listed(cs[l], frt[l], bck[l], sz[l], kd, prv, nxt)
         /\ \A m \in Lists : m # l => Elements(cs[l]) \cap Elements(cs[m]) = {}
         /\ frt[l] = At(cs[l], 1)
         /\ kd # "shared" => bck[l] = At(cs[l], Len(cs[l]))
         /\ frt[l] = Nil <=> cs[l] = << >>
         /\ kd # "shared" => (bck[l] = Nil <=> cs[l] = << >>)
<1>1. cs[l] \in Seq(Nodes) /\ Listed(cs[l], frt[l], bck[l], sz[l], kd, prv, nxt)
  BY DEF Shape
<1>2. \A m \in Lists : m # l => Elements(cs[l]) \cap Elements(cs[m]) = {}
  BY DEF Shape
<1>3. /\ Distinct(cs[l]) /\ frt[l] = At(cs[l], 1)
      /\ kd # "shared" => bck[l] = At(cs[l], Len(cs[l]))
  BY <1>1 DEF Listed, Threaded
<1>4. /\ frt[l] = Nil <=> cs[l] = << >>
      /\ kd # "shared" => (bck[l] = Nil <=> cs[l] = << >>)
  BY <1>1, <1>3, Positions
<1> QED BY <1>1, <1>2, <1>3, <1>4

\* An object that is in no list goes before the front of l.
LEMMA PushedFront ==
  ASSUME NEW kd, NEW cs, NEW prv \in Hooks, NEW nxt \in Hooks,
         NEW frt, NEW bck, NEW sz, Shape(cs, kd, prv, nxt, frt, bck, sz),
         NEW l \in Lists, NEW v \in Nodes, prv[v] = Nil, nxt[v] = Nil,
         \A k \in Lists : v \notin Elements(cs[k]),
         NEW prv2, NEW nxt2, NEW frt2, NEW bck2, NEW sz2,
         kd # "forward" => prv2 = SetHook(prv, frt[l], v),
         nxt2 = SetHook(nxt, v, frt[l]),
         SameBut(frt, frt2, {l}), SameBut(bck, bck2, {l}), SameBut(sz, sz2, {l}),
         frt2[l] = v,
         kd # "shared" => bck2[l] = IF frt[l] = Nil THEN v ELSE bck[l],
         kd = "shared" => sz2[l] = 1 + Len(cs[l])
  PROVE  Shape([cs EXCEPT ![l] = <<v>> \o @], kd, prv2, nxt2, frt2, bck2, sz2)
<1> DEFINE q == cs[l]
           r == <<v>> \o q
           new == [cs EXCEPT ![l] = r]
<1>1. /\ q \in Seq(Nodes) /\ Distinct(q)
      /\ Listed(q, frt[l], bck[l], sz[l], kd, prv, nxt)
      /\ \A m \in Lists : m # l => Elements(q) \cap Elements(cs[m]) = {}
      /\ frt[l] = At(q, 1)
  <2> HIDE DEF r, new
  <2>1. /\ cs[l] \in Seq(Nodes) /\ Distinct(cs[l])
        /\ Listed(cs[l], frt[l], bck[l], sz[l], kd, prv, nxt)
        /\ frt[l] = At(cs[l], 1)
    BY ShapeOf
  <2>2. \A m \in Lists : m # l => Elements(cs[l]) \cap Elements(cs[m]) = {}
    BY ShapeOf
  <2> QED BY <2>1, <2>2
<1>2. /\ Listed(<<v>>, v, v, 1, kd, prv, nxt)
      /\ <<v>> \in Seq(Nodes) /\ Elements(<<v>>) = {v} /\ Len(<<v>>) = 1
      /\ At(<<v>>, 1) = v
  BY ListedAlone
<1>3. Elements(<<v>>) \cap Elements(q) = {} /\ v # Nil
  BY <1>2, ListAssumption
<1>4. Listed(r, v, bck2[l], sz2[l], kd, prv2, nxt2)
  <2>1. At(<<v>>, Len(<<v>>)) = v
    BY <1>2
  <2>2. Listed(r, IF v = Nil THEN frt[l] ELSE v, bck2[l], sz2[l], kd, prv2,
               SetHook(nxt, At(<<v>>, Len(<<v>>)), frt[l]))
    <3>1. kd # "forward" => prv2 = SetHook(prv, frt[l], At(<<v>>, Len(<<v>>)))
      BY <2>1
    <3>2. kd = "shared" => sz2[l] = Len(<<v>>) + Len(q)
      BY <1>2
    <3> HIDE DEF q
    <3> QED BY <1>1, <1>2, <1>3, <3>1, <3>2, ListedJoined
  <2> QED BY <1>3, <2>1, <2>2
<1>5. Distinct(<<v>>)
  BY <1>2 DEF Listed
<1>6. r \in Seq(Nodes) /\ Elements(r) = {v} \cup Elements(q)
  <2> HIDE DEF q, new
  <2>1. r \in Seq(Nodes) /\ Elements(r) = Elements(<<v>>) \cup Elements(q)
    BY <1>1, <1>2, <1>3, <1>5, JoinedElements
  <2> QED BY <1>2, <2>1
<1> HIDE DEF r
<1>7. new \in [Lists -> Seq(Nodes)] /\ new[l] = r /\ \A k \in Lists \ {l} : new[k] = cs[k]
  BY <1>6 DEF Shape
<1>8. /\ \A x \in Nodes : nxt2[x] = IF x = v THEN frt[l] ELSE nxt[x]
      /\ kd # "forward" =>
           \A x \in Nodes : prv2[x] = IF x = frt[l] THEN v ELSE prv[x]
  <2>1. v \in Pointer /\ frt[l] \in Pointer
    BY <1>1, Positions DEF Pointer
  <2> HIDE DEF new, q
  <2>2. \A x \in Nodes : SetHook(nxt, v, frt[l])[x] = IF x = v THEN frt[l] ELSE nxt[x]
    BY <2>1, HookSet
  <2>3. \A x \in Nodes : SetHook(prv, frt[l], v)[x] = IF x = frt[l] THEN v ELSE prv[x]
    BY <2>1, HookSet
  <2> QED BY <2>2, <2>3
<1>9. ASSUME NEW k \in Lists \ {l}, NEW x \in Elements(cs[k])
      PROVE  nxt2[x] = nxt[x] /\ (kd # "forward" => prv2[x] = prv[x])
  <2>1. x \in Nodes /\ x # Nil
    BY ShapeOf, ElementsAreNodes
  <2>2. x # v
    OBVIOUS
  <2>3. x # frt[l]
    <3>1. At(q, 1) = Nil \/ At(q, 1) \in Elements(q)
      BY <1>1, EndsInside
    <3> HIDE DEF q
    <3> QED BY <1>1, <2>1, <3>1
  <2> QED BY <1>8, <2>1, <2>2, <2>3
<1>10. ASSUME NEW m \in Lists, m # l PROVE Elements(new[l]) \cap Elements(new[m]) = {}
  <2>1. Elements(q) \cap Elements(cs[m]) = {} /\ v \notin Elements(cs[m])
    BY <1>1, <1>10
  <2>2. new[l] = r /\ new[m] = cs[m]
    BY <1>7, <1>10
  <2> QED BY <1>6, <2>1, <2>2
<1>11. ASSUME kd = "shared", NEW x \in Nodes, \A k \in Lists : x \notin Elements(new[k])
       PROVE  prv2[x] = Nil /\ nxt2[x] = Nil
  <2>1. x # v /\ x \notin Elements(q)
    BY <1>6, <1>7, <1>11
  <2>2. \A k \in Lists : x \notin Elements(cs[k])
    BY <1>7, <1>11, <2>1
  <2>3. prv[x] = Nil /\ nxt[x] = Nil
    BY <1>11, <2>2 DEF Shape
  <2>4. x = frt[l] => v = Nil \/ FALSE
    <3>1. At(q, 1) = Nil \/ At(q, 1) \in Elements(q)
      BY <1>1, EndsInside
    <3>2. x # Nil
      BY ListAssumption
    <3> HIDE DEF q
    <3> QED BY <1>1, <2>1, <3>1, <3>2
  <2> QED BY <1>3, <1>8, <1>11, <2>1, <2>3, <2>4
<1> HIDE DEF new
<1>12. SameBut(cs, new, {l})
  BY <1>7 DEF SameBut
<1>13. \A k \in {l} : Listed(new[k], frt2[k], bck2[k], sz2[k], kd, prv2, nxt2)
  BY <1>4, <1>7
<1>14. \A k \in {l}, m \in Lists : k # m => Elements(new[k]) \cap Elements(new[m]) = {}
  BY <1>10
<1>15. kd = "shared" =>
         \A x \in Nodes : (\A k \in Lists : x \notin Elements(new[k])) =>
                            prv2[x] = Nil /\ nxt2[x] = Nil
  BY <1>11
<1>16. Shape(new, kd, prv2, nxt2, frt2, bck2, sz2)
  <2>1. {l} \in SUBSET Lists
    OBVIOUS
  <2> QED BY <1>7, <1>9, <1>12, <1>13, <1>14, <1>15, <2>1, Changed
<1> QED BY <1>16 DEF new, r

\* And behind the back of l, in a list that knows its back.
LEMMA PushedBack ==
  ASSUME NEW kd, kd # "shared", NEW cs, NEW prv \in Hooks, NEW nxt \in Hooks,
         NEW frt, NEW bck, NEW sz, Shape(cs, kd, prv, nxt, frt, bck, sz),
         NEW l \in Lists, NEW v \in Nodes, prv[v] = Nil, nxt[v] = Nil,
         \A k \in Lists : v \notin Elements(cs[k]),
         NEW prv2, NEW nxt2, NEW frt2, NEW bck2,
         kd # "forward" => prv2 = SetHook(prv, v, bck[l]),
         nxt2 = SetHook(nxt, bck[l], v),
         SameBut(frt, frt2, {l}), SameBut(bck, bck2, {l}),
         frt2[l] = IF frt[l] = Nil THEN v ELSE frt[l],
         bck2[l] = v
  PROVE  Shape([cs EXCEPT ![l] = @ \o <<v>>], kd, prv2, nxt2, frt2, bck2, sz)
<1> DEFINE q == cs[l]
           r == q \o <<v>>
           new == [cs EXCEPT ![l] = r]
<1>1. /\ q \in Seq(Nodes) /\ Distinct(q)
      /\ Listed(q, frt[l], bck[l], sz[l], kd, prv, nxt)
      /\ \A m \in Lists : m # l => Elements(q) \cap Elements(cs[m]) = {}
      /\ bck[l] = At(q, Len(q))
  <2> HIDE DEF r, new
  <2>1. /\ cs[l] \in Seq(Nodes) /\ Distinct(cs[l])
        /\ Listed(cs[l], frt[l], bck[l], sz[l], kd, prv, nxt)
        /\ bck[l] = At(cs[l], Len(cs[l]))
    BY ShapeOf
  <2>2. \A m \in Lists : m # l => Elements(cs[l]) \cap Elements(cs[m]) = {}
    BY ShapeOf
  <2> QED BY <2>1, <2>2
<1>2. /\ Listed(<<v>>, v, v, 1, kd, prv, nxt)
      /\ <<v>> \in Seq(Nodes) /\ Elements(<<v>>) = {v} /\ Len(<<v>>) = 1
      /\ At(<<v>>, 1) = v
  BY ListedAlone
<1>3. Elements(q) \cap Elements(<<v>>) = {} /\ v # Nil
  BY <1>2, ListAssumption
<1>4. Listed(r, frt2[l], bck2[l], sz[l], kd, prv2, nxt2)
  <2>1. Listed(r, IF frt[l] = Nil THEN v ELSE frt[l], bck2[l], sz[l], kd, prv2,
               SetHook(nxt, At(q, Len(q)), v))
    <3>1. kd # "forward" => prv2 = SetHook(prv, v, At(q, Len(q)))
      BY <1>1
    <3>2. kd # "shared" => bck2[l] = IF v = Nil THEN bck[l] ELSE v
      BY <1>3
    <3>3. kd = "shared" => sz[l] = Len(q) + Len(<<v>>)
      OBVIOUS
    <3> HIDE DEF q
    <3> QED BY <1>1, <1>2, <1>3, <3>1, <3>2, <3>3, ListedJoined
  <2> QED BY <1>1, <2>1
<1>5. Distinct(<<v>>)
  BY <1>2 DEF Listed
<1>6. r \in Seq(Nodes) /\ Elements(r) = Elements(q) \cup {v}
  <2> HIDE DEF q, new
  <2>1. r \in Seq(Nodes) /\ Elements(r) = Elements(q) \cup Elements(<<v>>)
    BY <1>1, <1>2, <1>3, <1>5, JoinedElements
  <2> QED BY <1>2, <2>1
<1> HIDE DEF r
<1>7. new \in [Lists -> Seq(Nodes)] /\ new[l] = r /\ \A k \in Lists \ {l} : new[k] = cs[k]
  BY <1>6 DEF Shape
<1>8. /\ \A x \in Nodes : nxt2[x] = IF x = bck[l] THEN v ELSE nxt[x]
      /\ kd # "forward" =>
           \A x \in Nodes : prv2[x] = IF x = v THEN bck[l] ELSE prv[x]
  <2>1. v \in Pointer /\ bck[l] \in Pointer
    BY <1>1, Positions DEF Pointer
  <2> HIDE DEF new, q
  <2>2. \A x \in Nodes : SetHook(nxt, bck[l], v)[x] = IF x = bck[l] THEN v ELSE nxt[x]
    BY <2>1, HookSet
  <2>3. \A x \in Nodes : SetHook(prv, v, bck[l])[x] = IF x = v THEN bck[l] ELSE prv[x]
    BY <2>1, HookSet
  <2> QED BY <2>2, <2>3
<1>9. ASSUME NEW k \in Lists \ {l}, NEW x \in Elements(cs[k])
      PROVE  nxt2[x] = nxt[x] /\ (kd # "forward" => prv2[x] = prv[x])
  <2>1. x \in Nodes /\ x # Nil
    BY ShapeOf, ElementsAreNodes
  <2>2. x # v
    OBVIOUS
  <2>3. x # bck[l]
    <3>1. At(q, Len(q)) = Nil \/ At(q, Len(q)) \in Elements(q)
      BY <1>1, EndsInside
    <3> HIDE DEF q
    <3> QED BY <1>1, <2>1, <3>1
  <2> QED BY <1>8, <2>1, <2>2, <2>3
<1>10. ASSUME NEW k \in {l}, NEW m \in Lists, k # m
       PROVE  Elements(new[k]) \cap Elements(new[m]) = {}
  <2>1. Elements(q) \cap Elements(cs[m]) = {} /\ v \notin Elements(cs[m])
    BY <1>1, <1>10
  <2>2. new[k] = r /\ new[m] = cs[m]
    BY <1>7, <1>10
  <2> QED BY <1>6, <2>1, <2>2
<1> HIDE DEF new
<1>11. SameBut(cs, new, {l})
  BY <1>7 DEF SameBut
<1>12. \A k \in {l} : Listed(new[k], frt2[k], bck2[k], sz[k], kd, prv2, nxt2)
  BY <1>4, <1>7
<1>13. Shape(new, kd, prv2, nxt2, frt2, bck2, sz)
  <2>1. {l} \in SUBSET Lists /\ SameBut(sz, sz, {l})
    BY DEF SameBut
  <2> QED BY <1>7, <1>9, <1>10, <1>11, <1>12, <2>1, Changed
<1> QED BY <1>13 DEF new, r

\* The object at a position of l is taken out, and its hook is reset.
LEMMA TakenOut ==
  ASSUME NEW kd, NEW cs, NEW prv, NEW nxt, NEW frt, NEW bck, NEW sz,
         Shape(cs, kd, prv, nxt, frt, bck, sz),
         NEW l \in Lists, NEW i \in DOMAIN cs[l],
         NEW prv2, NEW nxt2, NEW frt2, NEW bck2, NEW sz2,
         Bypass(nxt, nxt2, cs[l][i], At(cs[l], i - 1), At(cs[l], i + 1)),
         kd # "forward" =>
           Bypass(prv, prv2, cs[l][i], At(cs[l], i + 1), At(cs[l], i - 1)),
         SameBut(frt, frt2, {l}), SameBut(bck, bck2, {l}), SameBut(sz, sz2, {l}),
         frt2[l] = IF i = 1 THEN At(cs[l], 2) ELSE frt[l],
         kd # "shared" => bck2[l] = IF i = Len(cs[l]) THEN At(cs[l], i - 1) ELSE bck[l],
         kd = "shared" => sz2[l] = Len(cs[l]) - 1
  PROVE  Shape([cs EXCEPT ![l] = Without(@, i)], kd, prv2, nxt2, frt2, bck2, sz2)
<1> DEFINE q == cs[l]
           r == Without(q, i)
           new == [cs EXCEPT ![l] = r]
<1>1. /\ q \in Seq(Nodes) /\ Distinct(q)
      /\ Listed(q, frt[l], bck[l], sz[l], kd, prv, nxt)
      /\ \A m \in Lists : m # l => Elements(q) \cap Elements(cs[m]) = {}
  <2> HIDE DEF r, new
  <2>1. /\ cs[l] \in Seq(Nodes) /\ Distinct(cs[l])
        /\ Listed(cs[l], frt[l], bck[l], sz[l], kd, prv, nxt)
    BY ShapeOf
  <2>2. \A m \in Lists : m # l => Elements(cs[l]) \cap Elements(cs[m]) = {}
    BY ShapeOf
  <2> QED BY <2>1, <2>2
<1>2. Listed(r, frt2[l], bck2[l], sz2[l], kd, prv2, nxt2)
  <2>1. /\ i \in DOMAIN q
        /\ Bypass(nxt, nxt2, q[i], At(q, i - 1), At(q, i + 1))
    OBVIOUS
  <2>2. kd # "forward" =>
          Bypass(prv, prv2, q[i], At(q, i + 1), At(q, i - 1))
    OBVIOUS
  <2>3. /\ frt2[l] = IF i = 1 THEN At(q, 2) ELSE frt[l]
        /\ kd # "shared" => bck2[l] = IF i = Len(q) THEN At(q, i - 1) ELSE bck[l]
        /\ kd = "shared" => sz2[l] = Len(q) - 1
    OBVIOUS
  <2> HIDE DEF q, new
  <2> QED BY <1>1, <2>1, <2>2, <2>3, ListedWithout
<1>3. r \in Seq(Nodes) /\ Elements(r) = Elements(q) \ {q[i]}
  <2> HIDE DEF new
  <2> QED BY <1>1, WithoutOne
<1> HIDE DEF r
<1>4. new \in [Lists -> Seq(Nodes)] /\ new[l] = r /\ \A k \in Lists \ {l} : new[k] = cs[k]
  BY <1>3 DEF Shape
<1>5. /\ q[i] \in Nodes /\ q[i] \in Elements(q)
      /\ \A j : At(q, j) = Nil \/ At(q, j) \in Elements(q)
  BY <1>1, EndsInside DEF Elements
<1>6. ASSUME NEW x \in Nodes, x \notin Elements(q)
      PROVE  nxt2[x] = nxt[x] /\ (kd # "forward" => prv2[x] = prv[x])
  <2>1. x # Nil
    BY ListAssumption
  <2>2. x # q[i] /\ x # At(q, i - 1) /\ x # At(q, i + 1)
    BY <1>5, <1>6, <2>1
  <2> QED BY <2>2 DEF Bypass
<1>7. ASSUME NEW k \in Lists \ {l}, NEW x \in Elements(cs[k])
      PROVE  nxt2[x] = nxt[x] /\ (kd # "forward" => prv2[x] = prv[x])
  <2>1. x \in Nodes
    BY ShapeOf, ElementsAreNodes
  <2>2. x \notin Elements(q)
    BY <1>1
  <2> QED BY <1>6, <2>1, <2>2
<1>8. ASSUME NEW k \in {l}, NEW m \in Lists, k # m
      PROVE  Elements(new[k]) \cap Elements(new[m]) = {}
  <2>1. Elements(q) \cap Elements(cs[m]) = {}
    BY <1>1, <1>8
  <2>2. new[k] = r /\ new[m] = cs[m]
    BY <1>4, <1>8
  <2> QED BY <1>3, <2>1, <2>2
<1>9. ASSUME kd = "shared", NEW x \in Nodes, \A k \in Lists : x \notin Elements(new[k])
      PROVE  prv2[x] = Nil /\ nxt2[x] = Nil
  <2>1. CASE x = q[i]
    BY <1>9, <2>1 DEF Bypass
  <2>2. CASE x # q[i]
    <3>1. x \notin Elements(q)
      BY <1>3, <1>4, <1>9, <2>2
    <3>2. \A k \in Lists : x \notin Elements(cs[k])
      BY <1>4, <1>9, <3>1
    <3>3. prv[x] = Nil /\ nxt[x] = Nil
      BY <1>9, <3>2 DEF Shape
    <3> QED BY <1>6, <1>9, <3>1, <3>3
  <2> QED BY <2>1, <2>2
<1> HIDE DEF new
<1>10. SameBut(cs, new, {l})
  BY <1>4 DEF SameBut
<1>11. \A k \in {l} : Listed(new[k], frt2[k], bck2[k], sz2[k], kd, prv2, nxt2)
  BY <1>2, <1>4
<1>12. kd = "shared" =>
         \A x \in Nodes : (\A k \in Lists : x \notin Elements(new[k])) =>
                            prv2[x] = Nil /\ nxt2[x] = Nil
  BY <1>9
<1>13. Shape(new, kd, prv2, nxt2, frt2, bck2, sz2)
  <2>1. {l} \in SUBSET Lists
    OBVIOUS
  <2> HIDE DEF q
  <2> QED BY <1>4, <1>7, <1>8, <1>10, <1>11, <1>12, <2>1, Changed
<1> QED BY <1>13 DEF new, r

\* Only hooks of the objects in U change, or that a forward list ignores.
HooksKept(kd, prv, nxt, prv2, nxt2, U) ==
  \A x \in Nodes \ U : nxt2[x] = nxt[x] /\ (kd # "forward" => prv2[x] = prv[x])

\* Two lists exchange or forget objects; only hooks of their objects change.
LEMMA Exchanged ==
  ASSUME NEW kd, kd # "shared", NEW cs, NEW prv, NEW nxt,
         NEW frt, NEW bck, NEW sz, Shape(cs, kd, prv, nxt, frt, bck, sz),
         NEW l \in Lists, NEW m \in Lists, l # m,
         NEW r \in Seq(Nodes), NEW s \in Seq(Nodes),
         Elements(r) \cup Elements(s) \subseteq Elements(cs[l]) \cup Elements(cs[m]),
         Elements(r) \cap Elements(s) = {},
         NEW prv2, NEW nxt2, NEW frt2, NEW bck2,
         HooksKept(kd, prv, nxt, prv2, nxt2, Elements(cs[l]) \cup Elements(cs[m])),
         SameBut(frt, frt2, {l, m}), SameBut(bck, bck2, {l, m}),
         Listed(r, frt2[l], bck2[l], sz[l], kd, prv2, nxt2),
         Listed(s, frt2[m], bck2[m], sz[m], kd, prv2, nxt2)
  PROVE  Shape([cs EXCEPT ![l] = r, ![m] = s], kd, prv2, nxt2, frt2, bck2, sz)
<1> DEFINE new == [cs EXCEPT ![l] = r, ![m] = s]
<1>1. /\ new \in [Lists -> Seq(Nodes)] /\ new[l] = r /\ new[m] = s
      /\ \A k \in Lists \ {l, m} : new[k] = cs[k]
  BY DEF Shape
<1> HIDE DEF new
<1>2. \A k \in Lists \ {l, m} : /\ Elements(cs[k]) \cap Elements(cs[l]) = {}
                                /\ Elements(cs[k]) \cap Elements(cs[m]) = {}
  BY DEF Shape
<1>3. ASSUME NEW k \in Lists \ {l, m}, NEW x \in Elements(cs[k])
      PROVE  nxt2[x] = nxt[x] /\ (kd # "forward" => prv2[x] = prv[x])
  <2>1. x \in Nodes
    BY ShapeOf, ElementsAreNodes
  <2> QED BY <1>2, <2>1 DEF HooksKept
<1>4. ASSUME NEW k \in {l, m}, NEW j \in Lists, k # j
      PROVE  Elements(new[k]) \cap Elements(new[j]) = {}
  <2>1. CASE j \in {l, m}
    BY <1>1, <1>4, <2>1
  <2>2. CASE j \notin {l, m}
    <3>1. Elements(new[k]) \subseteq Elements(cs[l]) \cup Elements(cs[m])
      BY <1>1
    <3>2. new[j] = cs[j]
      BY <1>1, <2>2
    <3> QED BY <1>2, <2>2, <3>1, <3>2
  <2> QED BY <2>1, <2>2
<1>5. SameBut(cs, new, {l, m}) /\ SameBut(sz, sz, {l, m})
  BY <1>1 DEF SameBut
<1>6. \A k \in {l, m} : Listed(new[k], frt2[k], bck2[k], sz[k], kd, prv2, nxt2)
  BY <1>1
<1>7. {l, m} \in SUBSET Lists
  OBVIOUS
<1>8. Shape(new, kd, prv2, nxt2, frt2, bck2, sz)
  BY <1>1, <1>3, <1>4, <1>5, <1>6, <1>7, Changed
<1> QED BY <1>8 DEF new

-----------------------------------------------------------------------------
(***************************************************************************)
(* The invariant of the lists, and what each operation makes of them.      *)
(***************************************************************************)
Contents == [l \in Lists |-> Content(l)]

ListIInv == ListTypeOK /\ Shape(Contents, kind, prev, next, front, back, size)

\* After the step the lists are the sequences new.
Becomes(new) == Shape(new, kind', prev', next', front', back', size')

LEMMA WalkShape ==
  ASSUME NEW kd, NEW cs, NEW prv, NEW nxt, NEW frt, NEW bck, NEW sz,
         Shape(cs, kd, prv, nxt, frt, bck, sz)
  PROVE  cs = [l \in Lists |-> Walk(frt[l], nxt)]
<1>1. ASSUME NEW l \in Lists PROVE Walk(frt[l], nxt) = cs[l]
  <2>1. cs[l] \in Seq(Nodes) /\ Distinct(cs[l]) /\ Threaded(cs[l], frt[l], nxt)
    BY DEF Shape, Listed
  <2> QED BY <2>1, WalksThrough
<1>2. cs = [l \in Lists |-> cs[l]]
  BY DEF Shape
<1> QED BY <1>1, <1>2

LEMMA ContentsNow ==
  /\ Contents = [l \in Lists |-> Walk(front[l], next)]
  /\ Contents' = [l \in Lists |-> Walk(front'[l], next')]
<1>1. \A l : Content(l) = Walk(front[l], next)
  BY Zenon DEF Content, Walk
<1>2. \A l : Content(l)' = Walk(front'[l], next')
  BY Zenon DEF Content, Walk
<1>3. Contents' = [l \in Lists |-> Content(l)']
  BY DEF Contents
<1> QED BY <1>1, <1>2, <1>3 DEF Contents

LEMMA ContentsBecome ==
  ASSUME NEW new, Becomes(new)
  PROVE  Contents' = new
BY ContentsNow, WalkShape DEF Becomes

\* The sizes of the lists of shared pointers stay in their range.
LEMMA TypesKept ==
  ASSUME ListTypeOK, NEW new, Becomes(new), kind' = kind,
         prev' \in [Nodes -> Pointer], next' \in [Nodes -> Pointer],
         front' \in [Lists -> Pointer], back' \in [Lists -> Pointer],
         kind # "shared" => size' = size,
         kind = "shared" => DOMAIN size' = Lists /\ size' = [l \in Lists |-> size'[l]],
         held' \subseteq Nodes
  PROVE  ListTypeOK'
<1>1. size' \in [Lists -> 0..Cardinality(Nodes)]
  <2>1. CASE kind # "shared"
    BY <2>1 DEF ListTypeOK
  <2>2. CASE kind = "shared"
    <3>1. ASSUME NEW l \in Lists PROVE size'[l] \in 0..Cardinality(Nodes)
      <4>1. new[l] \in Seq(Nodes) /\ Distinct(new[l]) /\ size'[l] = Len(new[l])
        BY <2>2 DEF Becomes, Shape, Listed
      <4> QED BY <4>1, AtMostAll
    <3> QED BY <2>2, <3>1
  <2> QED BY <2>1, <2>2
<1> QED BY <1>1 DEF ListTypeOK

\* A list and its ends, as the operations see them.
LEMMA ListFacts ==
  ASSUME ListIInv, NEW l \in Lists
  PROVE  /\ Contents[l] = Content(l) /\ Contents[l] \in Seq(Nodes)
         /\ Distinct(Contents[l]) /\ Members(l) = Elements(Contents[l])
         /\ Listed(Contents[l], front[l], back[l], size[l], kind, prev, next)
         /\ front[l] = At(Contents[l], 1)
         /\ kind # "shared" => back[l] = At(Contents[l], Len(Contents[l]))
         /\ front[l] = Nil <=> Contents[l] = << >>
         /\ kind # "shared" => (back[l] = Nil <=> Contents[l] = << >>)
         /\ Shape(Contents, kind, prev, next, front, back, size)
         /\ prev \in Hooks /\ next \in Hooks
<1>1. Shape(Contents, kind, prev, next, front, back, size)
  BY DEF ListIInv
<1>2. Contents[l] = Content(l)
  BY DEF Contents
<1>3. Members(l) = Elements(Contents[l])
  BY <1>2 DEF Members, Elements
<1>4. prev \in Hooks /\ next \in Hooks
  BY DEF ListIInv, ListTypeOK, Hooks
<1>5. /\ Contents[l] \in Seq(Nodes) /\ Distinct(Contents[l])
      /\ Listed(Contents[l], front[l], back[l], size[l], kind, prev, next)
      /\ front[l] = At(Contents[l], 1)
      /\ kind # "shared" => back[l] = At(Contents[l], Len(Contents[l]))
      /\ front[l] = Nil <=> Contents[l] = << >>
      /\ kind # "shared" => (back[l] = Nil <=> Contents[l] = << >>)
  BY <1>1, ShapeOf
<1> QED BY <1>1, <1>2, <1>3, <1>4, <1>5

LEMMA NotLinked ==
  ASSUME ListIInv, NEW v, ~Linked(v)
  PROVE  \A l \in Lists : v \notin Elements(Contents[l])
BY ListFacts DEF Linked

LEMMA PushFrontStep ==
  ASSUME ListIInv, NEW l \in Lists, NEW v \in Nodes, PushFront(l, v)
  PROVE  ListTypeOK' /\ Becomes([Contents EXCEPT ![l] = <<v>> \o @])
<1>1. /\ Shape(Contents, kind, prev, next, front, back, size)
      /\ prev \in Hooks /\ next \in Hooks
      /\ kind # "shared" => (front[l] = Nil <=> back[l] = Nil)
  BY ListFacts
<1>2. kind # "shared" /\ prev[v] = Nil /\ next[v] = Nil
  BY DEF PushFront, Unlinked
<1>3. \A k \in Lists : v \notin Elements(Contents[k])
  BY NotLinked DEF PushFront
<1>4. v # Nil /\ v \in Pointer /\ front[l] \in Pointer
  BY ListAssumption DEF ListIInv, ListTypeOK, Pointer
<1>5. /\ front \in [Lists -> Pointer] /\ back \in [Lists -> Pointer]
      /\ kind' = kind /\ size' = size /\ held' = held
  BY DEF ListIInv, ListTypeOK, PushFront
<1>6. /\ kind # "forward" => prev' = SetHook(prev, front[l], v)
      /\ kind = "forward" => prev' = prev
  BY DEF PushFront
<1>7. next' = SetHook(next, v, front[l])
  BY <1>4 DEF PushFront, SetHook
<1>8. /\ front' = [front EXCEPT ![l] = v]
      /\ back' = IF back[l] = Nil THEN [back EXCEPT ![l] = v] ELSE back
  BY DEF PushFront
<1>9. front' \in [Lists -> Pointer] /\ back' \in [Lists -> Pointer]
  BY <1>4, <1>5, <1>8
<1>10. /\ front'[l] = v /\ back'[l] = IF front[l] = Nil THEN v ELSE back[l]
       /\ SameBut(front, front', {l}) /\ SameBut(back, back', {l})
       /\ SameBut(size, size', {l})
  <2>1. front'[l] = v /\ SameBut(front, front', {l})
    BY <1>5, <1>8 DEF SameBut
  <2>2. back'[l] = IF back[l] = Nil THEN v ELSE back[l]
    BY <1>5, <1>8
  <2>3. SameBut(back, back', {l}) /\ SameBut(size, size', {l})
    BY <1>5, <1>8 DEF SameBut
  <2> QED BY <1>1, <1>2, <2>1, <2>2, <2>3
<1>11. Shape([Contents EXCEPT ![l] = <<v>> \o @], kind, prev', next', front', back', size')
  <2>1. /\ Shape(Contents, kind, prev, next, front, back, size)
        /\ prev \in Hooks /\ next \in Hooks /\ prev[v] = Nil /\ next[v] = Nil
    BY <1>1, <1>2
  <2>2. kind # "forward" => prev' = SetHook(prev, front[l], v)
    BY <1>6
  <2>3. /\ kind # "shared" => back'[l] = IF front[l] = Nil THEN v ELSE back[l]
        /\ kind = "shared" => size'[l] = 1 + Len(Contents[l])
    BY <1>2, <1>10
  <2>4. /\ SameBut(front, front', {l}) /\ SameBut(back, back', {l})
        /\ SameBut(size, size', {l}) /\ front'[l] = v
    BY <1>10
  <2> QED BY <2>1, <1>3, <1>7, <2>2, <2>3, <2>4, PushedFront
<1>12. Becomes([Contents EXCEPT ![l] = <<v>> \o @])
  BY <1>5, <1>11 DEF Becomes
<1>13. prev' \in [Nodes -> Pointer] /\ next' \in [Nodes -> Pointer]
  <2>1. SetHook(next, v, front[l]) \in Hooks /\ SetHook(prev, front[l], v) \in Hooks
    BY <1>1, <1>4, HookSet
  <2>2. prev' \in Hooks /\ next' \in Hooks
    BY <1>1, <1>6, <1>7, <2>1
  <2> QED BY <2>2 DEF Hooks
<1>14. ListTypeOK /\ held' \subseteq Nodes
  BY <1>5 DEF ListIInv, ListTypeOK
<1>15. ListTypeOK'
  BY <1>2, <1>5, <1>9, <1>12, <1>13, <1>14, TypesKept
<1> QED BY <1>12, <1>15

LEMMA PushBackStep ==
  ASSUME ListIInv, NEW l \in Lists, NEW v \in Nodes,
         PushBack(l, v) \/ ForwardPushBack(l, v)
  PROVE  ListTypeOK' /\ Becomes([Contents EXCEPT ![l] = @ \o <<v>>])
<1>1. kind # "shared" /\ prev[v] = Nil /\ next[v] = Nil
  BY DEF PushBack, ForwardPushBack, Unlinked
<1>2. /\ Shape(Contents, kind, prev, next, front, back, size)
      /\ prev \in Hooks /\ next \in Hooks
      /\ front[l] = Nil <=> back[l] = Nil
  BY <1>1, ListFacts
<1>3. \A k \in Lists : v \notin Elements(Contents[k])
  BY NotLinked DEF PushBack, ForwardPushBack
<1>4. v # Nil /\ v \in Pointer /\ back[l] \in Pointer
  BY ListAssumption DEF ListIInv, ListTypeOK, Pointer
<1>5. /\ front \in [Lists -> Pointer] /\ back \in [Lists -> Pointer]
      /\ kind' = kind /\ size' = size /\ held' = held
  BY DEF ListIInv, ListTypeOK, PushBack, ForwardPushBack
<1>6. /\ kind # "forward" => prev' = SetHook(prev, v, back[l])
      /\ kind = "forward" => prev' = prev
  BY <1>4 DEF PushBack, ForwardPushBack, SetHook
<1>7. next' = SetHook(next, back[l], v)
  BY DEF PushBack, ForwardPushBack
<1>8. /\ back' = [back EXCEPT ![l] = v]
      /\ front' = IF front[l] = Nil THEN [front EXCEPT ![l] = v] ELSE front
  BY DEF PushBack, ForwardPushBack
<1>9. front' \in [Lists -> Pointer] /\ back' \in [Lists -> Pointer]
  BY <1>4, <1>5, <1>8
<1>10. /\ back'[l] = v /\ front'[l] = IF front[l] = Nil THEN v ELSE front[l]
       /\ SameBut(front, front', {l}) /\ SameBut(back, back', {l})
  BY <1>5, <1>8 DEF SameBut
<1>11. Shape([Contents EXCEPT ![l] = @ \o <<v>>], kind, prev', next', front', back', size)
  BY <1>1, <1>2, <1>3, <1>6, <1>7, <1>10, PushedBack
<1>12. Becomes([Contents EXCEPT ![l] = @ \o <<v>>])
  BY <1>5, <1>11 DEF Becomes
<1>13. prev' \in [Nodes -> Pointer] /\ next' \in [Nodes -> Pointer]
  <2>1. SetHook(next, back[l], v) \in Hooks /\ SetHook(prev, v, back[l]) \in Hooks
    BY <1>2, <1>4, HookSet
  <2>2. prev' \in Hooks /\ next' \in Hooks
    BY <1>2, <1>6, <1>7, <2>1
  <2> QED BY <2>2 DEF Hooks
<1>14. ListTypeOK /\ held' \subseteq Nodes
  BY <1>5 DEF ListIInv, ListTypeOK
<1>15. ListTypeOK'
  BY <1>1, <1>5, <1>9, <1>12, <1>13, <1>14, TypesKept
<1> QED BY <1>12, <1>15

LEMMA SharedPushFrontStep ==
  ASSUME ListIInv, NEW l \in Lists, NEW v \in Nodes, SharedPushFront(l, v)
  PROVE  ListTypeOK' /\ Becomes([Contents EXCEPT ![l] = <<v>> \o @])
<1>1. kind = "shared" /\ prev[v] = Nil /\ next[v] = Nil
  BY DEF SharedPushFront, Unlinked
<1>2. /\ Shape(Contents, kind, prev, next, front, back, size)
      /\ prev \in Hooks /\ next \in Hooks
      /\ Contents[l] \in Seq(Nodes)
      /\ Listed(Contents[l], front[l], back[l], size[l], kind, prev, next)
  BY ListFacts
<1>3. \A k \in Lists : v \notin Elements(Contents[k])
  BY NotLinked DEF SharedPushFront
<1>4. v # Nil /\ v \in Pointer /\ front[l] \in Pointer
  BY ListAssumption DEF ListIInv, ListTypeOK, Pointer
<1>5. /\ front \in [Lists -> Pointer] /\ back \in [Lists -> Pointer]
      /\ size \in [Lists -> 0..Cardinality(Nodes)]
      /\ kind' = kind /\ back' = back /\ held' = held
  BY DEF ListIInv, ListTypeOK, SharedPushFront
<1>6. prev' = SetHook(prev, front[l], v)
  BY DEF SharedPushFront
<1>7. next' = SetHook(next, v, front[l])
  BY <1>4 DEF SharedPushFront, SetHook
<1>8. /\ front' = [front EXCEPT ![l] = v]
      /\ size' = [size EXCEPT ![l] = size[l] + 1]
  BY DEF SharedPushFront
<1>9. front' \in [Lists -> Pointer] /\ back' \in [Lists -> Pointer]
  BY <1>4, <1>5, <1>8
<1>10. size'[l] = 1 + Len(Contents[l])
  <2>1. size[l] = Len(Contents[l]) /\ Len(Contents[l]) \in Nat
    BY <1>1, <1>2 DEF Listed
  <2>2. size'[l] = size[l] + 1
    BY <1>5, <1>8
  <2> QED BY <2>1, <2>2
<1>11. /\ front'[l] = v
       /\ SameBut(front, front', {l}) /\ SameBut(back, back', {l})
       /\ SameBut(size, size', {l})
  BY <1>5, <1>8 DEF SameBut
<1>12. Shape([Contents EXCEPT ![l] = <<v>> \o @], kind, prev', next', front', back', size')
  BY <1>1, <1>2, <1>3, <1>6, <1>7, <1>10, <1>11, PushedFront
<1>13. Becomes([Contents EXCEPT ![l] = <<v>> \o @])
  BY <1>5, <1>12 DEF Becomes
<1>14. prev' \in [Nodes -> Pointer] /\ next' \in [Nodes -> Pointer]
  <2>1. SetHook(next, v, front[l]) \in Hooks /\ SetHook(prev, front[l], v) \in Hooks
    BY <1>2, <1>4, HookSet
  <2> QED BY <1>6, <1>7, <2>1 DEF Hooks
<1>15. ListTypeOK /\ held' \subseteq Nodes
  BY <1>5 DEF ListIInv, ListTypeOK
<1>16. DOMAIN size' = Lists /\ size' = [k \in Lists |-> size'[k]]
  BY <1>5, <1>8
<1>17. ListTypeOK'
  BY <1>1, <1>5, <1>9, <1>13, <1>14, <1>15, <1>16, TypesKept
<1> QED BY <1>13, <1>17

\* What the hooks say of the object at a position of a list.
LEMMA AtPosition ==
  ASSUME ListIInv, NEW l \in Lists, NEW i \in DOMAIN Contents[l]
  PROVE  LET q == Contents[l]
             v == q[i]
         IN  /\ v \in Nodes /\ v # Nil
             /\ Len(q) \in Nat /\ i \in 1..Len(q)
             /\ next[v] = At(q, i + 1)
             /\ kind # "forward" => prev[v] = At(q, i - 1)
             /\ v = front[l] <=> i = 1
             /\ kind # "shared" => (v = back[l] <=> i = Len(q))
             /\ At(q, i + 1) = Nil <=> i = Len(q)
             /\ At(q, i - 1) = Nil <=> i = 1
             /\ At(q, i + 1) \in Pointer /\ At(q, i - 1) \in Pointer
<1> DEFINE q == Contents[l]
           v == q[i]
<1>1. /\ q \in Seq(Nodes) /\ Distinct(q)
      /\ Listed(q, front[l], back[l], size[l], kind, prev, next)
      /\ front[l] = At(q, 1)
      /\ kind # "shared" => back[l] = At(q, Len(q))
  BY ListFacts
<1> HIDE DEF q
<1>2. /\ Len(q) \in Nat /\ DOMAIN q = 1..Len(q) /\ i \in DOMAIN q
      /\ \A j \in DOMAIN q : q[j] \in Nodes /\ q[j] # Nil /\ At(q, j) = q[j]
      /\ \A j : j \notin DOMAIN q => At(q, j) = Nil
      /\ \A j : At(q, j) \in Pointer
  <2>1. i \in DOMAIN q
    BY DEF q
  <2>2. /\ Len(q) \in Nat /\ DOMAIN q = 1..Len(q)
        /\ \A j \in DOMAIN q : q[j] \in Nodes /\ q[j] # Nil /\ At(q, j) = q[j]
    BY <1>1, Positions
  <2>3. /\ \A j : j \notin DOMAIN q => At(q, j) = Nil
        /\ \A j : At(q, j) \in Pointer
    BY <1>1, Positions
  <2> QED BY <2>1, <2>2, <2>3
<1>3. 1 \in DOMAIN q /\ Len(q) \in DOMAIN q
  BY <1>2
<1>4. v \in Nodes /\ v # Nil
  BY <1>2
<1>5. next[v] = At(q, i + 1) /\ (kind # "forward" => prev[v] = At(q, i - 1))
  BY <1>1, <1>2 DEF Listed, Threaded, Backed
<1>6. v = front[l] <=> i = 1
  BY <1>1, <1>2, <1>3 DEF Distinct
<1>7. kind # "shared" => (v = back[l] <=> i = Len(q))
  BY <1>1, <1>2, <1>3 DEF Distinct
<1>8. At(q, i + 1) = Nil <=> i = Len(q)
  <2>1. i + 1 \in DOMAIN q <=> i # Len(q)
    BY <1>2
  <2> QED BY <1>2, <2>1
<1>9. At(q, i - 1) = Nil <=> i = 1
  <2>1. i - 1 \in DOMAIN q <=> i # 1
    BY <1>2
  <2> QED BY <1>2, <2>1
<1> QED BY <1>2, <1>4, <1>5, <1>6, <1>7, <1>8, <1>9 DEF q

\* An operation that leads the hooks past an object and resets its own.
LEMMA HookBypass ==
  ASSUME NEW hooks \in Hooks, NEW v \in Nodes, NEW e \in Pointer, NEW w \in Pointer
  PROVE  /\ [SetHook(hooks, e, w) EXCEPT ![v] = Nil] \in Hooks
         /\ Bypass(hooks, [SetHook(hooks, e, w) EXCEPT ![v] = Nil], v, e, w)
<1>1. /\ SetHook(hooks, e, w) \in Hooks
      /\ \A x \in Nodes : SetHook(hooks, e, w)[x] = IF x = e THEN w ELSE hooks[x]
  BY HookSet
<1> QED BY <1>1 DEF Hooks, Pointer, Bypass

\* A step takes the object at position i out of l.
Takes(l, i) ==
  LET q == Contents[l] IN
  /\ kind' = kind /\ held' \subseteq Nodes /\ prev' \in Hooks /\ next' \in Hooks
  /\ Bypass(next, next', q[i], At(q, i - 1), At(q, i + 1))
  /\ kind # "forward" => Bypass(prev, prev', q[i], At(q, i + 1), At(q, i - 1))
  /\ front' = [front EXCEPT ![l] = IF i = 1 THEN At(q, 2) ELSE front[l]]
  /\ kind # "shared" =>
       /\ back' = [back EXCEPT ![l] = IF i = Len(q) THEN At(q, i - 1) ELSE back[l]]
       /\ size' = size
  /\ kind = "shared" =>
       back' = back /\ size' = [size EXCEPT ![l] = size[l] - 1]

LEMMA TakeOutStep ==
  ASSUME ListIInv, NEW l \in Lists, NEW i \in DOMAIN Contents[l], Takes(l, i)
  PROVE  ListTypeOK' /\ Becomes([Contents EXCEPT ![l] = Without(@, i)])
<1>0. /\ kind' = kind /\ held' \subseteq Nodes /\ prev' \in Hooks /\ next' \in Hooks
      /\ Bypass(next, next', Contents[l][i], At(Contents[l], i - 1), At(Contents[l], i + 1))
      /\ kind # "forward" =>
           Bypass(prev, prev', Contents[l][i], At(Contents[l], i + 1), At(Contents[l], i - 1))
      /\ kind # "shared" => size' = size
  BY DEF Takes
<1>1. /\ Shape(Contents, kind, prev, next, front, back, size)
      /\ Contents[l] \in Seq(Nodes)
      /\ Listed(Contents[l], front[l], back[l], size[l], kind, prev, next)
  BY ListFacts
<1>2. /\ front \in [Lists -> Pointer] /\ back \in [Lists -> Pointer]
      /\ size \in [Lists -> 0..Cardinality(Nodes)] /\ ListTypeOK
  BY DEF ListIInv, ListTypeOK
<1>3. \A j : At(Contents[l], j) \in Pointer
  BY <1>1, Positions
<1>4. front' \in [Lists -> Pointer] /\ back' \in [Lists -> Pointer]
  BY <1>2, <1>3 DEF Takes
<1>5. /\ front'[l] = IF i = 1 THEN At(Contents[l], 2) ELSE front[l]
      /\ SameBut(front, front', {l})
  BY <1>2 DEF SameBut, Takes
<1>6. /\ kind # "shared" => back'[l] = IF i = Len(Contents[l])
                                       THEN At(Contents[l], i - 1) ELSE back[l]
      /\ SameBut(back, back', {l})
  BY <1>2 DEF SameBut, Takes
<1>7. kind = "shared" => size'[l] = Len(Contents[l]) - 1
  <2> SUFFICES ASSUME kind = "shared" PROVE size'[l] = Len(Contents[l]) - 1
    OBVIOUS
  <2>1. size[l] = Len(Contents[l])
    BY <1>1 DEF Listed
  <2>2. size'[l] = size[l] - 1
    BY <1>2 DEF Takes
  <2> QED BY <2>1, <2>2
<1>8. SameBut(size, size', {l})
  BY <1>2 DEF SameBut, Takes
<1>9. Shape([Contents EXCEPT ![l] = Without(@, i)], kind, prev', next', front', back', size')
  BY <1>0, <1>1, <1>5, <1>6, <1>7, <1>8, TakenOut
<1>10. Becomes([Contents EXCEPT ![l] = Without(@, i)])
  BY <1>0, <1>9 DEF Becomes
<1>11. prev' \in [Nodes -> Pointer] /\ next' \in [Nodes -> Pointer]
  BY <1>0 DEF Hooks
<1>12. kind = "shared" => DOMAIN size' = Lists /\ size' = [k \in Lists |-> size'[k]]
  BY <1>2 DEF Takes
<1>13. ListTypeOK'
  BY <1>0, <1>2, <1>4, <1>10, <1>11, <1>12, TypesKept
<1> QED BY <1>10, <1>13

\* Every operation that takes an object out of l does so.
LEMMA EraseStep ==
  ASSUME ListIInv, NEW l \in Lists, NEW v \in Nodes, Erase(l, v) \/ SharedErase(l, v)
  PROVE  \E i \in DOMAIN Contents[l] : Contents[l][i] = v /\ Takes(l, i)
<1>1. v \in Elements(Contents[l])
  BY ListFacts DEF Erase, SharedErase
<1>2. PICK i \in DOMAIN Contents[l] : Contents[l][i] = v
  BY <1>1 DEF Elements
<1> DEFINE q == Contents[l]
<1>3. kind # "forward"
  BY DEF Erase, SharedErase
<1>4. /\ next[v] = At(q, i + 1) /\ prev[v] = At(q, i - 1)
      /\ v = front[l] <=> i = 1
      /\ kind # "shared" => (v = back[l] <=> i = Len(q))
      /\ At(q, i + 1) \in Pointer /\ At(q, i - 1) \in Pointer
  BY <1>2, <1>3, AtPosition
<1> HIDE DEF q
<1>5. /\ next' = [SetHook(next, prev[v], next[v]) EXCEPT ![v] = Nil]
      /\ prev' = [SetHook(prev, next[v], prev[v]) EXCEPT ![v] = Nil]
      /\ kind' = kind
  BY DEF Erase, SharedErase
<1>6. /\ front \in [Lists -> Pointer] /\ back \in [Lists -> Pointer]
      /\ held \subseteq Nodes /\ prev \in Hooks /\ next \in Hooks
  BY DEF ListIInv, ListTypeOK, Hooks
<1>7. /\ next' \in Hooks /\ Bypass(next, next', v, At(q, i - 1), At(q, i + 1))
      /\ prev' \in Hooks /\ Bypass(prev, prev', v, At(q, i + 1), At(q, i - 1))
  BY <1>4, <1>5, <1>6, HookBypass
<1>8. front' = [front EXCEPT ![l] = IF i = 1 THEN At(q, 2) ELSE front[l]]
  <2>1. front' = IF i = 1 THEN [front EXCEPT ![l] = next[v]] ELSE front
    BY <1>4 DEF Erase, SharedErase
  <2>2. i = 1 => next[v] = At(q, 2)
    BY <1>4
  <2> QED BY <1>6, <2>1, <2>2
<1>9. kind # "shared" =>
        /\ back' = [back EXCEPT ![l] = IF i = Len(q) THEN At(q, i - 1) ELSE back[l]]
        /\ size' = size
  <2> SUFFICES ASSUME kind # "shared"
               PROVE  /\ back' = [back EXCEPT ![l] =
                                    IF i = Len(q) THEN At(q, i - 1) ELSE back[l]]
                      /\ size' = size
    OBVIOUS
  <2>1. /\ back' = IF v = back[l] THEN [back EXCEPT ![l] = prev[v]] ELSE back
        /\ size' = size
    BY DEF Erase, SharedErase
  <2>2. back' = IF i = Len(q) THEN [back EXCEPT ![l] = At(q, i - 1)] ELSE back
    BY <1>4, <2>1
  <2> QED BY <1>6, <2>1, <2>2
<1>10. kind = "shared" => back' = back /\ size' = [size EXCEPT ![l] = size[l] - 1]
  BY DEF Erase, SharedErase
<1>11. held' \subseteq Nodes
  BY <1>6 DEF Erase, SharedErase
<1>12. Takes(l, i)
  BY <1>2, <1>5, <1>7, <1>8, <1>9, <1>10, <1>11 DEF Takes, q
<1> QED BY <1>2, <1>12

\* A list that is not empty has a first and a last position.
LEMMA FirstAndLast ==
  ASSUME ListIInv, NEW l \in Lists, front[l] # Nil
  PROVE  /\ 1 \in DOMAIN Contents[l] /\ Len(Contents[l]) \in DOMAIN Contents[l]
         /\ Contents[l][1] = front[l]
         /\ kind # "shared" => Contents[l][Len(Contents[l])] = back[l]
         /\ At(Contents[l], 1 - 1) = Nil
         /\ At(Contents[l], Len(Contents[l]) + 1) = Nil
<1> DEFINE q == Contents[l]
<1>1. /\ q \in Seq(Nodes) /\ q # << >> /\ front[l] = At(q, 1)
      /\ kind # "shared" => back[l] = At(q, Len(q))
  BY ListFacts
<1> HIDE DEF q
<1>2. Len(q) \in Nat /\ DOMAIN q = 1..Len(q) /\ Len(q) # 0
  BY <1>1
<1>3. /\ 1 \in DOMAIN q /\ Len(q) \in DOMAIN q
      /\ 1 - 1 \notin DOMAIN q /\ Len(q) + 1 \notin DOMAIN q
  BY <1>2
<1> QED BY <1>1, <1>3 DEF At, q

LEMMA PopFrontStep ==
  ASSUME ListIInv, NEW l \in Lists, PopFront(l) \/ ForwardPopFront(l)
  PROVE  \E i \in DOMAIN Contents[l] : Takes(l, i)
<1> DEFINE q == Contents[l]
           v == front[l]
<1>1. kind # "shared" /\ v # Nil
  BY DEF PopFront, ForwardPopFront, Empty
<1>2. 1 \in DOMAIN q /\ q[1] = v /\ At(q, 1 - 1) = Nil
  BY <1>1, FirstAndLast
<1>3. /\ next[v] = At(q, 1 + 1) /\ v \in Nodes
      /\ At(q, 1 + 1) = Nil <=> 1 = Len(q)
      /\ At(q, 1 + 1) \in Pointer /\ Nil \in Pointer
  <2> HIDE DEF v
  <2>1. /\ q[1] \in Nodes /\ next[q[1]] = At(q, 1 + 1)
        /\ At(q, 1 + 1) = Nil <=> 1 = Len(q)
        /\ At(q, 1 + 1) \in Pointer
    BY <1>2, AtPosition
  <2> QED BY <1>2, <2>1 DEF Pointer
<1> HIDE DEF q
<1>4. /\ next' = [next EXCEPT ![v] = Nil] /\ kind' = kind
      /\ front' = [front EXCEPT ![l] = next[v]]
      /\ back' = IF next[v] = Nil THEN [back EXCEPT ![l] = Nil] ELSE back
      /\ size' = size /\ held' = held
  BY DEF PopFront, ForwardPopFront
<1>5. /\ kind # "forward" => prev' = [SetHook(prev, next[v], Nil) EXCEPT ![v] = Nil]
      /\ kind = "forward" => prev' = prev
  BY DEF PopFront, ForwardPopFront
<1>6. /\ front \in [Lists -> Pointer] /\ back \in [Lists -> Pointer]
      /\ held \subseteq Nodes /\ prev \in Hooks /\ next \in Hooks
  BY DEF ListIInv, ListTypeOK, Hooks
<1> HIDE DEF v
<1>7. next' \in Hooks /\ Bypass(next, next', v, Nil, At(q, 1 + 1))
  <2>1. SetHook(next, Nil, At(q, 1 + 1)) = next
    BY DEF SetHook
  <2>2. next' = [SetHook(next, Nil, At(q, 1 + 1)) EXCEPT ![v] = Nil]
    BY <1>4, <2>1
  <2> QED BY <1>3, <1>6, <2>2, HookBypass
<1>8. /\ prev' \in Hooks
      /\ kind # "forward" => Bypass(prev, prev', v, At(q, 1 + 1), Nil)
  BY <1>3, <1>5, <1>6, HookBypass
<1>9. front' = [front EXCEPT ![l] = IF 1 = 1 THEN At(q, 2) ELSE front[l]]
  BY <1>3, <1>4
<1>10. back' = [back EXCEPT ![l] = IF 1 = Len(q) THEN At(q, 1 - 1) ELSE back[l]]
  <2>1. back' = IF 1 = Len(q) THEN [back EXCEPT ![l] = At(q, 1 - 1)] ELSE back
    BY <1>2, <1>3, <1>4
  <2> QED BY <1>6, <2>1
<1>11. Takes(l, 1)
  BY <1>1, <1>2, <1>4, <1>6, <1>7, <1>8, <1>9, <1>10 DEF Takes, q
<1> QED BY <1>2, <1>11 DEF q

LEMMA PopBackStep ==
  ASSUME ListIInv, NEW l \in Lists, PopBack(l)
  PROVE  \E i \in DOMAIN Contents[l] : Takes(l, i)
<1> DEFINE q == Contents[l]
           v == back[l]
           n == Len(q)
<1>1. kind = "double" /\ kind # "shared" /\ kind # "forward" /\ v # Nil
  BY DEF PopBack
<1>2. front[l] # Nil
  BY <1>1, ListFacts
<1>3. n \in DOMAIN q /\ q[n] = v /\ At(q, n + 1) = Nil
  BY <1>1, <1>2, FirstAndLast
<1>4. /\ prev[v] = At(q, n - 1) /\ v \in Nodes
      /\ At(q, n - 1) = Nil <=> n = 1
      /\ At(q, n - 1) \in Pointer /\ Nil \in Pointer
  <2> HIDE DEF n, v
  <2>1. /\ q[n] \in Nodes /\ prev[q[n]] = At(q, n - 1)
        /\ At(q, n - 1) = Nil <=> n = 1
        /\ At(q, n - 1) \in Pointer
    BY <1>1, <1>3, AtPosition
  <2> QED BY <1>3, <2>1 DEF Pointer
<1> HIDE DEF q, n
<1>5. /\ prev' = [prev EXCEPT ![v] = Nil] /\ kind' = kind
      /\ next' = [SetHook(next, prev[v], Nil) EXCEPT ![v] = Nil]
      /\ back' = [back EXCEPT ![l] = prev[v]]
      /\ front' = IF prev[v] = Nil THEN [front EXCEPT ![l] = Nil] ELSE front
      /\ size' = size /\ held' = held
  BY DEF PopBack
<1>6. /\ front \in [Lists -> Pointer] /\ back \in [Lists -> Pointer]
      /\ held \subseteq Nodes /\ prev \in Hooks /\ next \in Hooks
  BY DEF ListIInv, ListTypeOK, Hooks
<1> HIDE DEF v
<1>7. next' \in Hooks /\ Bypass(next, next', v, At(q, n - 1), Nil)
  BY <1>4, <1>5, <1>6, HookBypass
<1>8. prev' \in Hooks /\ Bypass(prev, prev', v, Nil, At(q, n - 1))
  <2>1. SetHook(prev, Nil, At(q, n - 1)) = prev
    BY DEF SetHook
  <2>2. prev' = [SetHook(prev, Nil, At(q, n - 1)) EXCEPT ![v] = Nil]
    BY <1>5, <2>1
  <2> QED BY <1>4, <1>6, <2>2, HookBypass
<1>9. front' = [front EXCEPT ![l] = IF n = 1 THEN At(q, 2) ELSE front[l]]
  <2>1. n = 1 => At(q, 2) = Nil
    BY <1>3
  <2>2. front' = IF n = 1 THEN [front EXCEPT ![l] = At(q, 2)] ELSE front
    BY <1>4, <1>5, <2>1
  <2> QED BY <1>6, <2>2
<1>10. back' = [back EXCEPT ![l] = IF n = Len(q) THEN At(q, n - 1) ELSE back[l]]
  BY <1>4, <1>5 DEF n
<1>11. held' \subseteq Nodes
  BY <1>5, <1>6
<1>12. Takes(l, n)
  BY <1>1, <1>3, <1>5, <1>7, <1>8, <1>9, <1>10, <1>11 DEF Takes, q
<1> QED BY <1>3, <1>12 DEF q

\* Two lists exchange objects, and only hooks of their objects change.
Exchanges(l, m, r, s) ==
  /\ kind' = kind /\ kind # "shared" /\ size' = size /\ held' = held
  /\ prev' \in Hooks /\ next' \in Hooks
  /\ front' \in [Lists -> Pointer] /\ back' \in [Lists -> Pointer]
  /\ SameBut(front, front', {l, m}) /\ SameBut(back, back', {l, m})
  /\ HooksKept(kind, prev, next, prev', next',
               Elements(Contents[l]) \cup Elements(Contents[m]))
  /\ Listed(r, front'[l], back'[l], size[l], kind, prev', next')
  /\ Listed(s, front'[m], back'[m], size[m], kind, prev', next')

LEMMA ExchangeStep ==
  ASSUME ListIInv, NEW l \in Lists, NEW m \in Lists, l # m,
         NEW r \in Seq(Nodes), NEW s \in Seq(Nodes), Exchanges(l, m, r, s),
         Elements(r) \cup Elements(s) \subseteq
           Elements(Contents[l]) \cup Elements(Contents[m]),
         Elements(r) \cap Elements(s) = {}
  PROVE  ListTypeOK' /\ Becomes([Contents EXCEPT ![l] = r, ![m] = s])
<1>1. Shape(Contents, kind, prev, next, front, back, size)
  BY ListFacts
<1>2. /\ kind # "shared"
      /\ SameBut(front, front', {l, m}) /\ SameBut(back, back', {l, m})
      /\ HooksKept(kind, prev, next, prev', next',
                   Elements(Contents[l]) \cup Elements(Contents[m]))
      /\ Listed(r, front'[l], back'[l], size[l], kind, prev', next')
      /\ Listed(s, front'[m], back'[m], size[m], kind, prev', next')
  BY DEF Exchanges
<1>3. Shape([Contents EXCEPT ![l] = r, ![m] = s], kind, prev', next', front', back', size)
  BY <1>1, <1>2, Exchanged
<1>4. Becomes([Contents EXCEPT ![l] = r, ![m] = s])
  BY <1>3 DEF Becomes, Exchanges
<1>5. /\ prev' \in [Nodes -> Pointer] /\ next' \in [Nodes -> Pointer]
      /\ front' \in [Lists -> Pointer] /\ back' \in [Lists -> Pointer]
      /\ kind' = kind /\ size' = size /\ kind # "shared"
  BY DEF Exchanges, Hooks
<1>6. ListTypeOK /\ held' \subseteq Nodes
  BY DEF ListIInv, ListTypeOK, Exchanges
<1>7. ListTypeOK'
  BY <1>4, <1>5, <1>6, TypesKept
<1> QED BY <1>4, <1>7

\* What both lists are before.
LEMMA TwoLists ==
  ASSUME ListIInv, NEW l \in Lists, NEW m \in Lists, l # m, kind # "shared"
  PROVE  /\ Contents[l] \in Seq(Nodes) /\ Contents[m] \in Seq(Nodes)
         /\ Listed(Contents[l], front[l], back[l], size[l], kind, prev, next)
         /\ Listed(Contents[m], front[m], back[m], size[m], kind, prev, next)
         /\ Elements(Contents[l]) \cap Elements(Contents[m]) = {}
         /\ front[l] = Nil <=> back[l] = Nil
         /\ front[m] = Nil <=> back[m] = Nil
         /\ front[l] \in Pointer /\ back[l] \in Pointer
         /\ front[m] \in Pointer /\ back[m] \in Pointer
         /\ front \in [Lists -> Pointer] /\ back \in [Lists -> Pointer]
         /\ prev \in Hooks /\ next \in Hooks
<1>1. /\ Contents[l] \in Seq(Nodes) /\ Contents[m] \in Seq(Nodes)
      /\ Listed(Contents[l], front[l], back[l], size[l], kind, prev, next)
      /\ Listed(Contents[m], front[m], back[m], size[m], kind, prev, next)
      /\ prev \in Hooks /\ next \in Hooks
  BY ListFacts
<1>2. /\ front[l] = Nil <=> back[l] = Nil
      /\ front[m] = Nil <=> back[m] = Nil
  BY ListFacts
<1>3. Elements(Contents[l]) \cap Elements(Contents[m]) = {}
  BY DEF ListIInv, Shape
<1>4. front \in [Lists -> Pointer] /\ back \in [Lists -> Pointer]
  BY DEF ListIInv, ListTypeOK
<1>5. /\ front[l] \in Pointer /\ back[l] \in Pointer
      /\ front[m] \in Pointer /\ back[m] \in Pointer
  BY <1>4
<1> QED BY <1>1, <1>2, <1>3, <1>4, <1>5

\* The kind's list fields do not matter to a list of plain pointers.
LEMMA ListedSize ==
  ASSUME NEW q, NEW f, NEW b, NEW n, NEW kd, NEW prv, NEW nxt,
         Listed(q, f, b, n, kd, prv, nxt), kd # "shared", NEW k
  PROVE  Listed(q, f, b, k, kd, prv, nxt)
BY DEF Listed

LEMMA SwapStep ==
  ASSUME ListIInv, NEW l \in Lists, NEW m \in Lists, Swap(l, m)
  PROVE  /\ ListTypeOK'
         /\ Becomes([Contents EXCEPT ![l] = Contents[m], ![m] = Contents[l]])
<1>1. /\ l # m /\ kind # "shared"
      /\ kind' = kind /\ size' = size /\ held' = held /\ prev' = prev /\ next' = next
      /\ front' = [front EXCEPT ![l] = front[m], ![m] = front[l]]
      /\ back' = [back EXCEPT ![l] = back[m], ![m] = back[l]]
  BY DEF Swap
<1>2. /\ Contents[l] \in Seq(Nodes) /\ Contents[m] \in Seq(Nodes)
      /\ Listed(Contents[l], front[l], back[l], size[l], kind, prev, next)
      /\ Listed(Contents[m], front[m], back[m], size[m], kind, prev, next)
      /\ Elements(Contents[l]) \cap Elements(Contents[m]) = {}
      /\ front \in [Lists -> Pointer] /\ back \in [Lists -> Pointer]
      /\ prev \in Hooks /\ next \in Hooks
  BY <1>1, TwoLists
<1>3. /\ front'[l] = front[m] /\ front'[m] = front[l]
      /\ back'[l] = back[m] /\ back'[m] = back[l]
      /\ front' \in [Lists -> Pointer] /\ back' \in [Lists -> Pointer]
      /\ SameBut(front, front', {l, m}) /\ SameBut(back, back', {l, m})
  BY <1>1, <1>2 DEF SameBut
<1>4. /\ Listed(Contents[m], front'[l], back'[l], size[l], kind, prev', next')
      /\ Listed(Contents[l], front'[m], back'[m], size[m], kind, prev', next')
  BY <1>1, <1>2, <1>3, ListedSize
<1>5. Exchanges(l, m, Contents[m], Contents[l])
  BY <1>1, <1>2, <1>3, <1>4 DEF Exchanges, HooksKept
<1> QED BY <1>1, <1>2, <1>5, ExchangeStep

LEMMA MoveAssignStep ==
  ASSUME ListIInv, NEW l \in Lists, NEW m \in Lists, MoveAssign(l, m)
  PROVE  /\ ListTypeOK'
         /\ Becomes([Contents EXCEPT ![l] = Contents[m], ![m] = << >>])
<1>1. /\ l # m /\ kind # "shared"
      /\ kind' = kind /\ size' = size /\ held' = held /\ prev' = prev /\ next' = next
      /\ front' = [front EXCEPT ![l] = front[m], ![m] = Nil]
      /\ back' = [back EXCEPT ![l] = back[m], ![m] = Nil]
  BY DEF MoveAssign
<1>2. /\ Contents[m] \in Seq(Nodes)
      /\ Listed(Contents[m], front[m], back[m], size[m], kind, prev, next)
      /\ front \in [Lists -> Pointer] /\ back \in [Lists -> Pointer]
      /\ prev \in Hooks /\ next \in Hooks
  BY <1>1, TwoLists
<1>3. /\ front'[l] = front[m] /\ front'[m] = Nil
      /\ back'[l] = back[m] /\ back'[m] = Nil
      /\ front' \in [Lists -> Pointer] /\ back' \in [Lists -> Pointer]
      /\ SameBut(front, front', {l, m}) /\ SameBut(back, back', {l, m})
  BY <1>1, <1>2 DEF SameBut, Pointer
<1>4. Listed(Contents[m], front'[l], back'[l], size[l], kind, prev', next')
  BY <1>1, <1>2, <1>3, ListedSize
<1>5. Listed(<< >>, front'[m], back'[m], size[m], kind, prev', next')
  BY <1>1, <1>3, ListedEmpty
<1>6. Exchanges(l, m, Contents[m], << >>)
  BY <1>1, <1>2, <1>3, <1>4, <1>5 DEF Exchanges, HooksKept
<1>7. << >> \in Seq(Nodes) /\ Elements(<< >>) = {}
  BY DEF Elements
<1> QED BY <1>1, <1>2, <1>6, <1>7, ExchangeStep

\* A step links the last object of a to the first of b.
Links(a, b) ==
  /\ kind # "shared" /\ front[a] # Nil /\ front[b] # Nil
  /\ next' = SetHook(next, back[a], front[b])
  /\ kind # "forward" => prev' = SetHook(prev, front[b], back[a])
  /\ kind = "forward" => prev' = prev

LEMMA Linked2 ==
  ASSUME ListIInv, NEW a \in Lists, NEW b \in Lists, a # b, Links(a, b), NEW n
  PROVE  /\ Listed(Contents[a] \o Contents[b], front[a], back[b], n, kind, prev', next')
         /\ prev' \in Hooks /\ next' \in Hooks
         /\ HooksKept(kind, prev, next, prev', next',
                      Elements(Contents[a]) \cup Elements(Contents[b]))
<1> DEFINE q == Contents[a]
           r == Contents[b]
<1>1. /\ kind # "shared" /\ front[a] # Nil /\ front[b] # Nil
      /\ next' = SetHook(next, back[a], front[b])
      /\ kind # "forward" => prev' = SetHook(prev, front[b], back[a])
      /\ kind = "forward" => prev' = prev
  BY DEF Links
<1>2. /\ q \in Seq(Nodes) /\ r \in Seq(Nodes)
      /\ Listed(q, front[a], back[a], size[a], kind, prev, next)
      /\ Listed(r, front[b], back[b], size[b], kind, prev, next)
      /\ Elements(q) \cap Elements(r) = {}
      /\ back[a] \in Pointer /\ front[b] \in Pointer
      /\ prev \in Hooks /\ next \in Hooks
  BY <1>1, TwoLists
<1>3. back[a] = At(q, Len(q)) /\ front[b] = At(r, 1)
  BY <1>1, ListFacts
<1>4. /\ back[a] = Nil \/ back[a] \in Elements(q)
      /\ front[b] = Nil \/ front[b] \in Elements(r)
  <2> HIDE DEF q, r
  <2> QED BY <1>2, <1>3, EndsInside
<1> HIDE DEF q, r
<1>5. Listed(q \o r, IF front[a] = Nil THEN front[b] ELSE front[a], back[b], n, kind,
             prev', SetHook(next, At(q, Len(q)), front[b]))
  <2>1. kind # "forward" => prev' = SetHook(prev, front[b], At(q, Len(q)))
    BY <1>1, <1>3
  <2>2. kind # "shared" => back[b] = IF front[b] = Nil THEN back[a] ELSE back[b]
    BY <1>1
  <2>3. kind = "shared" => n = Len(q) + Len(r)
    BY <1>1
  <2> QED BY <1>2, <2>1, <2>2, <2>3, ListedJoined
<1>6. Listed(q \o r, front[a], back[b], n, kind, prev', next')
  BY <1>1, <1>3, <1>5
<1>7. /\ SetHook(next, back[a], front[b]) \in Hooks
      /\ SetHook(prev, front[b], back[a]) \in Hooks
  BY <1>2, HookSet
<1>8. prev' \in Hooks /\ next' \in Hooks
  BY <1>1, <1>2, <1>7
<1>9. HooksKept(kind, prev, next, prev', next', Elements(q) \cup Elements(r))
  <2> SUFFICES ASSUME NEW x \in Nodes \ (Elements(q) \cup Elements(r))
               PROVE  next'[x] = next[x] /\ (kind # "forward" => prev'[x] = prev[x])
    BY DEF HooksKept
  <2>1. x # Nil /\ x \in Nodes
    BY ListAssumption
  <2>2. x # back[a] /\ x # front[b]
    BY <1>4, <2>1
  <2>3. /\ SetHook(next, back[a], front[b])[x] = next[x]
        /\ SetHook(prev, front[b], back[a])[x] = prev[x]
    BY <1>2, <2>1, <2>2, HookSet
  <2> QED BY <1>1, <2>3
<1> QED BY <1>6, <1>8, <1>9 DEF q, r

LEMMA ConcatenatedDisjoint ==
  ASSUME ListIInv, NEW a \in Lists, NEW b \in Lists, a # b
  PROVE  /\ Contents[a] \o Contents[b] \in Seq(Nodes)
         /\ Elements(Contents[a] \o Contents[b]) =
              Elements(Contents[a]) \cup Elements(Contents[b])
<1>1. /\ Contents[a] \in Seq(Nodes) /\ Contents[b] \in Seq(Nodes)
      /\ Distinct(Contents[a]) /\ Distinct(Contents[b])
  BY ListFacts
<1>2. Elements(Contents[a]) \cap Elements(Contents[b]) = {}
  BY DEF ListIInv, Shape
<1> QED BY <1>1, <1>2, JoinedElements

\* Into an empty list the other list moves as it is.
LEMMA InsertEmptyStep ==
  ASSUME ListIInv, NEW l \in Lists, NEW m \in Lists,
         InsertFront(l, m) \/ InsertBack(l, m), Empty(l)
  PROVE  /\ Contents[l] = << >> /\ Contents[m] \in Seq(Nodes)
         /\ ListTypeOK'
         /\ Becomes([Contents EXCEPT ![l] = Contents[m], ![m] = << >>])
<1>1. /\ l # m /\ kind # "shared"
      /\ kind' = kind /\ size' = size /\ held' = held /\ prev' = prev /\ next' = next
      /\ front' = [front EXCEPT ![l] = front[m], ![m] = Nil]
      /\ back' = [back EXCEPT ![l] = back[m], ![m] = Nil]
  BY DEF InsertFront, InsertBack
<1>2. /\ Contents[m] \in Seq(Nodes)
      /\ Listed(Contents[m], front[m], back[m], size[m], kind, prev, next)
      /\ front \in [Lists -> Pointer] /\ back \in [Lists -> Pointer]
      /\ prev \in Hooks /\ next \in Hooks
  BY <1>1, TwoLists
<1>3. /\ front'[l] = front[m] /\ front'[m] = Nil
      /\ back'[l] = back[m] /\ back'[m] = Nil
      /\ front' \in [Lists -> Pointer] /\ back' \in [Lists -> Pointer]
      /\ SameBut(front, front', {l, m}) /\ SameBut(back, back', {l, m})
  BY <1>1, <1>2 DEF SameBut, Pointer
<1>4. Listed(Contents[m], front'[l], back'[l], size[l], kind, prev', next')
  BY <1>1, <1>2, <1>3, ListedSize
<1>5. Listed(<< >>, front'[m], back'[m], size[m], kind, prev', next')
  BY <1>1, <1>3, ListedEmpty
<1>6. Exchanges(l, m, Contents[m], << >>)
  BY <1>1, <1>2, <1>3, <1>4, <1>5 DEF Exchanges, HooksKept
<1>7. << >> \in Seq(Nodes) /\ Elements(<< >>) = {}
  BY DEF Elements
<1>8. Contents[l] = << >>
  BY ListFacts DEF Empty
<1> QED BY <1>1, <1>2, <1>6, <1>7, <1>8, ExchangeStep

LEMMA InsertFrontStep ==
  ASSUME ListIInv, NEW l \in Lists, NEW m \in Lists, InsertFront(l, m)
  PROVE  /\ ListTypeOK'
         /\ Becomes([Contents EXCEPT ![l] = Contents[m] \o Contents[l], ![m] = << >>])
<1>1. CASE Empty(l)
  <2>1. /\ Contents[l] = << >> /\ Contents[m] \in Seq(Nodes)
        /\ ListTypeOK'
        /\ Becomes([Contents EXCEPT ![l] = Contents[m], ![m] = << >>])
    BY <1>1, InsertEmptyStep
  <2>2. Contents[m] \o Contents[l] = Contents[m]
    BY <2>1, ConcatEmptySeq
  <2> QED BY <2>1, <2>2
<1>2. CASE ~Empty(l)
  <2>1. /\ l # m /\ kind # "shared" /\ front[m] # Nil /\ front[l] # Nil
        /\ kind' = kind /\ size' = size /\ held' = held
        /\ front' = [front EXCEPT ![l] = front[m], ![m] = Nil]
        /\ back' = [back EXCEPT ![m] = Nil]
        /\ next' = [next EXCEPT ![back[m]] = front[l]]
        /\ prev' = IF kind = "double" THEN [prev EXCEPT ![front[l]] = back[m]] ELSE prev
    BY <1>2 DEF InsertFront, Empty
  <2>2. /\ front \in [Lists -> Pointer] /\ back \in [Lists -> Pointer]
        /\ back[m] # Nil /\ kind \in Kinds
    BY <2>1, TwoLists DEF ListIInv, ListTypeOK
  <2>3. Links(m, l)
    BY <2>1, <2>2 DEF Links, SetHook, Kinds
  <2>4. /\ Listed(Contents[m] \o Contents[l], front[m], back[l], size[l], kind, prev', next')
        /\ prev' \in Hooks /\ next' \in Hooks
        /\ HooksKept(kind, prev, next, prev', next',
                     Elements(Contents[m]) \cup Elements(Contents[l]))
    BY <2>1, <2>3, Linked2
  <2>5. /\ front'[l] = front[m] /\ front'[m] = Nil
        /\ back'[l] = back[l] /\ back'[m] = Nil
        /\ front' \in [Lists -> Pointer] /\ back' \in [Lists -> Pointer]
        /\ SameBut(front, front', {l, m}) /\ SameBut(back, back', {l, m})
    BY <2>1, <2>2 DEF SameBut, Pointer
  <2>6. Listed(<< >>, front'[m], back'[m], size[m], kind, prev', next')
    BY <2>1, <2>5, ListedEmpty
  <2>7. Elements(Contents[m]) \cup Elements(Contents[l]) =
          Elements(Contents[l]) \cup Elements(Contents[m])
    OBVIOUS
  <2>8. Exchanges(l, m, Contents[m] \o Contents[l], << >>)
    BY <2>1, <2>4, <2>5, <2>6, <2>7 DEF Exchanges
  <2>9. << >> \in Seq(Nodes) /\ Elements(<< >>) = {}
    BY DEF Elements
  <2>10. /\ Contents[m] \o Contents[l] \in Seq(Nodes)
         /\ Elements(Contents[m] \o Contents[l]) =
              Elements(Contents[m]) \cup Elements(Contents[l])
    BY <2>1, ConcatenatedDisjoint
  <2> QED BY <2>1, <2>8, <2>9, <2>10, ExchangeStep
<1> QED BY <1>1, <1>2

LEMMA InsertBackStep ==
  ASSUME ListIInv, NEW l \in Lists, NEW m \in Lists, InsertBack(l, m)
  PROVE  /\ ListTypeOK'
         /\ Becomes([Contents EXCEPT ![l] = Contents[l] \o Contents[m], ![m] = << >>])
<1>1. CASE Empty(l)
  <2>1. /\ Contents[l] = << >> /\ Contents[m] \in Seq(Nodes)
        /\ ListTypeOK'
        /\ Becomes([Contents EXCEPT ![l] = Contents[m], ![m] = << >>])
    BY <1>1, InsertEmptyStep
  <2>2. Contents[l] \o Contents[m] = Contents[m]
    BY <2>1, ConcatEmptySeq
  <2> QED BY <2>1, <2>2
<1>2. CASE ~Empty(l)
  <2>1. /\ l # m /\ kind # "shared" /\ front[m] # Nil /\ front[l] # Nil
        /\ kind' = kind /\ size' = size /\ held' = held
        /\ front' = [front EXCEPT ![m] = Nil]
        /\ back' = [back EXCEPT ![l] = back[m], ![m] = Nil]
        /\ next' = [next EXCEPT ![back[l]] = front[m]]
        /\ prev' = IF kind = "double" THEN [prev EXCEPT ![front[m]] = back[l]] ELSE prev
    BY <1>2 DEF InsertBack, Empty
  <2>2. /\ front \in [Lists -> Pointer] /\ back \in [Lists -> Pointer]
        /\ back[l] # Nil /\ kind \in Kinds
    BY <2>1, TwoLists DEF ListIInv, ListTypeOK
  <2>3. Links(l, m)
    BY <2>1, <2>2 DEF Links, SetHook, Kinds
  <2>4. /\ Listed(Contents[l] \o Contents[m], front[l], back[m], size[l], kind, prev', next')
        /\ prev' \in Hooks /\ next' \in Hooks
        /\ HooksKept(kind, prev, next, prev', next',
                     Elements(Contents[l]) \cup Elements(Contents[m]))
    BY <2>1, <2>3, Linked2
  <2>5. /\ front'[l] = front[l] /\ front'[m] = Nil
        /\ back'[l] = back[m] /\ back'[m] = Nil
        /\ front' \in [Lists -> Pointer] /\ back' \in [Lists -> Pointer]
        /\ SameBut(front, front', {l, m}) /\ SameBut(back, back', {l, m})
    BY <2>1, <2>2 DEF SameBut, Pointer
  <2>6. Listed(<< >>, front'[m], back'[m], size[m], kind, prev', next')
    BY <2>1, <2>5, ListedEmpty
  <2>7. Exchanges(l, m, Contents[l] \o Contents[m], << >>)
    BY <2>1, <2>4, <2>5, <2>6 DEF Exchanges
  <2>8. << >> \in Seq(Nodes) /\ Elements(<< >>) = {}
    BY DEF Elements
  <2>9. /\ Contents[l] \o Contents[m] \in Seq(Nodes)
        /\ Elements(Contents[l] \o Contents[m]) =
             Elements(Contents[l]) \cup Elements(Contents[m])
    BY <2>1, ConcatenatedDisjoint
  <2> QED BY <2>1, <2>7, <2>8, <2>9, ExchangeStep
<1> QED BY <1>1, <1>2

\* A list forgets its objects; that of shared pointers resets their hooks.
LEMMA ClearStep ==
  ASSUME ListIInv, NEW l \in Lists, ClearRaw(l) \/ SharedClear(l)
  PROVE  ListTypeOK' /\ Becomes([Contents EXCEPT ![l] = << >>])
<1> DEFINE new == [Contents EXCEPT ![l] = << >>]
           q == Contents[l]
<1>1. /\ Shape(Contents, kind, prev, next, front, back, size)
      /\ q \in Seq(Nodes) /\ Members(l) = Elements(q)
      /\ \A k \in Lists : k # l => Elements(q) \cap Elements(Contents[k]) = {}
  <2>1. Shape(Contents, kind, prev, next, front, back, size)
    BY DEF ListIInv
  <2>2. \A k \in Lists : k # l => Elements(Contents[l]) \cap Elements(Contents[k]) = {}
    BY <2>1 DEF Shape
  <2> QED BY <2>1, <2>2, ListFacts
<1>2. /\ front \in [Lists -> Pointer] /\ back \in [Lists -> Pointer]
      /\ prev \in [Nodes -> Pointer] /\ next \in [Nodes -> Pointer]
      /\ size \in [Lists -> 0..Cardinality(Nodes)] /\ ListTypeOK
      /\ kind # "shared" => back[l] \in Pointer
  BY DEF ListIInv, ListTypeOK
<1>3. /\ kind' = kind /\ held' = held
      /\ front' = [front EXCEPT ![l] = Nil]
  BY DEF ClearRaw, SharedClear
<1>4. /\ kind # "shared" => /\ back' = [back EXCEPT ![l] = Nil]
                            /\ size' = size /\ prev' = prev /\ next' = next
      /\ kind = "shared" =>
           /\ back' = back /\ size' = [size EXCEPT ![l] = 0]
           /\ next' = [v \in Nodes |-> IF v \in Elements(q) THEN Nil ELSE next[v]]
           /\ prev' = [v \in Nodes |-> IF v \in Elements(q) THEN Nil ELSE prev[v]]
  BY <1>1 DEF ClearRaw, SharedClear
<1>5. /\ new \in [Lists -> Seq(Nodes)] /\ new[l] = << >>
      /\ \A k \in Lists \ {l} : new[k] = Contents[k]
  <2>1. Contents \in [Lists -> Seq(Nodes)] /\ << >> \in Seq(Nodes)
    BY <1>1 DEF Shape
  <2> QED BY <2>1
<1> HIDE DEF new, q
<1>6. Nil \in Pointer
  BY DEF Pointer
<1>7. /\ front' \in [Lists -> Pointer] /\ back' \in [Lists -> Pointer]
      /\ prev' \in [Nodes -> Pointer] /\ next' \in [Nodes -> Pointer]
  <2>1. front' \in [Lists -> Pointer]
    BY <1>2, <1>3, <1>6
  <2>2. CASE kind # "shared"
    BY <1>2, <1>4, <1>6, <2>1, <2>2
  <2>3. CASE kind = "shared"
    BY <1>2, <1>4, <1>6, <2>1, <2>3
  <2> QED BY <2>2, <2>3
<1>8. /\ front'[l] = Nil /\ (kind # "shared" => back'[l] = Nil)
      /\ (kind = "shared" => size'[l] = 0)
      /\ SameBut(front, front', {l}) /\ SameBut(back, back', {l})
      /\ SameBut(size, size', {l}) /\ SameBut(Contents, new, {l})
  BY <1>2, <1>3, <1>4, <1>5 DEF SameBut
<1>9. ASSUME NEW x \in Nodes, x \notin Elements(q)
      PROVE  next'[x] = next[x] /\ prev'[x] = prev[x]
  BY <1>4, <1>9
<1>10. ASSUME NEW k \in Lists \ {l}, NEW x \in Elements(Contents[k])
       PROVE  next'[x] = next[x] /\ (kind # "forward" => prev'[x] = prev[x])
  <2>1. x \in Nodes
    BY ListFacts, ElementsAreNodes
  <2>2. x \notin Elements(q)
    BY <1>1
  <2> QED BY <1>9, <2>1, <2>2
<1>11. Elements(<< >>) = {}
  BY DEF Elements
<1>12. ASSUME NEW k \in {l}
       PROVE  Listed(new[k], front'[k], back'[k], size'[k], kind, prev', next')
  <2>1. Listed(<< >>, Nil, Nil, size'[l], kind, prev', next')
    BY <1>8, ListedEmpty
  <2>2. kind = "shared" => Listed(<< >>, Nil, back'[l], size'[l], kind, prev', next')
    BY <2>1 DEF Listed
  <2> QED BY <1>5, <1>8, <2>1, <2>2
<1>13. ASSUME NEW k \in {l}, NEW m \in Lists, k # m
       PROVE  Elements(new[k]) \cap Elements(new[m]) = {}
  BY <1>5, <1>11
<1>14. ASSUME kind = "shared", NEW x \in Nodes,
              \A k \in Lists : x \notin Elements(new[k])
       PROVE  prev'[x] = Nil /\ next'[x] = Nil
  <2>1. CASE x \in Elements(q)
    BY <1>4, <1>14, <2>1
  <2>2. CASE x \notin Elements(q)
    <3>1. \A k \in Lists : x \notin Elements(Contents[k])
      BY <1>5, <1>14, <2>2 DEF q
    <3>2. prev[x] = Nil /\ next[x] = Nil
      BY <1>1, <1>14, <3>1 DEF Shape
    <3> QED BY <1>9, <2>2, <3>2
  <2> QED BY <2>1, <2>2
<1>15. kind = "shared" =>
         \A x \in Nodes : (\A k \in Lists : x \notin Elements(new[k])) =>
                            prev'[x] = Nil /\ next'[x] = Nil
  BY <1>14
<1>16. kind = "shared" => DOMAIN size' = Lists /\ size' = [k \in Lists |-> size'[k]]
  BY <1>2, <1>4
<1>17. kind # "shared" => size' = size
  BY <1>4
<1>18. Shape(new, kind, prev', next', front', back', size')
  <2>1. {l} \in SUBSET Lists
    OBVIOUS
  <2> QED BY <1>1, <1>5, <1>8, <1>10, <1>12, <1>13, <1>15, <2>1, Changed
<1>19. Becomes(new)
  BY <1>3, <1>18 DEF Becomes
<1>20. held' \subseteq Nodes
  BY <1>2, <1>3 DEF ListTypeOK
<1>21. ListTypeOK'
  BY <1>2, <1>3, <1>7, <1>16, <1>17, <1>19, <1>20, TypesKept
<1> QED BY <1>19, <1>21 DEF new

-----------------------------------------------------------------------------
(* The invariant of every behaviour. *)

LEMMA ListInitially == ListInit => ListIInv /\ Contents = [l \in Lists |-> << >>]
<1> SUFFICES ASSUME ListInit PROVE ListIInv /\ Contents = [l \in Lists |-> << >>]
  OBVIOUS
<1> DEFINE new == [l \in Lists |-> << >>]
<1>1. /\ kind \in Kinds /\ held = {}
      /\ \A v \in Nodes : prev[v] = Nil /\ next[v] = Nil
      /\ \A l \in Lists : front[l] = Nil /\ back[l] = Nil /\ size[l] = 0
  BY DEF ListInit, UnlinkedHook, EmptyList
<1>2. new \in [Lists -> Seq(Nodes)] /\ \A l \in Lists : new[l] = << >>
  OBVIOUS
<1> HIDE DEF new
<1>3. \A l \in Lists : Elements(new[l]) = {}
  BY <1>2 DEF Elements
<1>4. ASSUME NEW l \in Lists
      PROVE  Listed(new[l], front[l], back[l], size[l], kind, prev, next)
  BY <1>1, <1>2, ListedEmpty
<1>5. Shape(new, kind, prev, next, front, back, size)
  BY <1>1, <1>2, <1>3, <1>4 DEF Shape
<1>6. Contents = new
  BY <1>5, ContentsNow, WalkShape
<1>7. 0 \in 0..Cardinality(Nodes)
  BY ListAssumption, FS_CardinalityType
<1>8. ListTypeOK
  BY <1>7 DEF ListInit, ListTypeOK, UnlinkedHook, EmptyList, Pointer
<1> QED BY <1>5, <1>6, <1>8 DEF ListIInv, new

LEMMA BecomesInvariant ==
  ASSUME ListTypeOK', NEW new, Becomes(new)
  PROVE  ListIInv' /\ Contents' = new
<1>1. Contents' = new
  BY ContentsBecome
<1> QED BY <1>1 DEF ListIInv, Becomes

\* What an operation makes of the contents cs of the lists.
Effect(cs, l, new) ==
  \/ \E v \in Nodes : /\ \A k \in Lists : v \notin Elements(cs[k])
                      /\ \/ new = [cs EXCEPT ![l] = <<v>> \o @]
                         \/ new = [cs EXCEPT ![l] = @ \o <<v>>]
  \/ \E i \in DOMAIN cs[l] : new = [cs EXCEPT ![l] = Without(@, i)]
  \/ new = [cs EXCEPT ![l] = << >>]
  \/ \E m \in Lists : /\ l # m
                      /\ \/ new = [cs EXCEPT ![l] = cs[m], ![m] = cs[l]]
                         \/ new = [cs EXCEPT ![l] = cs[m], ![m] = << >>]
                         \/ new = [cs EXCEPT ![l] = cs[m] \o cs[l], ![m] = << >>]
                         \/ new = [cs EXCEPT ![l] = cs[l] \o cs[m], ![m] = << >>]

LEMMA ListStepEffect ==
  ASSUME ListIInv, NEW l \in Lists, ListStep(l)
  PROVE  \E new : ListTypeOK' /\ Becomes(new) /\ Effect(Contents, l, new)
<1>1. ASSUME NEW v \in Nodes, PushFront(l, v) \/ SharedPushFront(l, v)
      PROVE  \E new : ListTypeOK' /\ Becomes(new) /\ Effect(Contents, l, new)
  <2>1. \A k \in Lists : v \notin Elements(Contents[k])
    BY <1>1, NotLinked DEF PushFront, SharedPushFront
  <2>2. ListTypeOK' /\ Becomes([Contents EXCEPT ![l] = <<v>> \o @])
    BY <1>1, PushFrontStep, SharedPushFrontStep
  <2>3. Effect(Contents, l, [Contents EXCEPT ![l] = <<v>> \o @])
    BY <2>1 DEF Effect
  <2> QED BY <2>2, <2>3
<1>2. ASSUME NEW v \in Nodes, PushBack(l, v) \/ ForwardPushBack(l, v)
      PROVE  \E new : ListTypeOK' /\ Becomes(new) /\ Effect(Contents, l, new)
  <2>1. \A k \in Lists : v \notin Elements(Contents[k])
    BY <1>2, NotLinked DEF PushBack, ForwardPushBack
  <2>2. ListTypeOK' /\ Becomes([Contents EXCEPT ![l] = @ \o <<v>>])
    BY <1>2, PushBackStep
  <2>3. Effect(Contents, l, [Contents EXCEPT ![l] = @ \o <<v>>])
    BY <2>1 DEF Effect
  <2> QED BY <2>2, <2>3
<1>3. ASSUME NEW i \in DOMAIN Contents[l], Takes(l, i)
      PROVE  \E new : ListTypeOK' /\ Becomes(new) /\ Effect(Contents, l, new)
  <2>1. ListTypeOK' /\ Becomes([Contents EXCEPT ![l] = Without(@, i)])
    BY <1>3, TakeOutStep
  <2>2. Effect(Contents, l, [Contents EXCEPT ![l] = Without(@, i)])
    BY DEF Effect
  <2> QED BY <2>1, <2>2
<1>4. ASSUME NEW v \in Nodes, Erase(l, v) \/ SharedErase(l, v)
      PROVE  \E new : ListTypeOK' /\ Becomes(new) /\ Effect(Contents, l, new)
  BY <1>3, <1>4, EraseStep
<1>5. ASSUME PopFront(l) \/ ForwardPopFront(l) \/ PopBack(l)
      PROVE  \E new : ListTypeOK' /\ Becomes(new) /\ Effect(Contents, l, new)
  BY <1>3, <1>5, PopFrontStep, PopBackStep
<1>6. ASSUME ClearRaw(l) \/ SharedClear(l)
      PROVE  \E new : ListTypeOK' /\ Becomes(new) /\ Effect(Contents, l, new)
  <2>1. ListTypeOK' /\ Becomes([Contents EXCEPT ![l] = << >>])
    BY <1>6, ClearStep
  <2>2. Effect(Contents, l, [Contents EXCEPT ![l] = << >>])
    BY DEF Effect
  <2> QED BY <2>1, <2>2
<1>7. ASSUME NEW m \in Lists, Swap(l, m)
      PROVE  \E new : ListTypeOK' /\ Becomes(new) /\ Effect(Contents, l, new)
  <2> DEFINE new == [Contents EXCEPT ![l] = Contents[m], ![m] = Contents[l]]
  <2>1. ListTypeOK' /\ Becomes(new)
    BY <1>7, SwapStep
  <2>2. l # m
    BY <1>7 DEF Swap
  <2>3. Effect(Contents, l, new)
    BY <2>2 DEF Effect
  <2> QED BY <2>1, <2>3
<1>8. ASSUME NEW m \in Lists, MoveAssign(l, m)
      PROVE  \E new : ListTypeOK' /\ Becomes(new) /\ Effect(Contents, l, new)
  <2> DEFINE new == [Contents EXCEPT ![l] = Contents[m], ![m] = << >>]
  <2>1. ListTypeOK' /\ Becomes(new)
    BY <1>8, MoveAssignStep
  <2>2. l # m
    BY <1>8 DEF MoveAssign
  <2>3. Effect(Contents, l, new)
    BY <2>2 DEF Effect
  <2> QED BY <2>1, <2>3
<1>9. ASSUME NEW m \in Lists, InsertFront(l, m)
      PROVE  \E new : ListTypeOK' /\ Becomes(new) /\ Effect(Contents, l, new)
  <2> DEFINE new == [Contents EXCEPT ![l] = Contents[m] \o Contents[l], ![m] = << >>]
  <2>1. ListTypeOK' /\ Becomes(new)
    BY <1>9, InsertFrontStep
  <2>2. l # m
    BY <1>9 DEF InsertFront
  <2>3. Effect(Contents, l, new)
    BY <2>2 DEF Effect
  <2> QED BY <2>1, <2>3
<1>10. ASSUME NEW m \in Lists, InsertBack(l, m)
       PROVE  \E new : ListTypeOK' /\ Becomes(new) /\ Effect(Contents, l, new)
  <2> DEFINE new == [Contents EXCEPT ![l] = Contents[l] \o Contents[m], ![m] = << >>]
  <2>1. ListTypeOK' /\ Becomes(new)
    BY <1>10, InsertBackStep
  <2>2. l # m
    BY <1>10 DEF InsertBack
  <2>3. Effect(Contents, l, new)
    BY <2>2 DEF Effect
  <2> QED BY <2>1, <2>3
<1> QED BY <1>1, <1>2, <1>4, <1>5, <1>6, <1>7, <1>8, <1>9, <1>10 DEF ListStep

\* A step that leaves the hooks and the ends as they are.
LEMMA ListsStay ==
  ASSUME ListIInv, UNCHANGED <<kind, prev, next, front, back, size>>,
         held' \subseteq Nodes
  PROVE  ListIInv' /\ Contents' = Contents
<1>1. Becomes(Contents)
  BY DEF ListIInv, Becomes
<1>2. ListTypeOK'
  BY DEF ListIInv, ListTypeOK
<1> QED BY <1>1, <1>2, BecomesInvariant

LEMMA ListNextEffect ==
  ASSUME ListIInv, [ListNext]_listVars
  PROVE  /\ ListIInv'
         /\ Contents' = Contents \/ \E l \in Lists : Effect(Contents, l, Contents')
<1>1. ASSUME NEW l \in Lists, ListStep(l)
      PROVE  ListIInv' /\ Effect(Contents, l, Contents')
  BY <1>1, ListStepEffect, BecomesInvariant
<1>2. ASSUME NEW v \in Nodes, Hold(v) \/ Drop(v)
      PROVE  ListIInv' /\ Contents' = Contents
  <2>1. UNCHANGED <<kind, prev, next, front, back, size>> /\ held' \subseteq Nodes
    BY <1>2 DEF Hold, Drop, ListIInv, ListTypeOK
  <2> QED BY <2>1, ListsStay
<1>3. ASSUME UNCHANGED listVars
      PROVE  ListIInv' /\ Contents' = Contents
  <2>1. UNCHANGED <<kind, prev, next, front, back, size>> /\ held' \subseteq Nodes
    BY <1>3 DEF listVars, ListIInv, ListTypeOK
  <2> QED BY <2>1, ListsStay
<1> QED BY <1>1, <1>2, <1>3 DEF ListNext

\* In every state the hooks and the ends are those of the sequences.
THEOREM ListInvariant == ListSpec => []ListIInv
<1>1. ListInit => ListIInv
  BY ListInitially
<1>2. ListIInv /\ [ListNext]_listVars => ListIInv'
  BY ListNextEffect
<1> QED BY <1>1, <1>2, PTL DEF ListSpec

LEMMA BothWays == ListIInv => LinkedBothWays
<1> SUFFICES ASSUME ListIInv PROVE LinkedBothWays
  OBVIOUS
<1>1. ASSUME NEW l \in Lists
      PROVE  LET c == Content(l) IN
             /\ Empty(l) <=> c = << >>
             /\ c # << >> => next[c[Len(c)]] = Nil
             /\ kind # "shared" => back[l] = IF c = << >> THEN Nil ELSE c[Len(c)]
             /\ kind # "forward" => \A k \in 1..Len(c) :
                                      prev[c[k]] = IF k = 1 THEN Nil ELSE c[k - 1]
             /\ kind = "shared" => size[l] = Len(c)
  <2> DEFINE q == Contents[l]
  <2>1. /\ q = Content(l) /\ q \in Seq(Nodes)
        /\ front[l] = Nil <=> q = << >>
        /\ kind # "shared" => back[l] = At(q, Len(q))
        /\ Listed(q, front[l], back[l], size[l], kind, prev, next)
    BY ListFacts
  <2>2. \A k \in DOMAIN q : /\ next[q[k]] = At(q, k + 1)
                            /\ kind # "forward" => prev[q[k]] = At(q, k - 1)
    BY AtPosition
  <2> HIDE DEF q
  <2>3. Len(q) \in Nat /\ DOMAIN q = 1..Len(q) /\ (q # << >> => Len(q) \in DOMAIN q)
    BY <2>1
  <2>4. Empty(l) <=> q = << >>
    BY <2>1 DEF Empty
  <2>5. q # << >> => next[q[Len(q)]] = Nil
    <3>1. Len(q) + 1 \notin DOMAIN q
      BY <2>3
    <3> QED BY <2>2, <2>3, <3>1 DEF At
  <2>6. kind # "shared" => back[l] = IF q = << >> THEN Nil ELSE q[Len(q)]
    <3>1. q = << >> => Len(q) \notin DOMAIN q
      BY <2>1
    <3> QED BY <2>1, <2>3, <3>1 DEF At
  <2>7. ASSUME kind # "forward", NEW k \in 1..Len(q)
        PROVE  prev[q[k]] = IF k = 1 THEN Nil ELSE q[k - 1]
    <3>1. prev[q[k]] = At(q, k - 1)
      BY <2>2, <2>3, <2>7
    <3>2. k - 1 \in DOMAIN q <=> k # 1
      BY <2>3
    <3> QED BY <3>1, <3>2 DEF At
  <2>8. kind = "shared" => size[l] = Len(q)
    BY <2>1 DEF Listed
  <2> QED BY <2>1, <2>4, <2>5, <2>6, <2>7, <2>8
<1>2. ASSUME kind = "shared", NEW v \in Nodes, ~Linked(v)
      PROVE  Unlinked(v) /\ \A w \in Nodes : next[w] # v
  <2>1. \A l \in Lists : v \notin Elements(Contents[l])
    BY <1>2, NotLinked
  <2>2. \A u \in Nodes : (\A l \in Lists : u \notin Elements(Contents[l])) =>
                           prev[u] = Nil /\ next[u] = Nil
    BY <1>2 DEF ListIInv, Shape
  <2>3. Unlinked(v)
    BY <2>1, <2>2 DEF Unlinked
  <2>4. ASSUME NEW w \in Nodes PROVE next[w] # v
    <3>0. v # Nil
      BY ListAssumption
    <3>1. CASE \A l \in Lists : w \notin Elements(Contents[l])
      BY <2>2, <3>0, <3>1
    <3>2. CASE \E l \in Lists : w \in Elements(Contents[l])
      <4>0. PICK l \in Lists : w \in Elements(Contents[l])
        BY <3>2
      <4>1. PICK i \in DOMAIN Contents[l] : w = Contents[l][i]
        BY <4>0 DEF Elements
      <4>2. next[w] = At(Contents[l], i + 1)
        BY <4>1, AtPosition
      <4>3. At(Contents[l], i + 1) = Nil \/ At(Contents[l], i + 1) \in Elements(Contents[l])
        BY ListFacts, EndsInside
      <4> QED BY <2>1, <3>0, <4>2, <4>3
    <3> QED BY <3>1, <3>2
  <2> QED BY <2>3, <2>4
<1>3. ListTypeOK
  BY DEF ListIInv
<1> QED BY <1>1, <1>2, <1>3 DEF LinkedBothWays

\* Every operation leaves both ends and both directions in agreement.
THEOREM EndsAgree == ListSpec => []LinkedBothWays
BY ListInvariant, BothWays, PTL

\* RemoveAt, as the contract takes an object out of a sequence.
LEMMA Removed ==
  ASSUME NEW q \in Seq(Nodes), NEW k \in DOMAIN q
  PROVE  SubSeq(q, 1, k - 1) \o SubSeq(q, k + 1, Len(q)) = Without(q, k)
<1> DEFINE n == Len(q)
           a == SubSeq(q, 1, k - 1)
           b == SubSeq(q, k + 1, n)
           r == a \o b
<1>1. n \in Nat /\ DOMAIN q = 1..n /\ k \in 1..n /\ \A i \in 1..n : q[i] \in Nodes
  OBVIOUS
<1>2. a \in Seq(Nodes) /\ Len(a) = k - 1 /\ \A i \in 1..k - 1 : a[i] = q[i]
  <2>1. 1 \in Int /\ k - 1 \in Int /\ \A i \in 1..k - 1 : q[i] \in Nodes
    BY <1>1
  <2>2. /\ a \in Seq(Nodes) /\ Len(a) = IF 1 <= k - 1 THEN (k - 1) - 1 + 1 ELSE 0
        /\ \A i \in 1..(k - 1) - 1 + 1 : a[i] = q[1 + i - 1]
    BY <2>1, SubSeqProperties
  <2>3. (IF 1 <= k - 1 THEN (k - 1) - 1 + 1 ELSE 0) = k - 1
    BY <1>1
  <2>4. \A i \in 1..k - 1 : i \in 1..(k - 1) - 1 + 1 /\ 1 + i - 1 = i
    BY <1>1
  <2> HIDE DEF a
  <2> QED BY <2>2, <2>3, <2>4
<1>3. b \in Seq(Nodes) /\ Len(b) = n - k /\ \A i \in 1..n - k : b[i] = q[k + i]
  <2>1. k + 1 \in Int /\ n \in Int /\ \A i \in k + 1..n : q[i] \in Nodes
    BY <1>1
  <2>2. /\ b \in Seq(Nodes) /\ Len(b) = IF k + 1 <= n THEN n - (k + 1) + 1 ELSE 0
        /\ \A i \in 1..n - (k + 1) + 1 : b[i] = q[(k + 1) + i - 1]
    BY <2>1, SubSeqProperties
  <2>3. (IF k + 1 <= n THEN n - (k + 1) + 1 ELSE 0) = n - k
    BY <1>1
  <2>4. \A i \in 1..n - k : i \in 1..n - (k + 1) + 1 /\ (k + 1) + i - 1 = k + i
    BY <1>1
  <2> HIDE DEF b
  <2> QED BY <2>2, <2>3, <2>4
<1> HIDE DEF a, b, n
<1>4. /\ r \in Seq(Nodes) /\ Len(r) = (k - 1) + (n - k)
      /\ \A i \in 1..(k - 1) + (n - k) :
           r[i] = IF i <= k - 1 THEN a[i] ELSE b[i - (k - 1)]
  <2>1. /\ r \in Seq(Nodes) /\ Len(r) = Len(a) + Len(b)
        /\ \A i \in 1..Len(a) + Len(b) :
             r[i] = IF i <= Len(a) THEN a[i] ELSE b[i - Len(a)]
    BY <1>2, <1>3, ConcatProperties
  <2> HIDE DEF r
  <2>2. Len(a) = k - 1 /\ Len(b) = n - k
    BY <1>2, <1>3
  <2> QED BY <2>1, <2>2
<1> HIDE DEF r
<1>5. Len(r) = n - 1 /\ n - 1 \in Nat
  BY <1>1, <1>4
<1>6. ASSUME NEW i \in 1..n - 1 PROVE r[i] = q[IF i < k THEN i ELSE i + 1]
  <2>1. r[i] = IF i <= k - 1 THEN a[i] ELSE b[i - (k - 1)]
    BY <1>1, <1>4
  <2>2. CASE i < k
    <3>1. i <= k - 1 /\ i \in 1..k - 1
      BY <1>1, <2>2
    <3> QED BY <1>2, <2>1, <2>2, <3>1
  <2>3. CASE ~(i < k)
    <3>1. /\ ~(i <= k - 1) /\ i - (k - 1) \in 1..n - k
          /\ k + (i - (k - 1)) = i + 1
      BY <1>1, <2>3
    <3> QED BY <1>3, <2>1, <2>3, <3>1
  <2> QED BY <2>2, <2>3
<1>7. r = [i \in 1..n - 1 |-> r[i]]
  BY <1>4, <1>5
<1>8. r = [i \in 1..n - 1 |-> q[IF i < k THEN i ELSE i + 1]]
  BY <1>6, <1>7
<1> QED BY <1>8 DEF Without, r, a, b, n

-----------------------------------------------------------------------------
(* The contract. *)

LEMMA EffectIsPromised ==
  ASSUME ListIInv, NEW l \in Lists, Effect(Contents, l, Contents')
  PROVE  Contract!Next
<1> DEFINE new == Contents'
<1>1. /\ Contents = [k \in Lists |-> Content(k)]
      /\ Contents' = [k \in Lists |-> Content(k)]'
  BY DEF Contents
<1>2. ASSUME NEW v \in Nodes, \A k \in Lists : v \notin Elements(Contents[k]),
             \/ Contents' = [Contents EXCEPT ![l] = <<v>> \o @]
             \/ Contents' = [Contents EXCEPT ![l] = @ \o <<v>>]
      PROVE  Contract!Push(l, v)
  <2>1. Contract!Free(v)
    BY <1>1, <1>2 DEF Contract!Free, Contract!Members, Elements
  <2>2. CASE Contents' = [Contents EXCEPT ![l] = <<v>> \o @]
    <3>1. Contract!Put(l, Contract!Cons(v, Contents[l]))
      BY <1>1, <2>2 DEF Contract!Put, Contract!Cons
    <3> QED BY <1>1, <2>1, <3>1 DEF Contract!Push
  <2>3. CASE Contents' = [Contents EXCEPT ![l] = @ \o <<v>>]
    <3>1. Append(Contents[l], v) = Contents[l] \o <<v>>
      <4>1. Contents[l] \in Seq(Nodes)
        BY ListFacts
      <4> QED BY <4>1, AppendIsConcat
    <3>2. Contract!Put(l, Append(Contents[l], v))
      BY <1>1, <2>3, <3>1 DEF Contract!Put
    <3> QED BY <1>1, <2>1, <3>2 DEF Contract!Push
  <2> QED BY <1>2, <2>2, <2>3
<1>3. ASSUME NEW i \in DOMAIN Contents[l], Contents' = [Contents EXCEPT ![l] = Without(@, i)]
      PROVE  \E v \in Nodes : Contract!TakeOut(l, v)
  <2>1. Contents[l] \in Seq(Nodes)
    BY ListFacts
  <2>2. Contract!RemoveAt(Contents[l], i) = Without(Contents[l], i)
    BY <2>1, Removed DEF Contract!RemoveAt
  <2>3. Contract!Put(l, Contract!RemoveAt(Contents[l], i))
    BY <1>1, <1>3, <2>2 DEF Contract!Put
  <2>4. Contents[l][i] \in Nodes
    BY <2>1
  <2>5. Contract!TakeOut(l, Contents[l][i])
    BY <1>1, <2>3 DEF Contract!TakeOut
  <2> QED BY <2>4, <2>5
<1>4. ASSUME Contents' = [Contents EXCEPT ![l] = << >>]
      PROVE  Contract!Clear(l)
  BY <1>1, <1>4 DEF Contract!Clear, Contract!Put
<1>5. ASSUME NEW m \in Lists, l # m,
             \/ Contents' = [Contents EXCEPT ![l] = Contents[m], ![m] = Contents[l]]
             \/ Contents' = [Contents EXCEPT ![l] = Contents[m], ![m] = << >>]
             \/ Contents' = [Contents EXCEPT ![l] = Contents[m] \o Contents[l], ![m] = << >>]
             \/ Contents' = [Contents EXCEPT ![l] = Contents[l] \o Contents[m], ![m] = << >>]
      PROVE  Contract!Splice(l, m)
  BY <1>1, <1>5 DEF Contract!Splice, Contract!Join
<1> QED BY <1>2, <1>3, <1>4, <1>5 DEF Effect, Contract!Next

\* Every container does with its lists what is done with sequences.
THEOREM ListsAreSequences == ListSpec => ImplementsLists
<1>1. ListInit => Contract!Init
  <2> SUFFICES ASSUME ListInit PROVE Contract!Init
    OBVIOUS
  <2>1. Contents = [l \in Lists |-> << >>]
    BY ListInitially
  <2> QED BY <2>1 DEF Contents, Contract!Init
<1>2. ListIInv /\ [ListNext]_listVars => [Contract!Next]_([l \in Lists |-> Content(l)])
  <2> SUFFICES ASSUME ListIInv, [ListNext]_listVars
               PROVE  [Contract!Next]_([l \in Lists |-> Content(l)])
    OBVIOUS
  <2>1. CASE Contents' = Contents
    BY <2>1 DEF Contents
  <2>2. CASE \E l \in Lists : Effect(Contents, l, Contents')
    BY <2>2, EffectIsPromised
  <2> QED BY <2>1, <2>2, ListNextEffect
<1> QED BY <1>1, <1>2, ListInvariant, PTL DEF ListSpec, ImplementsLists, Contract!Spec
=============================================================================
