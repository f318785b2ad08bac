------------------------- MODULE NmeaSessionProofs -------------------------
(***************************************************************************)
(* The session of a serial device (NmeaSession) for every size of its two  *)
(* buffers, of the reads and of the pieces that come from the device: no   *)
(* read and no stop waits without something that will answer it, and the   *)
(* application gets whole frames in the order of the stream.               *)
(*                                                                         *)
(* That a frame does not change once the application has it needs the      *)
(* objects of the frames that are kept to be distinct, and none of them to *)
(* be the application's; that frames come in order, the place up to which  *)
(* they have been cut (Top).  Each handler that moves a frame, ReadTail    *)
(* and ExternRead, is one operator that stores (StoresSound) or takes      *)
(* (TakesSound).                                                           *)
(***************************************************************************)
EXTENDS NmeaSession, SequenceTheorems, WellFoundedInduction, TLAPS

-----------------------------------------------------------------------------
(* The inductive invariant. *)

\* The head of a frame is consumed, and its tail is looked for.
Begun == port.reading = "tail"

\* The place up to which frames have been cut.
Top == IF Begun THEN consumed - 1 ELSE consumed

\* f is a frame of the stream st: from behind a head to the first tail.
Whole(f, st) ==
  /\ f[1] - 1 \in 1..Len(st) /\ f[2] + 1 \in f[1]..Len(st)
  /\ st[f[1] - 1] = "head" /\ st[f[2] + 1] = "tail"
  /\ \A n \in f[1]..f[2] : st[n] # "tail"

Before(f, g) == f[2] + 1 < g[1] - 1

Entry(h) == [object : 1..Len(h), frame : Frame]

\* t is what the application has got; its objects are not used again.
TakenSound(t, h, st) ==
  /\ \A i \in 1..Len(t) : Whole(t[i].frame, st)
  /\ \A i \in 1..Len(t) : h[t[i].object] = t[i].frame
  /\ \A i, j \in 1..Len(t) : i < j => Before(t[i].frame, t[j].frame)

\* f are the objects of the frames that are kept, each of them once.
FramesSound(f, h, st, top) ==
  /\ \A i \in 1..Len(f) : Whole(h[f[i]], st)
  /\ \A i \in 1..Len(f) : h[f[i]][2] + 1 <= top
  /\ \A i, j \in 1..Len(f) : i < j => Before(h[f[i]], h[f[j]])
  /\ \A i, j \in 1..Len(f) : f[i] = f[j] => i = j

Apart(t, f, h, top) ==
  /\ \A i \in 1..Len(t) : t[i].frame[2] + 1 <= top
  /\ \A i \in 1..Len(t) : \A j \in 1..Len(f) : t[i].object # f[j]
  /\ \A i \in 1..Len(t) : \A j \in 1..Len(f) : Before(t[i].frame, h[f[j]])

Sound(t, f, h, st, top) ==
  /\ TakenSound(t, h, st) /\ FramesSound(f, h, st, top) /\ Apart(t, f, h, top)

IInv ==
  /\ WaitersHaveCause
  /\ Len(stream) <= MaxStream
  /\ (state = "ready" => ~readError)
  /\ (Begun => consumed >= 1 /\ stream[consumed] = "head")
  /\ Sound(taken, frames, heap, stream, Top)

-----------------------------------------------------------------------------
(* Operators. *)

LEMMA Wider ==
  ASSUME NEW a \in Nat, NEW b \in Nat, NEW n \in Nat, NEW m \in Nat,
         a - 1 \in 1..n, b + 1 \in a..n
  PROVE  a - 1 \in 1..(n + m) /\ b + 1 \in a..(n + m)
  OBVIOUS

LEMMA Shifted ==
  ASSUME NEW a \in Nat, NEW b \in Nat, NEW i \in 1..a
  PROVE  b + i \in 1..(a + b)
  OBVIOUS

LEMMA Comes ==
  ASSUME NEW a \in Nat, NEW b \in Nat, NEW n \in Nat, NEW m \in Nat,
         n + 1 <= m, m < a - 1, a <= b + 1
  PROVE  n + 1 < a - 1 /\ n + 1 <= b + 1
  OBVIOUS

LEMMA LeastExists ==
  ASSUME NEW S \in SUBSET Nat, S # {}
  PROVE  Min(S) \in S /\ \A y \in S : Min(S) <= y
<1>1. PICK x \in S : \A y \in S : ~(<<y, x>> \in OpToRel(<, Nat))
  BY NatLessThanWellFounded, WFMin
<1>2. \A y \in S : x <= y
  <2> SUFFICES ASSUME NEW y \in S, y < x PROVE FALSE
    OBVIOUS
  <2>1. <<y, x>> \in Nat \X Nat
    OBVIOUS
  <2>2. <<y, x>> \in OpToRel(<, Nat)
    BY <2>1, Zenon DEF OpToRel
  <2> QED BY <1>1, <2>2
<1> QED BY <1>2 DEF Min

\* The first delimiter in the read buffer.
LEMMA FirstFound ==
  ASSUME TypeOK, Found # {}
  PROVE  /\ Min(Found) \in consumed + 1 .. Len(stream)
         /\ stream[Min(Found)] = port.reading
         /\ \A n \in consumed + 1 .. Min(Found) - 1 : stream[n] # port.reading
<1>1. Found \in SUBSET Nat
  BY DEF Found, TypeOK
<1>2. Min(Found) \in Found /\ \A y \in Found : Min(Found) <= y
  BY <1>1, LeastExists
<1>3. /\ Min(Found) \in consumed + 1 .. Len(stream)
      /\ stream[Min(Found)] = port.reading
  BY <1>2 DEF Found
<1>4. ASSUME NEW n \in consumed + 1 .. Min(Found) - 1, stream[n] = port.reading
      PROVE  FALSE
  <2>1. n \in Found
    BY <1>3, <1>4 DEF Found, TypeOK
  <2> QED BY <1>2, <1>3, <1>4, <2>1 DEF TypeOK
<1> QED BY <1>3, <1>4

LEMMA Framed ==
  ASSUME NEW h \in Seq(Frame), NEW f \in Seq(1..Len(h)), NEW t \in Seq(Entry(h))
  PROVE  /\ \A i \in 1..Len(t) : t[i].frame \in Frame /\ t[i].object \in 1..Len(h)
         /\ \A i \in 1..Len(f) : h[f[i]] \in Frame /\ f[i] \in 1..Len(h)
<1>1. \A i \in 1..Len(t) : t[i] \in Entry(h)
  OBVIOUS
<1>2. \A i \in 1..Len(f) : f[i] \in 1..Len(h)
  OBVIOUS
<1>3. \A i \in 1..Len(h) : h[i] \in Frame
  OBVIOUS
<1> QED BY <1>1, <1>2, <1>3 DEF Entry

LEMMA FrameNumbers == \A g \in Frame : g[1] \in Nat \ {0} /\ g[2] \in Nat
  BY NmeaAssumption DEF Frame

\* More of the stream changes no frame of it.
LEMMA StreamGrows ==
  ASSUME NEW h \in Seq(Frame), NEW f \in Seq(1..Len(h)), NEW t \in Seq(Entry(h)),
         NEW st \in Seq(Token), NEW chunk \in Seq(Token), NEW top,
         Sound(t, f, h, st, top)
  PROVE  Sound(t, f, h, st \o chunk, top)
<1>1. ASSUME NEW g \in Frame, Whole(g, st)
      PROVE  Whole(g, st \o chunk)
  <2>1. g[1] \in Nat /\ g[2] \in Nat
    BY FrameNumbers
  <2>2. /\ Len(st \o chunk) = Len(st) + Len(chunk)
        /\ \A n \in 1..Len(st) : (st \o chunk)[n] = st[n]
    OBVIOUS
  <2>3. /\ g[1] - 1 \in 1..Len(st) /\ g[2] + 1 \in g[1]..Len(st)
        /\ g[2] + 1 \in 1..Len(st) /\ g[1]..g[2] \subseteq 1..Len(st)
    <3>1. /\ g[1] - 1 \in 1..Len(st) /\ g[2] + 1 \in g[1]..Len(st)
      BY <1>1 DEF Whole
    <3> QED BY <2>1, <3>1
  <2>4. Len(st) \in Nat /\ Len(chunk) \in Nat
    OBVIOUS
  <2>5. g[1] - 1 \in 1..Len(st \o chunk) /\ g[2] + 1 \in g[1]..Len(st \o chunk)
    <3>1. /\ g[1] - 1 \in 1..(Len(st) + Len(chunk))
          /\ g[2] + 1 \in g[1]..(Len(st) + Len(chunk))
      BY <2>1, <2>3, <2>4, Wider
    <3> QED BY <2>2, <3>1
  <2> QED BY <1>1, <2>2, <2>3, <2>5 DEF Whole
<1> QED BY <1>1, Framed DEF Sound, TakenSound, FramesSound

LEMMA TopGrows ==
  ASSUME NEW h \in Seq(Frame), NEW f \in Seq(1..Len(h)), NEW t \in Seq(Entry(h)),
         NEW st, NEW top \in Nat, NEW more \in Nat, top <= more,
         Sound(t, f, h, st, top)
  PROVE  Sound(t, f, h, st, more)
<1>1. \A g \in Frame : g[2] + 1 <= top => g[2] + 1 <= more
  BY FrameNumbers
<1> QED BY <1>1, Framed DEF Sound, FramesSound, Apart

\* What a read with room for k takes from the frames f over the objects h.
Got(k, f, h) == [i \in 1..k |-> [object |-> f[i], frame |-> h[f[i]]]]

LEMMA TakesSound ==
  ASSUME NEW h \in Seq(Frame), NEW f \in Seq(1..Len(h)), NEW t \in Seq(Entry(h)),
         NEW k \in 0..Len(f), NEW st, NEW top, Sound(t, f, h, st, top)
  PROVE  /\ t \o Got(k, f, h) \in Seq(Entry(h))
         /\ SubSeq(f, k + 1, Len(f)) \in Seq(1..Len(h))
         /\ Len(SubSeq(f, k + 1, Len(f))) <= Len(f)
         /\ Sound(t \o Got(k, f, h), SubSeq(f, k + 1, Len(f)), h, st, top)
<1> DEFINE got == [i \in 1..k |-> [object |-> f[i], frame |-> h[f[i]]]]
           all == t \o got
           left == SubSeq(f, k + 1, Len(f))
           m == Len(t)
           l == Len(f)
<1>1. l \in Nat /\ k \in Nat /\ m \in Nat /\ k <= l
  OBVIOUS
<1>2. \A i \in 1..k : /\ i \in 1..l /\ got[i].object = f[i]
                      /\ got[i].frame = h[f[i]] /\ got[i] \in Entry(h)
  BY <1>1, Framed DEF Entry
<1>3. got \in Seq(Entry(h)) /\ Len(got) = k
  BY <1>1, <1>2
<1>4. /\ all \in Seq(Entry(h)) /\ Len(all) = m + k
      /\ \A i \in 1..m : all[i] = t[i]
      /\ \A i \in 1..k : all[m + i] = got[i]
  <2>1. /\ all \in Seq(Entry(h)) /\ Len(all) = m + k
        /\ \A i \in 1..(m + k) : all[i] = IF i <= m THEN t[i] ELSE got[i - m]
    BY <1>3, ConcatProperties
  <2>2. \A i \in 1..m : i \in 1..(m + k) /\ i <= m
    BY <1>1
  <2>3. \A i \in 1..k : m + i \in 1..(m + k) /\ ~(m + i <= m) /\ m + i - m = i
    BY <1>1
  <2> QED BY <2>1, <2>2, <2>3
<1>5. /\ left \in Seq(1..Len(h)) /\ Len(left) = l - k
      /\ \A i \in 1..(l - k) : left[i] = f[k + i]
  <2>1. \A i \in k + 1 .. l : f[i] \in 1..Len(h)
    BY <1>1
  <2> QED BY <1>1, <2>1
<1>6. ASSUME NEW i \in 1..(m + k), i \notin 1..m
      PROVE  /\ i - m \in 1..k /\ i - m \in 1..l
             /\ all[i].object = f[i - m] /\ all[i].frame = h[f[i - m]]
  <2>1. i - m \in 1..k /\ m + (i - m) = i
    BY <1>1, <1>6
  <2> QED BY <1>2, <1>4, <2>1
<1> HIDE DEF m, l, got, all, left
<1>7. \A i \in 1..(l - k) : k + i \in 1..l /\ left[i] = f[k + i]
  <2>1. \A i \in 1..(l - k) : k + i \in 1..l
    BY <1>1
  <2> QED BY <1>5, <2>1
<1>8. TakenSound(all, h, st)
  <2>1. ASSUME NEW i \in 1..(m + k)
        PROVE  Whole(all[i].frame, st) /\ h[all[i].object] = all[i].frame
    <3>1. CASE i \in 1..m
      BY <1>4, <3>1 DEF Sound, TakenSound, m
    <3>2. CASE i \notin 1..m
      BY <1>6, <3>2 DEF Sound, FramesSound, l
    <3> QED BY <3>1, <3>2
  <2>2. ASSUME NEW i \in 1..(m + k), NEW j \in 1..(m + k), i < j
        PROVE  Before(all[i].frame, all[j].frame)
    <3>1. CASE j \in 1..m
      <4>1. i \in 1..m
        BY <1>1, <2>2, <3>1
      <4> QED BY <1>4, <2>2, <3>1, <4>1 DEF Sound, TakenSound, m
    <3>2. CASE j \notin 1..m
      <4>1. CASE i \in 1..m
        <5>1. /\ j - m \in 1..l /\ all[j].frame = h[f[j - m]]
              /\ all[i].frame = t[i].frame
          BY <1>4, <1>6, <3>2, <4>1
        <5>2. Before(t[i].frame, h[f[j - m]])
          BY <4>1, <5>1 DEF Sound, Apart, m, l
        <5> QED BY <5>1, <5>2
      <4>2. CASE i \notin 1..m
        <5>1. i - m < j - m
          BY <1>1, <2>2
        <5>2. /\ i - m \in 1..l /\ all[i].frame = h[f[i - m]]
              /\ j - m \in 1..l /\ all[j].frame = h[f[j - m]]
          BY <1>6, <3>2, <4>2
        <5>3. Before(h[f[i - m]], h[f[j - m]])
          BY <5>1, <5>2 DEF Sound, FramesSound, l
        <5> QED BY <5>2, <5>3
      <4> QED BY <4>1, <4>2
    <3> QED BY <3>1, <3>2
  <2> QED BY <1>4, <2>1, <2>2 DEF TakenSound
<1>9. FramesSound(left, h, st, top)
  <2>1. \A i \in 1..(l - k) : /\ Whole(h[left[i]], st)
                              /\ h[left[i]][2] + 1 <= top
    BY <1>7 DEF Sound, FramesSound, l
  <2>2. ASSUME NEW i \in 1..(l - k), NEW j \in 1..(l - k)
        PROVE  /\ (i < j => Before(h[left[i]], h[left[j]]))
               /\ (left[i] = left[j] => i = j)
    <3>1. (i < j => k + i < k + j) /\ (k + i = k + j => i = j)
      BY <1>1
    <3>2. /\ k + i \in 1..l /\ left[i] = f[k + i]
          /\ k + j \in 1..l /\ left[j] = f[k + j]
      BY <1>7
    <3> QED BY <3>1, <3>2 DEF Sound, FramesSound, l
  <2> QED BY <1>5, <2>1, <2>2 DEF FramesSound
<1>10. Apart(all, left, h, top)
  <2>1. ASSUME NEW i \in 1..(m + k)
        PROVE  /\ all[i].frame[2] + 1 <= top
               /\ \A j \in 1..(l - k) : /\ all[i].object # left[j]
                                        /\ Before(all[i].frame, h[left[j]])
    <3>1. CASE i \in 1..m
      <4>1. all[i] = t[i] /\ t[i].frame[2] + 1 <= top
        BY <1>4, <3>1 DEF Sound, Apart, m
      <4>2. ASSUME NEW j \in 1..(l - k)
            PROVE  all[i].object # left[j] /\ Before(all[i].frame, h[left[j]])
        <5>1. k + j \in 1..l /\ left[j] = f[k + j]
          BY <1>7
        <5> QED BY <3>1, <4>1, <5>1 DEF Sound, Apart, m, l
      <4> QED BY <4>1, <4>2
    <3>2. CASE i \notin 1..m
      <4>1. \A j \in 1..(l - k) : i - m < k + j /\ i - m # k + j
        BY <1>1, <1>6, <3>2
      <4>2. all[i].frame[2] + 1 <= top
        BY <1>6, <3>2 DEF Sound, FramesSound, l
      <4>3. ASSUME NEW j \in 1..(l - k)
            PROVE  all[i].object # left[j] /\ Before(all[i].frame, h[left[j]])
        <5>1. k + j \in 1..l /\ left[j] = f[k + j]
          BY <1>7
        <5>2. i - m < k + j /\ i - m # k + j
          BY <4>1
        <5>3. /\ i - m \in 1..l
              /\ all[i].object = f[i - m] /\ all[i].frame = h[f[i - m]]
          BY <1>6, <3>2
        <5> QED BY <5>1, <5>2, <5>3 DEF Sound, FramesSound, l
      <4> QED BY <4>2, <4>3
    <3> QED BY <3>1, <3>2
  <2>2. Len(all) = m + k /\ Len(left) = l - k
    BY <1>4, <1>5
  <2> QED BY <2>1, <2>2 DEF Apart
<1>12. Sound(all, left, h, st, top) /\ Len(left) <= Len(f)
  BY <1>1, <1>5, <1>8, <1>9, <1>10 DEF Sound, l
<1>13. got = Got(k, f, h)
  BY DEF got, Got
<1> QED BY <1>4, <1>5, <1>12, <1>13 DEF all, left

\* kept and new are the frames f and the objects h with one more frame, the
\* last, in the place of the first d, in an object that no other frame is in.
Replaces(d, t, f, h, kept, new) ==
  LET object == kept[Len(kept)] IN
  /\ d \in Nat /\ d <= Len(f) /\ Len(kept) = Len(f) - d + 1
  /\ \A i \in 1..(Len(f) - d) :
       kept[i] = f[d + i] /\ new[kept[i]] = h[kept[i]] /\ kept[i] # object
  /\ \A i \in 1..Len(t) : t[i].object # object /\ new[t[i].object] = h[t[i].object]

LEMMA StoresSound ==
  ASSUME NEW h \in Seq(Frame), NEW f \in Seq(1..Len(h)), NEW t \in Seq(Entry(h)),
         NEW st, NEW top \in Nat, Sound(t, f, h, st, top),
         NEW g \in Frame, Whole(g, st), top < g[1] - 1,
         NEW new, NEW kept, new[kept[Len(kept)]] = g,
         NEW d, Replaces(d, t, f, h, kept, new)
  PROVE  Sound(t, kept, new, st, g[2] + 1)
<1> DEFINE l == Len(f) - d
<1>1. l \in Nat /\ l + 1 = Len(kept) /\ d \in Nat /\ Len(f) \in Nat /\ l + d = Len(f)
  BY DEF Replaces
<1>2. g[1] \in Nat /\ g[2] \in Nat /\ g[1] <= g[2] + 1
  BY FrameNumbers DEF Whole
<1> HIDE DEF l
<1>3. \A i \in 1..l : /\ d + i \in 1..Len(f) /\ kept[i] = f[d + i]
                      /\ new[kept[i]] = h[f[d + i]] /\ kept[i] # kept[l + 1]
  <2>1. \A i \in 1..l : d + i \in 1..Len(f)
    BY <1>1, Shifted
  <2> QED BY <1>1, <2>1 DEF l, Replaces
<1>4. new[kept[l + 1]] = g
  BY <1>1
<1>5. \A e \in Frame : e[2] + 1 <= top => Before(e, g) /\ e[2] + 1 <= g[2] + 1
  <2> SUFFICES ASSUME NEW e \in Frame, e[2] + 1 <= top
               PROVE  e[2] + 1 < g[1] - 1 /\ e[2] + 1 <= g[2] + 1
    BY DEF Before
  <2>1. PICK n \in Nat : n = e[2]
    BY FrameNumbers
  <2>2. PICK a \in Nat, b \in Nat : a = g[1] /\ b = g[2] /\ a <= b + 1
    BY <1>2
  <2>3. n + 1 <= top /\ top < a - 1
    BY <2>1, <2>2
  <2>4. n + 1 < a - 1 /\ n + 1 <= b + 1
    BY <2>2, <2>3, Comes
  <2> QED BY <2>1, <2>2, <2>4
<1>6. TakenSound(t, new, st)
  BY DEF Sound, TakenSound, Replaces
<1>7. \A i \in 1..l : /\ Whole(new[kept[i]], st)
                      /\ Before(new[kept[i]], g) /\ new[kept[i]][2] + 1 <= g[2] + 1
  <2> SUFFICES ASSUME NEW i \in 1..l
               PROVE  /\ Whole(h[f[d + i]], st)
                      /\ Before(h[f[d + i]], g) /\ h[f[d + i]][2] + 1 <= g[2] + 1
    BY <1>3
  <2>1. d + i \in 1..Len(f)
    BY <1>3
  <2>2. Whole(h[f[d + i]], st) /\ h[f[d + i]][2] + 1 <= top
    BY <2>1 DEF Sound, FramesSound
  <2>3. h[f[d + i]] \in Frame
    BY <2>1, Framed
  <2> QED BY <1>5, <2>2, <2>3
<1>8. FramesSound(kept, new, st, g[2] + 1)
  <2>1. ASSUME NEW i \in 1..(l + 1), i \notin 1..l
        PROVE  i = l + 1
    BY <1>1, <2>1
  <2>2. ASSUME NEW i \in 1..(l + 1)
        PROVE  Whole(new[kept[i]], st) /\ new[kept[i]][2] + 1 <= g[2] + 1
    BY <1>2, <1>4, <1>7, <2>1
  <2>3. ASSUME NEW i \in 1..(l + 1), NEW j \in 1..(l + 1), i < j
        PROVE  Before(new[kept[i]], new[kept[j]])
    <3>1. i \in 1..l
      BY <1>1, <2>3
    <3>2. CASE j = l + 1
      BY <1>4, <1>7, <3>1, <3>2
    <3>3. CASE j \in 1..l
      <4>1. d + i < d + j
        BY <1>1, <2>3
      <4>2. /\ d + i \in 1..Len(f) /\ d + j \in 1..Len(f)
            /\ new[kept[i]] = h[f[d + i]] /\ new[kept[j]] = h[f[d + j]]
        BY <1>3, <3>1, <3>3
      <4> QED BY <4>1, <4>2 DEF Sound, FramesSound
    <3> QED BY <2>1, <3>2, <3>3
  <2>4. ASSUME NEW i \in 1..(l + 1), NEW j \in 1..(l + 1), kept[i] = kept[j]
        PROVE  i = j
    <3>1. CASE i \in 1..l /\ j \in 1..l
      <4>1. d + i = d + j
        <5>1. /\ d + i \in 1..Len(f) /\ d + j \in 1..Len(f)
              /\ f[d + i] = f[d + j]
          BY <1>3, <2>4, <3>1
        <5> QED BY <5>1 DEF Sound, FramesSound
      <4> QED BY <1>1, <4>1
    <3>2. CASE ~(i \in 1..l /\ j \in 1..l)
      BY <1>3, <2>1, <2>4, <3>2
    <3> QED BY <3>1, <3>2
  <2> QED BY <1>1, <2>2, <2>3, <2>4 DEF FramesSound
<1>9. Apart(t, kept, new, g[2] + 1)
  <2>1. ASSUME NEW i \in 1..Len(t)
        PROVE  t[i].frame[2] + 1 <= g[2] + 1 /\ Before(t[i].frame, g)
    BY <1>5, Framed DEF Sound, Apart
  <2>2. ASSUME NEW i \in 1..Len(t), NEW j \in 1..(l + 1)
        PROVE  t[i].object # kept[j] /\ Before(t[i].frame, new[kept[j]])
    <3>1. CASE j \in 1..l
      <4>1. /\ d + j \in 1..Len(f) /\ kept[j] = f[d + j]
            /\ new[kept[j]] = h[f[d + j]]
        BY <1>3, <3>1
      <4>2. t[i].object # f[d + j] /\ Before(t[i].frame, h[f[d + j]])
        BY <4>1 DEF Sound, Apart
      <4> QED BY <4>1, <4>2 DEF Before
    <3>2. CASE j \notin 1..l
      <4>1. j = l + 1
        BY <1>1, <3>2
      <4>2. t[i].object # kept[j]
        BY <1>1, <4>1 DEF Replaces
      <4> QED BY <1>4, <2>1, <4>1, <4>2
    <3> QED BY <3>1, <3>2
  <2> QED BY <1>1, <2>1, <2>2 DEF Apart
<1> QED BY <1>6, <1>8, <1>9 DEF Sound

\* handle_read_tail of a full buffer: the frame comes into the object of the
\* oldest one,
LEMMA StoredAgain ==
  ASSUME NEW h \in Seq(Frame), NEW f \in Seq(1..Len(h)), NEW t \in Seq(Entry(h)),
         Len(f) = FrameBuffer,
         NEW st, NEW top \in Nat, Sound(t, f, h, st, top),
         NEW g \in Frame, Whole(g, st), top < g[1] - 1,
         NEW object, object = Head(f),
         NEW new, new = [h EXCEPT ![object] = g],
         NEW kept, kept = Append(Tail(f), object)
  PROVE  /\ new \in Seq(Frame) /\ Len(h) <= Len(new) /\ t \in Seq(Entry(new))
         /\ kept \in Seq(1..Len(new)) /\ Len(kept) <= FrameBuffer
         /\ Sound(t, kept, new, st, g[2] + 1)
<1>1. Len(f) \in Nat \ {0} /\ f # << >>
  BY NmeaAssumption
<1>2. object = f[1] /\ object \in 1..Len(h)
  BY <1>1
<1>3. new \in Seq(Frame) /\ Len(new) = Len(h)
  BY <1>2
<1>4. \A i \in 1..Len(h) : i # object => new[i] = h[i]
  BY <1>2
<1>5. new[object] = g
  BY <1>2
<1>6. /\ kept \in Seq(1..Len(new)) /\ Len(kept) = Len(f) - 1 + 1
      /\ kept[Len(f)] = object
      /\ \A i \in 1..(Len(f) - 1) : kept[i] = f[1 + i]
  <2>1. PICK rest \in Seq(1..Len(h)) :
          /\ rest = Tail(f) /\ Len(rest) = Len(f) - 1
          /\ \A i \in 1..Len(rest) : rest[i] = f[i + 1]
    BY <1>1, HeadTailProperties
  <2>2. kept = Append(rest, object)
    BY <2>1
  <2>3. /\ kept \in Seq(1..Len(h)) /\ Len(kept) = Len(rest) + 1
        /\ kept[Len(rest) + 1] = object
        /\ \A i \in 1..Len(rest) : kept[i] = rest[i]
    <3>1. object \in 1..Len(h)
      BY <1>2
    <3>2. /\ Append(rest, object) \in Seq(1..Len(h))
          /\ Len(Append(rest, object)) = Len(rest) + 1
          /\ Append(rest, object)[Len(rest) + 1] = object
          /\ \A i \in 1..Len(rest) : Append(rest, object)[i] = rest[i]
      BY <3>1, AppendProperties
    <3> QED BY <2>2, <3>2
  <2> QED BY <1>1, <1>3, <2>1, <2>3
<1>7. Len(kept) = Len(f)
  BY <1>1, <1>6
<1>8. t \in Seq(Entry(new))
  BY <1>3 DEF Entry
<1>9. \A i \in 1..(Len(f) - 1) : kept[i] # object /\ kept[i] \in 1..Len(h)
  <2>1. \A i \in 1..(Len(f) - 1) : 1 + i \in 1..Len(f) /\ 1 \in 1..Len(f) /\ 1 # 1 + i
    BY <1>1
  <2>2. \A i \in 1..(Len(f) - 1) : f[1 + i] # f[1]
    BY <2>1 DEF Sound, FramesSound
  <2>3. \A i \in 1..(Len(f) - 1) : f[1 + i] \in 1..Len(h)
    BY <2>1, Framed
  <2> QED BY <1>2, <1>6, <2>2, <2>3
<1>10. \A i \in 1..Len(t) : t[i].object # object /\ t[i].object \in 1..Len(h)
  <2>1. 1 \in 1..Len(f)
    BY <1>1
  <2> QED BY <1>2, <2>1, Framed DEF Sound, Apart
<1>11. Sound(t, kept, new, st, g[2] + 1)
  <2>1. 1 \in Nat /\ 1 <= Len(f)
    BY <1>1
  <2>2. Replaces(1, t, f, h, kept, new)
    BY <1>4, <1>6, <1>7, <1>9, <1>10, <2>1 DEF Replaces
  <2>3. new[kept[Len(kept)]] = g
    BY <1>5, <1>6, <1>7
  <2> QED BY <2>2, <2>3, StoresSound
<1> QED BY <1>3, <1>6, <1>7, <1>8, <1>11

\* and otherwise into an object of its own.
LEMMA StoredNew ==
  ASSUME NEW h \in Seq(Frame), NEW f \in Seq(1..Len(h)), NEW t \in Seq(Entry(h)),
         Len(f) < FrameBuffer,
         NEW st, NEW top \in Nat, Sound(t, f, h, st, top),
         NEW g \in Frame, Whole(g, st), top < g[1] - 1,
         NEW object, object = Len(h) + 1,
         NEW new, new = Append(h, g),
         NEW kept, kept = Append(f, object)
  PROVE  /\ new \in Seq(Frame) /\ Len(h) <= Len(new) /\ t \in Seq(Entry(new))
         /\ kept \in Seq(1..Len(new)) /\ Len(kept) <= FrameBuffer
         /\ Sound(t, kept, new, st, g[2] + 1)
<1>1. Len(f) \in Nat /\ Len(h) \in Nat /\ Len(f) + 1 <= FrameBuffer
  <2>1. Len(f) # FrameBuffer /\ FrameBuffer \in Nat
    BY NmeaAssumption
  <2> QED BY <2>1
<1>2. object = Len(h) + 1
  OBVIOUS
<1>3. new \in Seq(Frame) /\ Len(new) = Len(h) + 1
  OBVIOUS
<1>4. \A i \in 1..Len(h) : i # object /\ new[i] = h[i]
  BY <1>1, <1>2
<1>5. new[object] = g
  BY <1>2
<1>6. /\ kept \in Seq(1..Len(new)) /\ Len(kept) = Len(f) - 0 + 1
      /\ kept[Len(kept)] = object
      /\ \A i \in 1..(Len(f) - 0) : kept[i] = f[0 + i] /\ kept[i] \in 1..Len(h)
  <2>1. kept = Append(f, Len(h) + 1)
    BY <1>2
  <2>2. f \in Seq(1..Len(new)) /\ Len(h) + 1 \in 1..Len(new)
    BY <1>1, <1>3
  <2>3. kept \in Seq(1..Len(new)) /\ Len(kept) = Len(f) + 1 /\ kept[Len(f) + 1] = object
    BY <1>2, <2>1, <2>2
  <2>4. \A i \in 1..Len(f) : kept[i] = f[i] /\ kept[i] \in 1..Len(h) /\ 0 + i = i
    BY <2>1
  <2> QED BY <1>1, <2>3, <2>4
<1>7. t \in Seq(Entry(new))
  <2>1. Entry(h) \subseteq Entry(new)
    BY <1>1, <1>3 DEF Entry
  <2> QED BY <2>1, SeqMonotonic
<1>8. \A i \in 1..Len(t) : t[i].object \in 1..Len(h)
  BY Framed
<1>9. Sound(t, kept, new, st, g[2] + 1)
  <2>1. 0 \in Nat /\ 0 <= Len(f)
    BY <1>1
  <2>2. Replaces(0, t, f, h, kept, new)
    BY <1>4, <1>6, <1>8, <2>1 DEF Replaces
  <2>3. new[kept[Len(kept)]] = g
    BY <1>5, <1>6
  <2> QED BY <2>2, <2>3, StoresSound
<1>10. Len(h) <= Len(new) /\ Len(kept) <= FrameBuffer
  BY <1>1, <1>3, <1>6
<1> QED BY <1>3, <1>6, <1>7, <1>9, <1>10

-----------------------------------------------------------------------------
(* The actions. *)

\* Who waits, and for what: WaitersHaveCause without the types.
Waiters ==
  /\ (reader # 0 => state = "work" /\ frames = << >> /\ ~readError
                      /\ port.reading # "none")
  /\ stopper = (state = "stop")
  /\ (state = "stop" => ~open /\ (port.reading # "none" \/ port.writing))
  /\ (state \in {"ready", "stopped"} => port.reading = "none" /\ ~port.writing)
  /\ (readError => port.reading = "none")
  /\ (state = "ready" => ~readError)

\* The frames are cut from what is consumed.
Cutting ==
  /\ Len(stream) <= MaxStream
  /\ (Begun => consumed >= 1 /\ stream[consumed] = "head")
  /\ Sound(taken, frames, heap, stream, Top)

LEMMA Parts == IInv <=> TypeOK /\ Waiters /\ Cutting
  BY DEF IInv, WaitersHaveCause, Waiters, Cutting

LEMMA TopTyped ==
  ASSUME TypeOK, Cutting
  PROVE  /\ Top \in Nat /\ consumed \in Nat /\ Len(stream) \in Nat
         /\ Top <= consumed /\ consumed <= Len(stream)
  BY DEF TypeOK, Cutting, Top

LEMMA DataTyped ==
  ASSUME TypeOK
  PROVE  /\ heap \in Seq(Frame) /\ frames \in Seq(1..Len(heap))
         /\ taken \in Seq(Entry(heap)) /\ stream \in Seq(Token)
  BY DEF TypeOK, Entry

\* The port begins or ends to look for a head, or does neither.
LEMMA CuttingRests ==
  ASSUME TypeOK, Cutting, UNCHANGED dataVars,
         port'.reading \in {port.reading, "none", "head"}
  PROVE  Cutting'
<1>1. UNCHANGED <<stream, consumed, heap, frames, taken>>
  BY DEF dataVars
<1>2. CASE Begun'
  <2>1. Begun /\ Top' = Top
    BY <1>1, <1>2 DEF Begun, Top
  <2> QED BY <1>1, <2>1 DEF Cutting
<1>3. CASE ~Begun'
  <2>1. Top' = consumed
    BY <1>1, <1>3 DEF Top
  <2>2. Sound(taken, frames, heap, stream, consumed)
    BY TopTyped, DataTyped, TopGrows DEF Cutting
  <2>3. Sound(taken', frames', heap', stream', Top')
    BY <1>1, <2>1, <2>2
  <2> QED BY <1>1, <1>3, <2>3 DEF Cutting
<1> QED BY <1>2, <1>3

\* The frames f over the objects h after a read has taken from them.
LEMMA FramesTaken ==
  ASSUME NEW h \in Seq(Frame), NEW f \in Seq(1..Len(h)), taken \in Seq(Entry(h)),
         NEW st, NEW top, Sound(taken, f, h, st, top), Len(f) <= FrameBuffer,
         NEW n \in Nat, TakeFrames(n, f, h)
  PROVE  /\ taken' \in Seq(Entry(h)) /\ frames' \in Seq(1..Len(h))
         /\ Len(frames') <= FrameBuffer
         /\ Sound(taken', frames', h, st, top)
<1> DEFINE k == IF n < Len(f) THEN n ELSE Len(f)
<1>1. k \in 0..Len(f)
  OBVIOUS
<1>2. taken' = taken \o Got(k, f, h) /\ frames' = SubSeq(f, k + 1, Len(f))
  BY DEF TakeFrames, Got
<1> HIDE DEF k
<1>3. /\ taken' \in Seq(Entry(h)) /\ frames' \in Seq(1..Len(h))
      /\ Len(frames') <= Len(f) /\ Sound(taken', frames', h, st, top)
  BY <1>1, <1>2, TakesSound
<1>4. Len(frames') \in Nat /\ Len(f) \in Nat /\ FrameBuffer \in Nat
  BY <1>3, NmeaAssumption
<1> QED BY <1>3, <1>4

LEMMA NoRoom == 0 \in 0..MaxRead
  BY NmeaAssumption

LEMMA StartKeeps ==
  ASSUME TypeOK, Waiters, Cutting, ExternStart
  PROVE  TypeOK' /\ Waiters' /\ Cutting'
<1>1. /\ state = "ready" /\ state' = "work" /\ UNCHANGED dataVars
      /\ port.reading = "none" /\ port' = [port EXCEPT !.reading = "head"]
      /\ UNCHANGED <<open, readError, reader, stopper>>
  BY DEF ExternStart, ReadUntilHead, Waiters
<1>2. TypeOK'
  BY <1>1 DEF TypeOK, dataVars, State
<1>3. Waiters'
  BY <1>1 DEF TypeOK, Waiters, dataVars
<1>4. Cutting'
  BY <1>1, CuttingRests DEF TypeOK
<1> QED BY <1>2, <1>3, <1>4

LEMMA StopKeeps ==
  ASSUME TypeOK, Waiters, Cutting, ExternStop
  PROVE  TypeOK' /\ Waiters' /\ Cutting'
<1>1. TypeOK'
  <2>1. /\ state' \in State /\ open' \in BOOLEAN /\ stopper' \in BOOLEAN
        /\ reader' \in 0..MaxRead /\ UNCHANGED <<port, readError>>
        /\ UNCHANGED dataVars
    BY NoRoom, Zenon DEF TypeOK, ExternStop, State
  <2> QED BY <2>1 DEF TypeOK, dataVars
<1>2. Waiters'
  BY DEF TypeOK, Waiters, ExternStop, dataVars
<1>3. Cutting'
  BY CuttingRests DEF ExternStop
<1> QED BY <1>1, <1>2, <1>3

LEMMA ReadKeeps ==
  ASSUME TypeOK, Waiters, Cutting, NEW n \in 1..MaxRead, ExternRead(n)
  PROVE  TypeOK' /\ Waiters' /\ Cutting'
<1>1. n \in Nat /\ n # 0 /\ n \in 0..MaxRead
  BY NmeaAssumption
<1>2. CASE frames # << >>
  <2>1. /\ TakeFrames(n, frames, heap)
        /\ UNCHANGED <<state, open, port, stream, consumed, heap, readError,
                       reader, stopper>>
    BY <1>2 DEF ExternRead
  <2>2. Top' = Top /\ Begun' = Begun
    BY <2>1 DEF Top, Begun
  <2>3. /\ taken' \in Seq(Entry(heap)) /\ frames' \in Seq(1..Len(heap))
        /\ Len(frames') <= FrameBuffer
        /\ Sound(taken', frames', heap, stream, Top)
    BY <1>1, <2>1, DataTyped, FramesTaken DEF TypeOK, Cutting
  <2>4. TypeOK'
    BY <2>1, <2>3 DEF TypeOK, Entry
  <2>5. Waiters'
    BY <1>2, <2>1 DEF Waiters, ExternRead
  <2>6. Cutting'
    BY <2>1, <2>2, <2>3 DEF Cutting
  <2> QED BY <2>4, <2>5, <2>6
<1>3. CASE frames = << >> /\ readError
  <2>1. /\ readError' = FALSE /\ UNCHANGED dataVars
        /\ UNCHANGED <<state, open, port, reader, stopper>>
    BY <1>3 DEF ExternRead, dataVars
  <2>2. TypeOK'
    BY <2>1 DEF TypeOK, dataVars
  <2>3. Waiters'
    BY <1>3, <2>1 DEF Waiters, dataVars
  <2> QED BY <2>1, <2>2, <2>3, CuttingRests
<1>4. CASE frames = << >> /\ ~readError
  <2>1. /\ state = "work" /\ reader' = n /\ UNCHANGED dataVars
        /\ UNCHANGED <<state, open, readError, stopper>>
        /\ port' = IF port.reading = "none" THEN [port EXCEPT !.reading = "head"]
                   ELSE port
    BY <1>4 DEF ExternRead, ReadUntilHead, dataVars
  <2>2. TypeOK'
    BY <1>1, <2>1 DEF TypeOK, dataVars
  <2>3. Waiters'
    BY <1>4, <2>1 DEF TypeOK, Waiters, dataVars
  <2>4. Cutting'
    BY <2>1, CuttingRests DEF TypeOK
  <2> QED BY <2>2, <2>3, <2>4
<1> QED BY <1>2, <1>3, <1>4

LEMMA WriteKeeps ==
  ASSUME TypeOK, Waiters, Cutting, ExternWrite \/ HandleWrite
  PROVE  TypeOK' /\ Waiters' /\ Cutting'
<1>1. /\ UNCHANGED <<open, readError, reader>> /\ UNCHANGED dataVars
      /\ port' \in [reading : {"none", "head", "tail"}, writing : BOOLEAN]
      /\ port'.reading = port.reading
  BY DEF TypeOK, ExternWrite, HandleWrite
<1>2. TypeOK'
  BY <1>1 DEF TypeOK, State, ExternWrite, HandleWrite, FinishStop, dataVars
<1>3. Waiters'
  <2>1. CASE ExternWrite
    BY <1>1, <2>1 DEF Waiters, ExternWrite, dataVars
  <2>2. CASE HandleWrite /\ state = "stop"
    <3>1. /\ state = "stop" /\ ~open /\ stopper /\ reader = 0
          /\ port' = [port EXCEPT !.writing = FALSE]
      BY <2>2 DEF Waiters, HandleWrite
    <3>2. port'.writing = FALSE
      BY <3>1 DEF TypeOK
    <3>3. \/ port.reading = "none" /\ state' = "stopped" /\ stopper' = FALSE
          \/ port.reading # "none" /\ UNCHANGED <<state, stopper>>
      BY <1>1, <2>2, <3>2 DEF HandleWrite, FinishStop
    <3> QED BY <1>1, <3>1, <3>2, <3>3 DEF Waiters
  <2>3. CASE HandleWrite /\ state # "stop"
    BY <1>1, <2>3 DEF TypeOK, Waiters, HandleWrite, dataVars
  <2> QED BY <2>1, <2>2, <2>3
<1>4. Cutting'
  BY <1>1, CuttingRests
<1> QED BY <1>2, <1>3, <1>4

LEMMA ResestKeeps ==
  ASSUME TypeOK, Waiters, Cutting, Resest
  PROVE  TypeOK' /\ Waiters' /\ Cutting'
<1>1. TypeOK'
  <2>1. state' \in State /\ open' \in BOOLEAN /\ readError' \in BOOLEAN
    BY Zenon DEF State, Resest
  <2>2. /\ consumed' \in 0..Len(stream') /\ Len(frames') <= FrameBuffer
        /\ frames' \in Seq(1..Len(heap'))
    BY NmeaAssumption, DataTyped DEF Resest
  <2> QED BY <2>1, <2>2 DEF TypeOK, Resest
<1>2. Waiters'
  BY DEF Waiters, Resest
<1>3. Cutting'
  <2>1. ~Begun' /\ Top' = Len(stream)
    BY DEF Waiters, Resest, Begun, Top
  <2>2. Sound(taken, frames, heap, stream, Len(stream))
    <3>1. Top <= Len(stream)
      BY TopTyped
    <3> QED BY <3>1, TopTyped, DataTyped, TopGrows DEF Cutting
  <2>3. Sound(taken, << >>, heap, stream, Len(stream))
    BY <2>2 DEF Sound, FramesSound, Apart
  <2> QED BY <2>1, <2>3 DEF Cutting, Resest
<1> QED BY <1>1, <1>2, <1>3

-----------------------------------------------------------------------------
(* The port. *)

LEMMA ReceiveKeeps ==
  ASSUME TypeOK, Waiters, Cutting, NEW chunk \in Chunks, Receive(chunk)
  PROVE  TypeOK' /\ Waiters' /\ Cutting'
<1>1. /\ UNCHANGED <<state, open, port, consumed, heap, frames, readError,
                     reader, stopper, taken>>
      /\ stream' = stream \o chunk /\ Len(stream) + Len(chunk) <= MaxStream
  BY DEF Receive
<1>2. chunk \in Seq(Token)
  BY NmeaAssumption DEF Chunks
<1>3. /\ stream' \in Seq(Token) /\ Len(stream') = Len(stream) + Len(chunk)
      /\ Len(stream) \in Nat /\ Len(chunk) \in Nat
      /\ \A i \in 1..Len(stream) : stream'[i] = stream[i]
  BY <1>1, <1>2, DataTyped, ConcatProperties
<1>4. TypeOK'
  <2>1. consumed \in 0..Len(stream')
    BY <1>3 DEF TypeOK
  <2> QED BY <1>1, <1>3, <2>1 DEF TypeOK
<1>5. Waiters'
  BY <1>1 DEF Waiters
<1>6. Cutting'
  <2>1. Top' = Top /\ Begun' = Begun
    BY <1>1 DEF Top, Begun
  <2>2. Sound(taken', frames', heap', stream', Top')
    BY <1>1, <1>2, <2>1, DataTyped, StreamGrows DEF Cutting
  <2>3. Begun => consumed >= 1 /\ stream'[consumed] = "head"
    <3> SUFFICES ASSUME Begun PROVE consumed \in 1..Len(stream) /\ stream[consumed] = "head"
      BY <1>3, TopTyped
    <3> QED BY TopTyped DEF Cutting
  <2> QED BY <1>1, <1>3, <2>1, <2>2, <2>3 DEF Cutting
<1> QED BY <1>4, <1>5, <1>6

LEMMA ReadEndsKeeps ==
  ASSUME TypeOK, Waiters, Cutting, ReadStopped \/ ReadFails
  PROVE  TypeOK' /\ Waiters' /\ Cutting'
<1>1. /\ port.reading # "none" /\ port' = [port EXCEPT !.reading = "none"]
      /\ UNCHANGED open /\ UNCHANGED dataVars
  BY DEF ReadStopped, ReadFails
<1>2. port' \in [reading : {"none", "head", "tail"}, writing : BOOLEAN]
      /\ port'.reading = "none" /\ port'.writing = port.writing
  BY <1>1 DEF TypeOK
<1>3. CASE ReadStopped
  <2>1. TypeOK'
    <3>1. /\ state' \in State /\ stopper' \in BOOLEAN
          /\ UNCHANGED <<readError, reader>>
      BY <1>3, Zenon DEF TypeOK, State, ReadStopped, FinishStop
    <3> QED BY <1>1, <1>2, <3>1 DEF TypeOK, dataVars
  <2>2. Waiters'
    <3>1. /\ state = "stop" /\ ~readError /\ ~open /\ stopper /\ reader = 0
          /\ UNCHANGED <<open, readError, reader>>
      BY <1>1, <1>3 DEF Waiters, ReadStopped
    <3>2. \/ ~port.writing /\ state' = "stopped" /\ stopper' = FALSE
          \/ port.writing /\ UNCHANGED <<state, stopper>>
      BY <1>2, <1>3 DEF ReadStopped, FinishStop
    <3> QED BY <1>2, <3>1, <3>2 DEF Waiters
  <2> QED BY <1>1, <1>2, <2>1, <2>2, CuttingRests
<1>4. CASE ReadFails
  <2>1. TypeOK'
    BY <1>1, <1>2, <1>4, NmeaAssumption DEF TypeOK, ReadFails, dataVars
  <2>2. Waiters'
    BY <1>1, <1>2, <1>4 DEF TypeOK, Waiters, ReadFails, State, dataVars
  <2> QED BY <1>1, <1>2, <2>1, <2>2, CuttingRests
<1> QED BY <1>3, <1>4

LEMMA HeadKeeps ==
  ASSUME TypeOK, Waiters, Cutting, ReadHead
  PROVE  TypeOK' /\ Waiters' /\ Cutting'
<1>1. /\ Min(Found) \in consumed + 1 .. Len(stream)
      /\ stream[Min(Found)] = "head"
  BY FirstFound DEF ReadHead
<1>2. /\ port.reading = "head" /\ state # "stop" /\ consumed' = Min(Found)
      /\ port' = [port EXCEPT !.reading = "tail"]
      /\ UNCHANGED <<state, open, stream, heap, frames, readError, reader,
                     stopper, taken>>
  BY DEF ReadHead
<1>3. consumed' \in 0..Len(stream) /\ consumed' >= 1 /\ consumed <= consumed' - 1
      /\ consumed' - 1 \in Nat
  BY <1>1, <1>2, TopTyped
<1>4. TypeOK'
  BY <1>2, <1>3 DEF TypeOK
<1>5. Waiters'
  BY <1>2 DEF TypeOK, Waiters
<1>6. Cutting'
  <2>1. Begun' /\ Top' = consumed' - 1 /\ Top = consumed
    BY <1>2 DEF TypeOK, Begun, Top
  <2>2. Sound(taken, frames, heap, stream, consumed' - 1)
    BY <1>3, <2>1, TopTyped, DataTyped, TopGrows DEF Cutting
  <2> QED BY <1>1, <1>2, <1>3, <2>1, <2>2 DEF Cutting
<1> QED BY <1>4, <1>5, <1>6

LEMMA TailKeeps ==
  ASSUME TypeOK, Waiters, Cutting, ReadTail
  PROVE  TypeOK' /\ Waiters' /\ Cutting'
<1> DEFINE tail == Min(Found)
           frame == <<consumed + 1, tail - 1>>
           full == Len(frames) = FrameBuffer
           object == IF full THEN Head(frames) ELSE Len(heap) + 1
           h == IF full THEN [heap EXCEPT ![object] = frame] ELSE Append(heap, frame)
           f == Append(IF full THEN Tail(frames) ELSE frames, object)
<1>1. /\ port.reading = "tail" /\ state # "stop" /\ Found # {}
      /\ heap' = h /\ consumed' = tail
      /\ IF reader # 0 THEN TakeFrames(reader, f, h)
         ELSE frames' = f /\ UNCHANGED taken
      /\ reader' = 0 /\ port' = [port EXCEPT !.reading = "head"]
      /\ UNCHANGED <<state, open, stream, readError, stopper>>
  BY DEF ReadTail, ReadUntilHead
<1>2. /\ tail \in consumed + 1 .. Len(stream) /\ stream[tail] = "tail"
      /\ \A i \in consumed + 1 .. tail - 1 : stream[i] # "tail"
  BY <1>1, FirstFound
<1>3. Begun /\ consumed >= 1 /\ stream[consumed] = "head" /\ Top = consumed - 1
  BY <1>1 DEF Begun, Top, Cutting
<1> HIDE DEF tail
<1>4. /\ consumed \in Nat /\ tail \in Nat /\ tail <= Len(stream)
      /\ Len(stream) \in Nat /\ Len(stream) <= MaxStream
  BY <1>2, TopTyped DEF Cutting
<1>5. /\ frame \in Frame /\ frame[1] = consumed + 1 /\ frame[2] = tail - 1
      /\ frame[1] - 1 = consumed /\ frame[2] + 1 = tail
  BY <1>2, <1>4, NmeaAssumption DEF Frame
<1> HIDE DEF frame
<1>6. Whole(frame, stream)
  BY <1>2, <1>3, <1>4, <1>5 DEF Whole
<1>7. Top \in Nat /\ Top < frame[1] - 1 /\ Len(frames) <= FrameBuffer
      /\ Sound(taken, frames, heap, stream, Top)
  BY <1>3, <1>4, <1>5 DEF TypeOK, Cutting
<1>8. /\ h \in Seq(Frame) /\ Len(heap) <= Len(h) /\ taken \in Seq(Entry(h))
      /\ f \in Seq(1..Len(h)) /\ Len(f) <= FrameBuffer
      /\ Sound(taken, f, h, stream, tail)
  <2>1. CASE full
    BY <1>5, <1>6, <1>7, <2>1, DataTyped, StoredAgain
  <2>2. CASE ~full
    <3>1. Len(frames) < FrameBuffer
      BY <1>7, <2>2, DataTyped, NmeaAssumption
    <3> QED BY <1>5, <1>6, <1>7, <2>2, <3>1, DataTyped, StoredNew
  <2> QED BY <2>1, <2>2
<1> HIDE DEF h, f
<1>9. /\ taken' \in Seq(Entry(h)) /\ frames' \in Seq(1..Len(h))
      /\ Len(frames') <= FrameBuffer
      /\ Sound(taken', frames', h, stream, tail)
  <2>1. CASE reader # 0
    <3>1. reader \in Nat
      BY NmeaAssumption DEF TypeOK
    <3> QED BY <1>1, <1>8, <2>1, <3>1, FramesTaken
  <2>2. CASE reader = 0
    BY <1>1, <1>8, <2>2
  <2> QED BY <2>1, <2>2
<1>10. TypeOK'
  <2>1. /\ consumed' \in 0..Len(stream) /\ reader' \in 0..MaxRead
    BY <1>1, <1>4, NmeaAssumption
  <2> QED BY <1>1, <1>8, <1>9, <2>1 DEF TypeOK, Entry
<1>11. Waiters'
  BY <1>1 DEF TypeOK, Waiters
<1>12. Cutting'
  <2>1. ~Begun' /\ Top' = tail
    BY <1>1 DEF TypeOK, Begun, Top
  <2> QED BY <1>1, <1>4, <1>9, <2>1 DEF Cutting
<1> QED BY <1>10, <1>11, <1>12

-----------------------------------------------------------------------------
(* The theorems. *)

\* For every size of the buffers, of the reads and of the pieces, the
\* invariant holds at first and every handler keeps it.
THEOREM Invariant == Spec => []IInv
<1>1. Init => IInv
  <2> SUFFICES ASSUME Init PROVE TypeOK /\ Waiters /\ Cutting
    BY Parts
  <2>1. TypeOK
    <3>1. /\ stream \in Seq(Token) /\ consumed \in 0..Len(stream)
          /\ heap \in Seq(Frame) /\ frames \in Seq(1..Len(heap))
          /\ Len(frames) <= FrameBuffer
          /\ taken \in Seq([object : 1..Len(heap), frame : Frame])
      BY NmeaAssumption DEF Init
    <3>2. /\ state \in State /\ open \in BOOLEAN /\ reader \in 0..MaxRead
          /\ port \in [reading : {"none", "head", "tail"}, writing : BOOLEAN]
          /\ readError \in BOOLEAN /\ stopper \in BOOLEAN
      BY NoRoom, Zenon DEF Init, State
    <3> QED BY <3>1, <3>2 DEF TypeOK
  <2>2. Waiters
    BY DEF Init, Waiters
  <2>3. Cutting
    BY NmeaAssumption DEF Init, Cutting, Begun, Top, Sound, TakenSound, FramesSound, Apart
  <2> QED BY <2>1, <2>2, <2>3
<1>2. IInv /\ [Next]_vars => IInv'
  <2> SUFFICES ASSUME TypeOK, Waiters, Cutting, [Next]_vars
               PROVE  TypeOK' /\ Waiters' /\ Cutting'
    BY Parts DEF IInv, WaitersHaveCause, TypeOK, Waiters, Cutting, Begun, Top
  <2>1. CASE UNCHANGED vars
    <3>1. TypeOK' /\ Waiters'
      BY <2>1 DEF vars, TypeOK, Waiters
    <3> QED BY <2>1, <3>1, CuttingRests DEF vars, dataVars
  <2>2. ASSUME NEW n \in 1..MaxRead, ExternRead(n)
        PROVE  TypeOK' /\ Waiters' /\ Cutting'
    BY <2>2, ReadKeeps
  <2>3. ASSUME NEW chunk \in Chunks, Receive(chunk)
        PROVE  TypeOK' /\ Waiters' /\ Cutting'
    BY <2>3, ReceiveKeeps
  <2> QED BY <2>1, <2>2, <2>3, StartKeeps, StopKeeps, WriteKeeps, ResestKeeps,
             ReadEndsKeeps, HeadKeeps, TailKeeps DEF Next
<1> QED BY <1>1, <1>2, PTL DEF Spec

\* For every size of the buffers and whatever the device sends, a read waits
\* only for a port that is read and a stop only for an operation in flight, so
\* that none of them waits for nothing; and an error is not passed over.
THEOREM NobodyForgotten == Spec => []WaitersHaveCause
<1>1. IInv => WaitersHaveCause
  BY DEF IInv
<1> QED BY <1>1, Invariant, PTL

\* For every size of the frame buffer, whatever was lost to errors and to the
\* full buffer and although frame objects are used again, the application
\* gets whole frames, in the order of the stream, that do not change.
THEOREM WholeFrames == Spec => []FramesIntact
<1>1. IInv => FramesIntact
  <2> SUFFICES ASSUME TypeOK, Cutting PROVE FramesIntact
    BY Parts
  <2> DEFINE kept == [i \in DOMAIN frames |-> [object |-> frames[i],
                                               frame |-> heap[frames[i]]]]
             m == Len(taken)
             l == Len(frames)
  <2>1. /\ m \in Nat /\ l \in Nat /\ DOMAIN frames = 1..l /\ DOMAIN taken = 1..m
    BY DataTyped
  <2>2. /\ kept \in Seq(Entry(heap)) /\ Len(kept) = l
        /\ \A i \in 1..l : kept[i].frame = heap[frames[i]]
    BY <2>1, DataTyped, Framed DEF Entry
  <2> HIDE DEF kept
  <2>3. /\ DOMAIN All = 1..(m + l)
        /\ \A i \in 1..m : All[i] = taken[i]
        /\ \A i \in 1..(m + l) : i \notin 1..m =>
              i - m \in 1..l /\ All[i].frame = heap[frames[i - m]]
    <3>1. All = taken \o kept
      BY DEF All, kept
    <3>2. /\ taken \o kept \in Seq(Entry(heap)) /\ Len(taken \o kept) = m + l
          /\ \A i \in 1..m : (taken \o kept)[i] = taken[i]
          /\ \A i \in 1..(m + l) : i > m => (taken \o kept)[i] = kept[i - m]
      <4>1. taken \in Seq(Entry(heap)) /\ kept \in Seq(Entry(heap))
        BY <2>2, DataTyped
      <4>2. /\ taken \o kept \in Seq(Entry(heap))
            /\ Len(taken \o kept) = Len(taken) + Len(kept)
            /\ \A i \in 1..(Len(taken) + Len(kept)) :
                 (taken \o kept)[i] = IF i <= Len(taken) THEN taken[i]
                                      ELSE kept[i - Len(taken)]
        BY <4>1, ConcatProperties
      <4>3. \A i \in 1..m : i \in 1..(m + l) /\ i <= m
        BY <2>1
      <4>4. \A i \in 1..(m + l) : i > m => ~(i <= m)
        BY <2>1
      <4> QED BY <2>2, <4>2, <4>3, <4>4
    <3>3. \A i \in 1..(m + l) : i \notin 1..m => i > m /\ i - m \in 1..l
      BY <2>1
    <3> QED BY <2>1, <2>2, <3>1, <3>2, <3>3
  <2> HIDE DEF m, l
  <2>4. Sound(taken, frames, heap, stream, Top)
    BY DEF Cutting
  <2>5. \A i \in 1..(m + l) : All[i].frame \in Frame /\ Whole(All[i].frame, stream)
    <3> SUFFICES ASSUME NEW i \in 1..(m + l)
                 PROVE  All[i].frame \in Frame /\ Whole(All[i].frame, stream)
      OBVIOUS
    <3>1. CASE i \in 1..m
      BY <2>3, <2>4, <3>1, DataTyped, Framed DEF Sound, TakenSound, m
    <3>2. CASE i \notin 1..m
      BY <2>3, <2>4, <3>2, DataTyped, Framed DEF Sound, FramesSound, l
    <3> QED BY <3>1, <3>2
  <2>6. ASSUME NEW i \in 1..(m + l), NEW j \in 1..(m + l), i < j
        PROVE  Before(All[i].frame, All[j].frame)
    <3>1. CASE j \in 1..m
      <4>1. i \in 1..m
        BY <2>1, <2>6, <3>1
      <4> QED BY <2>3, <2>4, <2>6, <3>1, <4>1 DEF Sound, TakenSound, m
    <3>2. CASE j \notin 1..m
      <4>1. CASE i \in 1..m
        BY <2>3, <2>4, <3>2, <4>1 DEF Sound, Apart, m, l
      <4>2. CASE i \notin 1..m
        <5>1. i - m < j - m
          BY <2>1, <2>6
        <5>2. /\ i - m \in 1..l /\ All[i].frame = heap[frames[i - m]]
              /\ j - m \in 1..l /\ All[j].frame = heap[frames[j - m]]
          BY <2>3, <3>2, <4>2
        <5> QED BY <2>4, <5>1, <5>2 DEF Sound, FramesSound, l
      <4> QED BY <4>1, <4>2
    <3> QED BY <3>1, <3>2
  <2>7. ASSUME NEW i \in 1..(m + l), i > 1
        PROVE  All[i - 1].frame[2] < All[i].frame[1] - 1
    <3>1. i - 1 \in 1..(m + l) /\ i - 1 < i
      BY <2>1, <2>7
    <3>2. /\ All[i - 1].frame[2] + 1 < All[i].frame[1] - 1
      BY <2>6, <3>1 DEF Before
    <3>3. All[i - 1].frame[2] \in Nat /\ All[i].frame[1] \in Nat
      BY <2>5, <3>1, FrameNumbers
    <3> QED BY <3>2, <3>3
  <2>8. \A i \in 1..m : heap[taken[i].object] = taken[i].frame
    BY <2>4 DEF Sound, TakenSound, m
  <2> QED BY <2>1, <2>3, <2>5, <2>7, <2>8 DEF FramesIntact, Whole
<1> QED BY <1>1, Invariant, PTL
=============================================================================
