------------------------- MODULE OxrSwapchain_proofs -------------------------
(***************************************************************************)
(* Theorems about OxrSwapchain, for any number of images that leaves one   *)
(* place of the ring free, any number of layers, static swapchains and     *)
(* others, with and without Vulkan.                                        *)
(*                                                                         *)
(*   RefsInv    the references to the swapchain are its layers and the     *)
(*              application;                                               *)
(*   Ring       what u_index_fifo does to the sequence of its images;      *)
(*   ImageInv   each image is in one place, once.                          *)
(***************************************************************************)
EXTENDS OxrSwapchain, FiniteSetTheorems, SequenceTheorems, TLAPS

USE DEF imageVars, lifeVars

-----------------------------------------------------------------------------
(* References.                                                             *)

\* The references are those of the layers and, as long as it has the swapchain, of
\* the application; the last one puts the swapchain on the stack.
RefsInv ==
  /\ layers \in Seq(Images \union {NoImage})
  /\ Len(layers) <= MaxLayers
  /\ life \in {"alive", "dropped", "stacked", "destroyed"}
  /\ ending => life = "alive"
  /\ life = "alive" => refs = Len(layers) + 1
  /\ life = "dropped" => refs = Len(layers) /\ layers # <<>>
  /\ life \in {"stacked", "destroyed"} => refs = 0 /\ layers = <<>>

\* Every step keeps it; what is appended to the layers is an image or none.
LEMMA RefsStep ==
  ASSUME RefsInv, [Next]_vars, released.index \in Images \union {NoImage}
  PROVE  RefsInv'
<1>0. Len(layers) \in Nat
  BY DEF RefsInv
<1>1. CASE Acquire
  BY <1>1 DEF Acquire, RefsInv
<1>2. CASE Wait
  BY <1>2 DEF Wait, RefsInv
<1>3. CASE Release
  BY <1>3 DEF Release, RefsInv
<1>4. CASE EndFrameVerify
  BY <1>4 DEF EndFrameVerify, Call, RefsInv
<1>5. CASE EndFrameSubmit
  <2>1. layers' \in Seq(Images \union {NoImage}) /\ Len(layers') = Len(layers) + 1
    BY <1>5 DEF EndFrameSubmit, RefsInv
  <2> QED
    BY <1>0, <1>5, <2>1, ConstantsAssumption DEF EndFrameSubmit, RefsInv
<1>6. CASE RetireLayer
  <2>1. layers # <<>> /\ layers' = Tail(layers)
    BY <1>6 DEF RetireLayer
  <2>2. /\ layers' \in Seq(Images \union {NoImage}) /\ Len(layers') = Len(layers) - 1
        /\ Len(layers) \in Nat \ {0}
    BY <2>1, HeadTailProperties, EmptySeq DEF RefsInv
  <2>3. layers' = <<>> <=> Len(layers) = 1
    <3>1. layers' = <<>> => Len(layers') = 0
      BY EmptySeq
    <3>2. layers' # <<>> => Len(layers') # 0
      BY <2>2, EmptySeq
    <3> QED
      BY <2>2, <3>1, <3>2
  <2> QED
    BY <1>6, <2>2, <2>3, ConstantsAssumption DEF RetireLayer, DropReference, RefsInv
<1>7. CASE Destroy
  <2>1. layers = <<>> <=> Len(layers) = 0
    BY EmptySeq DEF RefsInv
  <2> QED
    BY <1>0, <1>7, <2>1 DEF Destroy, DropReference, RefsInv
<1>8. CASE GarbageCollect
  BY <1>8 DEF GarbageCollect, RefsInv
<1>9. CASE UNCHANGED vars
  BY <1>9 DEF vars, RefsInv
<1> QED
  BY <1>1, <1>2, <1>3, <1>4, <1>5, <1>6, <1>7, <1>8, <1>9 DEF Next

-----------------------------------------------------------------------------
(* The ring of u_index_fifo.                                               *)

\* A place of the ring, the next place, the number of places from s up to e, and the
\* k-th place from s.
Places == 0..(MaxIndices - 1)
NextPlace(p) == IF p + 1 < MaxIndices THEN p + 1 ELSE p + 1 - MaxIndices
Distance(s, e) == IF e < s THEN e - s + MaxIndices ELSE e - s
Place(s, k) == IF s + k - 1 < MaxIndices THEN s + k - 1 ELSE s + k - 1 - MaxIndices

\* The next place is what the code takes modulo the size of the ring.
LEMMA ModuloNext ==
  ASSUME NEW e \in Places
  PROVE  (e + 1) % MaxIndices = NextPlace(e) /\ NextPlace(e) \in Places
<1>0. MaxIndices \in Nat /\ MaxIndices > 0 /\ e \in Int /\ e >= 0 /\ e < MaxIndices
  BY ConstantsAssumption DEF Places
<1>1. CASE e + 1 < MaxIndices
  BY <1>0, <1>1 DEF NextPlace, Places
<1>2. CASE e + 1 = MaxIndices
  <2>1. NextPlace(e) = 0 /\ (e + 1) % MaxIndices = 0
    BY <1>0, <1>2 DEF NextPlace
  <2> QED
    BY <1>0, <2>1 DEF Places
<1> QED
  BY <1>0, <1>1, <1>2

\* So are the distance and the k-th place.
LEMMA Modulo ==
  ASSUME NEW s \in Places, NEW e \in Places, NEW k \in Places, k > 0
  PROVE  /\ (e - s) % MaxIndices = Distance(s, e) /\ Distance(s, e) \in Places
         /\ (s + k - 1) % MaxIndices = Place(s, k) /\ Place(s, k) \in Places
<1>0. MaxIndices \in Nat /\ MaxIndices > 0 /\ s \in Int /\ e \in Int /\ k \in Int
      /\ s >= 0 /\ s < MaxIndices /\ e >= 0 /\ e < MaxIndices /\ k < MaxIndices
  BY ConstantsAssumption DEF Places
<1>2. (e - s) % MaxIndices = Distance(s, e) /\ Distance(s, e) \in Places
  <2> DEFINE d == e - s
  <2>1. d \in Int /\ -MaxIndices < d /\ d < MaxIndices
    BY <1>0
  <2>2. Distance(s, e) = IF d < 0 THEN d + MaxIndices ELSE d
    BY <1>0 DEF Distance
  <2> HIDE DEF d
  <2>3. CASE d < 0
    BY <1>0, <2>1, <2>2, <2>3 DEF Places, d
  <2>4. CASE d >= 0
    BY <1>0, <2>1, <2>2, <2>4 DEF Places, d
  <2> QED
    BY <2>1, <2>3, <2>4
<1>3. (s + k - 1) % MaxIndices = Place(s, k) /\ Place(s, k) \in Places
  <2> DEFINE x == s + k - 1
  <2>1. x \in Int /\ 0 <= x /\ x < 2 * MaxIndices
    BY <1>0
  <2>2. Place(s, k) = IF x < MaxIndices THEN x ELSE x - MaxIndices
    BY <1>0 DEF Place
  <2> HIDE DEF x
  <2>3. CASE x < MaxIndices
    BY <1>0, <2>1, <2>2, <2>3 DEF Places, x
  <2>4. CASE x >= MaxIndices
    BY <1>0, <2>1, <2>2, <2>4 DEF Places, x
  <2> QED
    BY <1>0, <2>1, <2>3, <2>4
<1> QED
  BY <1>2, <1>3

\* The first place is taken away.
LEMMA FirstPlace ==
  ASSUME NEW s \in Places, NEW e \in Places, Distance(s, e) > 0
  PROVE  /\ Distance(NextPlace(s), e) = Distance(s, e) - 1
         /\ \A k \in 1..(Distance(s, e) - 1) : Place(NextPlace(s), k) = Place(s, k + 1)
<1>0. MaxIndices \in Nat /\ s \in Int /\ e \in Int
      /\ s >= 0 /\ s < MaxIndices /\ e >= 0 /\ e < MaxIndices
  BY ConstantsAssumption DEF Places
<1>1. Distance(NextPlace(s), e) = Distance(s, e) - 1
  BY <1>0 DEF Distance, NextPlace
<1>2. ASSUME NEW k \in 1..(Distance(s, e) - 1)
      PROVE  Place(NextPlace(s), k) = Place(s, k + 1)
  <2>1. k \in Int /\ k >= 1 /\ k < MaxIndices
    BY <1>0 DEF Distance
  <2> QED
    BY <1>0, <2>1 DEF Place, NextPlace
<1> QED
  BY <1>1, <1>2

\* A place is added at the end.
LEMMA LastPlace ==
  ASSUME NEW s \in Places, NEW e \in Places, Distance(s, e) < MaxIndices - 1
  PROVE  /\ Distance(s, NextPlace(e)) = Distance(s, e) + 1
         /\ Place(s, Distance(s, e) + 1) = e
         /\ \A k \in 1..Distance(s, e) : Place(s, k) # e
<1>0. MaxIndices \in Nat /\ s \in Int /\ e \in Int
      /\ s >= 0 /\ s < MaxIndices /\ e >= 0 /\ e < MaxIndices
  BY ConstantsAssumption DEF Places
<1>1. Distance(s, NextPlace(e)) = Distance(s, e) + 1
  BY <1>0 DEF Distance, NextPlace
<1>2. Place(s, Distance(s, e) + 1) = e
  BY <1>0 DEF Distance, Place
<1>3. ASSUME NEW k \in 1..Distance(s, e) PROVE Place(s, k) # e
  <2>1. k \in Int /\ k >= 1 /\ k <= Distance(s, e)
    BY <1>0 DEF Distance
  <2> QED
    BY <1>0, <2>1 DEF Place, Distance
<1> QED
  BY <1>1, <1>2, <1>3

\* The number of images in a ring.
Size(r) == Distance(r.start, r.end)

\* What a ring is made of.
LEMMA RingType ==
  ASSUME NEW r \in Ring
  PROVE  /\ r.start \in Places /\ r.end \in Places
         /\ r.indices \in [Places -> Images]
         /\ r = [indices |-> r.indices, start |-> r.start, end |-> r.end]
         /\ Size(r) \in Places /\ Size(r) \in Nat
<1>1. /\ r.start \in Places /\ r.end \in Places /\ r.indices \in [Places -> Images]
      /\ r = [indices |-> r.indices, start |-> r.start, end |-> r.end]
  BY DEF Ring, Places
<1>2. MaxIndices \in Nat /\ MaxIndices > 1
  BY ConstantsAssumption
<1>3. 1 \in Places
  BY <1>2 DEF Places
<1>4. Size(r) \in Places
  BY <1>1, <1>3, Modulo DEF Size
<1> QED
  BY <1>1, <1>2, <1>4 DEF Places

\* The ring as a sequence, without the modulo.
LEMMA ListedRing ==
  ASSUME NEW r \in Ring
  PROVE  /\ Listed(r) \in Seq(Images)
         /\ Len(Listed(r)) = Size(r)
         /\ \A k \in 1..Size(r) : Listed(r)[k] = r.indices[Place(r.start, k)]
         /\ IsEmpty(r) <=> Listed(r) = <<>>
<1>0. MaxIndices \in Nat /\ MaxIndices > 1 /\ 1 \in Places
  BY ConstantsAssumption DEF Places
<1>1. (r.end - r.start) % MaxIndices = Size(r)
  BY <1>0, RingType, Modulo DEF Size
<1>2. ASSUME NEW k \in 1..Size(r)
      PROVE  /\ (r.start + k - 1) % MaxIndices = Place(r.start, k)
             /\ Place(r.start, k) \in Places
  <2>1. k \in Places /\ k > 0
    BY <1>0, RingType DEF Places
  <2> QED
    BY <2>1, RingType, Modulo
<1>3. Listed(r) = [k \in 1..Size(r) |-> r.indices[Place(r.start, k)]]
  BY <1>1, <1>2 DEF Listed
<1>4. Listed(r) \in [1..Size(r) -> Images]
  BY <1>2, <1>3, RingType
<1>5. Listed(r) \in Seq(Images) /\ Len(Listed(r)) = Size(r)
  BY <1>4, RingType
<1>6. IsEmpty(r) <=> Size(r) = 0
  BY <1>0, RingType DEF IsEmpty, Size, Distance, Places
<1>7. Size(r) = 0 <=> Listed(r) = <<>>
  BY <1>5, EmptySeq
<1> QED
  BY <1>3, <1>5, <1>6, <1>7

\* A ring is not full when more than one place is left.
LEMMA NotFull ==
  ASSUME NEW r \in Ring, Len(Listed(r)) < MaxIndices - 1
  PROVE  ~IsFull(r)
<1>0. MaxIndices \in Nat /\ MaxIndices > 1 /\ 1 \in Places
  BY ConstantsAssumption DEF Places
<1>1. Size(r) < MaxIndices - 1 /\ (r.end + 1) % MaxIndices = NextPlace(r.end)
  BY ListedRing, RingType, ModuloNext
<1> QED
  BY <1>0, <1>1, RingType DEF IsFull, Size, Distance, NextPlace, Places

\* What u_index_fifo_pop makes of the record.
LEMMA PoppedType ==
  ASSUME NEW r \in Ring
  PROVE  /\ Popped(r) \in Ring
         /\ Popped(r) = [indices |-> r.indices, start |-> NextPlace(r.start), end |-> r.end]
         /\ Peek(r) \in Images
<1>1. (r.start + 1) % MaxIndices = NextPlace(r.start) /\ NextPlace(r.start) \in Places
  BY RingType, ModuloNext
<1>2. Popped(r) = [indices |-> r.indices, start |-> NextPlace(r.start), end |-> r.end]
  BY <1>1, RingType DEF Popped
<1>3. Popped(r) \in Ring
  BY <1>1, <1>2, RingType DEF Ring, Places
<1> QED
  BY <1>2, <1>3, RingType DEF Peek

\* u_index_fifo_pop takes the first image.
LEMMA PoppedRing ==
  ASSUME NEW r \in Ring, Listed(r) # <<>>
  PROVE  /\ Popped(r) \in Ring
         /\ Listed(Popped(r)) = Tail(Listed(r))
         /\ Peek(r) = Head(Listed(r))
         /\ Peek(r) \in Images
<1> DEFINE q == Popped(r)
<1>0. MaxIndices \in Nat /\ MaxIndices > 1 /\ 1 \in Places
  BY ConstantsAssumption DEF Places
<1>2. q = [indices |-> r.indices, start |-> NextPlace(r.start), end |-> r.end]
  BY PoppedType
<1>3. q.indices = r.indices /\ q.end = r.end /\ q.start = NextPlace(r.start)
  BY <1>2
<1>4. q \in Ring
  BY PoppedType
<1> HIDE DEF q
<1>5. Size(r) > 0 /\ Size(r) \in Nat /\ Len(Listed(r)) = Size(r)
  BY ListedRing, RingType, EmptySeq
<1>6. /\ Size(q) = Size(r) - 1
      /\ \A k \in 1..(Size(r) - 1) : Place(q.start, k) = Place(r.start, k + 1)
  BY <1>3, <1>5, FirstPlace, RingType DEF Size
<1>7. /\ Tail(Listed(r)) \in Seq(Images) /\ Len(Tail(Listed(r))) = Size(r) - 1
      /\ \A i \in 1..(Size(r) - 1) : Tail(Listed(r))[i] = Listed(r)[i + 1]
  BY <1>5, ListedRing, HeadTailProperties
<1>8. /\ Listed(q) \in Seq(Images) /\ Len(Listed(q)) = Size(r) - 1
      /\ \A k \in 1..(Size(r) - 1) : Listed(q)[k] = r.indices[Place(r.start, k + 1)]
  BY <1>3, <1>4, <1>6, ListedRing
<1>9. \A k \in 1..(Size(r) - 1) : Listed(q)[k] = Tail(Listed(r))[k]
  <2> SUFFICES ASSUME NEW k \in 1..(Size(r) - 1)
               PROVE  Listed(q)[k] = Tail(Listed(r))[k]
    OBVIOUS
  <2>1. k + 1 \in 1..Size(r)
    BY <1>5
  <2>2. Listed(r)[k + 1] = r.indices[Place(r.start, k + 1)]
    BY <2>1, ListedRing
  <2> QED
    BY <1>7, <1>8, <2>2
<1>10. Listed(q) = Tail(Listed(r))
  BY <1>7, <1>8, <1>9, SeqEqual
<1>11. Peek(r) = Head(Listed(r)) /\ Peek(r) \in Images
  <2>1. Listed(r)[1] = r.indices[Place(r.start, 1)]
    BY <1>5, ListedRing
  <2>2. Place(r.start, 1) = r.start
    BY <1>0, RingType DEF Place, Places
  <2> QED
    BY <2>1, <2>2, ListedRing, RingType DEF Peek
<1> QED
  BY <1>4, <1>10, <1>11 DEF q

\* The two fields that a push changes.
LEMMA PushRecord ==
  ASSUME NEW r \in Ring, NEW f \in [Places -> Images], NEW n \in Places
  PROVE  [r EXCEPT !.indices = f, !.end = n] = [indices |-> f, start |-> r.start, end |-> n]
<1> DEFINE p == [r EXCEPT !.indices = f]
<1>1. p \in Ring /\ p.start = r.start /\ p.indices = f
  BY DEF Ring, Places
<1> HIDE DEF p
<1>2. [p EXCEPT !.end = n] = [indices |-> p.indices, start |-> p.start, end |-> n]
  BY <1>1 DEF Ring, Places
<1> QED
  BY <1>1, <1>2 DEF p

\* What u_index_fifo_push makes of the record.
LEMMA PushedType ==
  ASSUME NEW r \in Ring, NEW i \in Images
  PROVE  /\ Pushed(r, i) \in Ring
         /\ ~IsFull(r) =>
              Pushed(r, i) = [indices |-> [r.indices EXCEPT ![r.end] = i],
                              start |-> r.start, end |-> NextPlace(r.end)]
<1> DEFINE q == Pushed(r, i)
           f == [r.indices EXCEPT ![r.end] = i]
<1>1. (r.end + 1) % MaxIndices = NextPlace(r.end) /\ NextPlace(r.end) \in Places
  BY RingType, ModuloNext
<1>2. f \in [Places -> Images]
  BY RingType
<1>3. ASSUME ~IsFull(r)
      PROVE  q = [indices |-> f, start |-> r.start, end |-> NextPlace(r.end)]
  <2>1. q = [r EXCEPT !.indices = f, !.end = (@ + 1) % MaxIndices]
    BY <1>3 DEF Pushed
  <2> HIDE DEF f, q
  <2> QED
    BY <1>1, <1>2, <2>1, PushRecord
<1>4. ASSUME ~IsFull(r) PROVE q \in Ring
  <2> HIDE DEF f, q
  <2> QED
    BY <1>1, <1>2, <1>3, <1>4, RingType DEF Ring, Places
<1>5. ASSUME IsFull(r) PROVE q \in Ring
  BY <1>5 DEF Pushed
<1> QED
  BY <1>3, <1>4, <1>5

\* u_index_fifo_push appends an image.
LEMMA PushedRing ==
  ASSUME NEW r \in Ring, NEW i \in Images, Len(Listed(r)) < MaxIndices - 1
  PROVE  Pushed(r, i) \in Ring /\ Listed(Pushed(r, i)) = Append(Listed(r), i)
<1> DEFINE q == Pushed(r, i)
           f == [r.indices EXCEPT ![r.end] = i]
<1>0. MaxIndices \in Nat /\ MaxIndices > 1 /\ 1 \in Places
  BY ConstantsAssumption DEF Places
<1>2. q = [indices |-> f, start |-> r.start, end |-> NextPlace(r.end)]
  BY NotFull, PushedType
<1>3. q.indices = f /\ q.start = r.start /\ q.end = NextPlace(r.end)
  BY <1>2
<1>4. q \in Ring
  BY PushedType
<1> HIDE DEF q
<1>5. /\ Size(r) \in Nat /\ Len(Listed(r)) = Size(r) /\ Size(r) < MaxIndices - 1
      /\ Listed(r) \in Seq(Images)
  BY RingType, ListedRing
<1>6. /\ Size(q) = Size(r) + 1
      /\ Place(r.start, Size(r) + 1) = r.end
      /\ \A k \in 1..Size(r) : Place(r.start, k) # r.end
  BY <1>3, <1>5, LastPlace, RingType DEF Size
<1>7. /\ Append(Listed(r), i) \in Seq(Images) /\ Len(Append(Listed(r), i)) = Size(r) + 1
      /\ \A k \in 1..Size(r) : Append(Listed(r), i)[k] = Listed(r)[k]
      /\ Append(Listed(r), i)[Size(r) + 1] = i
  BY <1>5
<1>8. \A k \in 1..(Size(r) + 1) : Listed(q)[k] = Append(Listed(r), i)[k]
  <2> SUFFICES ASSUME NEW k \in 1..(Size(r) + 1)
               PROVE  Listed(q)[k] = Append(Listed(r), i)[k]
    OBVIOUS
  <2>1. Listed(q)[k] = f[Place(r.start, k)]
    BY <1>3, <1>4, <1>6, ListedRing
  <2>2. CASE k = Size(r) + 1
    BY <1>6, <1>7, <2>1, <2>2, RingType
  <2>3. CASE k # Size(r) + 1
    <3>1. k \in 1..Size(r) /\ k \in Places /\ k > 0
      BY <1>0, <1>5, <2>3 DEF Places
    <3>2. Place(r.start, k) \in Places /\ Place(r.start, k) # r.end
      BY <1>6, <3>1, Modulo, RingType
    <3>3. f[Place(r.start, k)] = r.indices[Place(r.start, k)]
      BY <3>2, RingType
    <3> QED
      BY <1>7, <2>1, <3>1, <3>3, ListedRing
  <2> QED
    BY <2>2, <2>3
<1>9. Listed(q) = Append(Listed(r), i)
  <2>1. Listed(q) \in Seq(Images) /\ Len(Listed(q)) = Size(r) + 1
    BY <1>4, <1>6, ListedRing
  <2> QED
    BY <1>7, <1>8, <2>1, SeqEqual
<1> QED
  BY <1>4, <1>9 DEF q

-----------------------------------------------------------------------------
(* Who has each image.                                                     *)

\* A call that takes an image away from the fifo, or from the application, and then
\* fails, loses the session.
LosingFailures == Recoverable \intersect {"wait", "release"} = {}

Once(s) == \A i, j \in 1..Len(s) : s[i] = s[j] => i = j

\* The types of what the image calls keep; a slot that is in use holds an image.
ImageTypes ==
  /\ vulkan \in BOOLEAN /\ is_static \in BOOLEAN /\ has_lost \in BOOLEAN
  /\ ending \in BOOLEAN
  /\ fifo \in Ring /\ acquired_fifo \in Ring
  /\ image_state \in [Images -> {"READY", "ACQUIRED", "WAITED"}]
  /\ acquired_num \in 0..ImageCount
  /\ inflight \in Slot /\ released \in Slot
  /\ inflight.yes => inflight.index \in Images
  /\ released.yes => released.index \in Images

\* An image in the fifo is ready, one in the application's fifo is acquired, and each
\* is there once.
Queued ==
  /\ Once(Listed(fifo)) /\ Once(Listed(acquired_fifo))
  /\ \A i \in Images :
       /\ i \in Elements(Listed(fifo)) <=> i < Count /\ image_state[i] = "READY"
       /\ i \in Elements(Listed(acquired_fifo)) <=> image_state[i] = "ACQUIRED"
       /\ image_state[i] # "READY" => i < Count

\* The slots of the state tracker.
Slots ==
  /\ \A i \in Images : image_state[i] = "WAITED" <=> inflight.yes /\ inflight.index = i
  /\ released.yes => image_state[released.index] = "READY"

\* The counts.
Counted ==
  /\ acquired_num = Len(Listed(acquired_fifo)) + (IF inflight.yes THEN 1 ELSE 0)
  /\ acquired_num + Len(Listed(fifo)) = Count

ImageInv == ImageTypes /\ (~has_lost => Queued /\ Slots /\ Counted)

\* What is left of a sequence without repetitions when its first element is taken.
LEMMA TailOnce ==
  ASSUME NEW s \in Seq(Images), s # <<>>, Once(s)
  PROVE  /\ Tail(s) \in Seq(Images) /\ Len(Tail(s)) = Len(s) - 1 /\ Once(Tail(s))
         /\ Head(s) \in Images
         /\ \A i : i \in Elements(Tail(s)) <=> i \in Elements(s) /\ i # Head(s)
         /\ Head(s) \in Elements(s)
         /\ Len(s) \in Nat \ {0}
<1>1. /\ Tail(s) \in Seq(Images) /\ Len(Tail(s)) = Len(s) - 1 /\ Len(s) \in Nat \ {0}
      /\ Head(s) = s[1] /\ Head(s) \in Images
  BY EmptySeq
<1>2. \A k \in 1..(Len(s) - 1) : Tail(s)[k] = s[k + 1]
  BY <1>1
<1>3. Once(Tail(s))
  BY <1>1, <1>2 DEF Once
<1>4. DOMAIN s = 1..Len(s) /\ DOMAIN Tail(s) = 1..(Len(s) - 1)
  BY <1>1
<1>5. Head(s) \in Elements(s)
  BY <1>1, <1>4 DEF Elements
<1>6. ASSUME NEW i PROVE i \in Elements(Tail(s)) <=> i \in Elements(s) /\ i # Head(s)
  <2>1. ASSUME i \in Elements(Tail(s)) PROVE i \in Elements(s) /\ i # Head(s)
    <3>1. PICK k \in 1..(Len(s) - 1) : i = Tail(s)[k]
      BY <1>4, <2>1 DEF Elements
    <3>2. i = s[k + 1] /\ k + 1 \in 1..Len(s) /\ 1 \in 1..Len(s) /\ k + 1 # 1
      BY <1>1, <1>2, <3>1
    <3>3. s[k + 1] # s[1]
      BY <3>2 DEF Once
    <3> QED
      BY <1>1, <1>4, <3>2, <3>3 DEF Elements
  <2>2. ASSUME i \in Elements(s), i # Head(s) PROVE i \in Elements(Tail(s))
    <3>1. PICK k \in 1..Len(s) : i = s[k]
      BY <1>4, <2>2 DEF Elements
    <3>2. k # 1
      BY <1>1, <2>2, <3>1
    <3>3. k - 1 \in 1..(Len(s) - 1) /\ (k - 1) + 1 = k
      BY <1>1, <3>1, <3>2
    <3>4. i = Tail(s)[k - 1]
      BY <1>2, <3>1, <3>3
    <3> QED
      BY <1>4, <3>3, <3>4 DEF Elements
  <2> QED
    BY <2>1, <2>2
<1> QED
  BY <1>1, <1>3, <1>5, <1>6

\* What an image that is not in the sequence makes of it at its end.
LEMMA AppendOnce ==
  ASSUME NEW s \in Seq(Images), NEW x \in Images, x \notin Elements(s), Once(s)
  PROVE  /\ Append(s, x) \in Seq(Images) /\ Len(Append(s, x)) = Len(s) + 1
         /\ Once(Append(s, x))
         /\ \A i : i \in Elements(Append(s, x)) <=> i \in Elements(s) \/ i = x
         /\ Len(s) \in Nat
<1> DEFINE t == Append(s, x)
<1>1. /\ t \in Seq(Images) /\ Len(t) = Len(s) + 1 /\ Len(s) \in Nat
      /\ t[Len(s) + 1] = x
  OBVIOUS
<1>2. \A k \in 1..Len(s) : t[k] = s[k]
  OBVIOUS
<1> HIDE DEF t
<1>4. DOMAIN s = 1..Len(s) /\ DOMAIN t = 1..(Len(s) + 1)
  BY <1>1
<1>5. \A k \in 1..Len(s) : s[k] # x
  BY <1>4 DEF Elements
<1>3. Once(t)
  <2> SUFFICES ASSUME NEW i \in 1..(Len(s) + 1), NEW j \in 1..(Len(s) + 1), t[i] = t[j]
               PROVE  i = j
    BY <1>1 DEF Once
  <2>1. i = Len(s) + 1 \/ i \in 1..Len(s)
    BY <1>1
  <2>2. j = Len(s) + 1 \/ j \in 1..Len(s)
    BY <1>1
  <2> QED
    BY <1>1, <1>2, <1>5, <2>1, <2>2 DEF Once
<1>6. ASSUME NEW i PROVE i \in Elements(t) <=> i \in Elements(s) \/ i = x
  <2>1. 1..(Len(s) + 1) = (1..Len(s)) \union {Len(s) + 1}
    BY <1>1
  <2> QED
    BY <1>1, <1>2, <1>4, <2>1 DEF Elements
<1> QED
  BY <1>1, <1>3, <1>6 DEF t

\* Facts about the number of images of this swapchain.
LEMMA CountFacts ==
  ASSUME is_static \in BOOLEAN
  PROVE  Count \in 1..ImageCount /\ ImageCount \in Nat /\ MaxIndices \in Nat
         /\ Count < MaxIndices
BY ConstantsAssumption DEF Count

\* The part of ImageTypes that the image calls change.
BookTypes ==
  /\ fifo \in Ring /\ acquired_fifo \in Ring
  /\ image_state \in [Images -> {"READY", "ACQUIRED", "WAITED"}]
  /\ acquired_num \in 0..ImageCount
  /\ inflight \in Slot /\ released \in Slot
  /\ inflight.yes => inflight.index \in Images
  /\ released.yes => released.index \in Images

\* The first image of the fifo goes to the application.
LEMMA AcquireStep ==
  ASSUME ImageTypes, Queued, Slots, Counted, CommonAcquire, is_static' = is_static
  PROVE  BookTypes' /\ Queued' /\ Slots' /\ Counted'
<1> DEFINE F == Listed(fifo)
           A == Listed(acquired_fifo)
           x == Peek(fifo)
<1>1. /\ fifo \in Ring /\ acquired_fifo \in Ring /\ is_static \in BOOLEAN
      /\ image_state \in [Images -> {"READY", "ACQUIRED", "WAITED"}]
      /\ acquired_num \in 0..ImageCount /\ inflight \in Slot /\ released \in Slot
      /\ inflight.yes => inflight.index \in Images
      /\ released.yes => released.index \in Images
  BY DEF ImageTypes
<1>2. /\ acquired_num < Count /\ ~IsEmpty(fifo) /\ image_state[x] = "READY"
      /\ fifo' = Popped(fifo) /\ acquired_num' = acquired_num + 1
      /\ acquired_fifo' = Pushed(acquired_fifo, x)
      /\ image_state' = [image_state EXCEPT ![x] = "ACQUIRED"]
      /\ released' = IF released.index = x
                     THEN [yes |-> FALSE, index |-> NoImage] ELSE released
      /\ inflight' = inflight
  BY DEF CommonAcquire
<1>3. Count \in 1..ImageCount /\ ImageCount \in Nat /\ MaxIndices \in Nat
      /\ Count < MaxIndices /\ Count' = Count
  <2>1. Count' = Count
    BY DEF Count
  <2> QED
    BY <1>1, <2>1, CountFacts
<1>4. F \in Seq(Images) /\ F # <<>> /\ A \in Seq(Images)
      /\ Len(F) \in Nat /\ Len(A) \in Nat
  BY <1>1, <1>2, ListedRing
<1>5. Once(F) /\ Once(A)
  BY DEF Queued
<1>6. fifo' \in Ring /\ Listed(fifo') = Tail(F) /\ x = Head(F) /\ x \in Images
  BY <1>1, <1>2, <1>4, PoppedRing
<1>7. /\ acquired_num = Len(A) + (IF inflight.yes THEN 1 ELSE 0)
      /\ acquired_num + Len(F) = Count
  BY DEF Counted
<1>8. Len(A) < MaxIndices - 1
  BY <1>2, <1>3, <1>4, <1>7
<1>9. acquired_fifo' \in Ring /\ Listed(acquired_fifo') = Append(A, x)
  BY <1>1, <1>2, <1>6, <1>8, PushedRing
<1>10. x \notin Elements(A) /\ x \in Elements(F)
  BY <1>2, <1>4, <1>5, <1>6, TailOnce DEF Queued
<1>11. /\ Once(Tail(F)) /\ Len(Tail(F)) = Len(F) - 1
       /\ \A i : i \in Elements(Tail(F)) <=> i \in Elements(F) /\ i # x
  BY <1>4, <1>5, <1>6, TailOnce
<1>12. /\ Once(Append(A, x)) /\ Len(Append(A, x)) = Len(A) + 1
       /\ \A i : i \in Elements(Append(A, x)) <=> i \in Elements(A) \/ i = x
  BY <1>4, <1>5, <1>6, <1>10, AppendOnce
<1>13. image_state' \in [Images -> {"READY", "ACQUIRED", "WAITED"}]
       /\ image_state'[x] = "ACQUIRED"
       /\ \A i \in Images : i # x => image_state'[i] = image_state[i]
  BY <1>1, <1>2, <1>6
<1>14. /\ released' \in Slot
       /\ released'.yes => released' = released /\ released.yes /\ released.index # x
  <2>1. CASE released.index = x
    <3>1. released' = [yes |-> FALSE, index |-> NoImage]
      BY <1>2, <2>1
    <3> QED
      BY <3>1 DEF Slot
  <2>2. CASE released.index # x
    BY <1>1, <1>2, <2>2
  <2> QED
    BY <2>1, <2>2
<1>15. BookTypes'
  <2>1. acquired_num' \in 0..ImageCount
    BY <1>1, <1>2, <1>3
  <2> QED
    BY <1>1, <1>2, <1>6, <1>9, <1>13, <1>14, <2>1 DEF BookTypes
<1>16. \A i \in Images :
         /\ i \in Elements(F) <=> i < Count /\ image_state[i] = "READY"
         /\ i \in Elements(A) <=> image_state[i] = "ACQUIRED"
         /\ image_state[i] # "READY" => i < Count
  BY DEF Queued
<1> HIDE DEF F, A, x
<1>17. Queued'
  <2> SUFFICES ASSUME NEW i \in Images
               PROVE /\ i \in Elements(Tail(F)) <=> i < Count /\ image_state'[i] = "READY"
                     /\ i \in Elements(Append(A, x)) <=> image_state'[i] = "ACQUIRED"
                     /\ image_state'[i] # "READY" => i < Count
    BY <1>3, <1>6, <1>9, <1>11, <1>12 DEF Queued
  <2>1. CASE i = x
    BY <1>6, <1>10, <1>11, <1>12, <1>13, <1>16, <2>1
  <2>2. CASE i # x
    BY <1>11, <1>12, <1>13, <1>16, <2>2
  <2> QED
    BY <2>1, <2>2
<1>18. Slots'
  <2>1. \A i \in Images : image_state'[i] = "WAITED" <=> inflight'.yes /\ inflight'.index = i
    BY <1>2, <1>6, <1>13 DEF Slots
  <2>2. released'.yes => image_state'[released'.index] = "READY"
    BY <1>1, <1>13, <1>14 DEF Slots
  <2> QED
    BY <2>1, <2>2 DEF Slots
<1>19. Counted'
  <2>1. /\ acquired_num' = Len(Append(A, x)) + (IF inflight.yes THEN 1 ELSE 0)
        /\ acquired_num' + Len(Tail(F)) = Count
    BY SMTT(30), <1>1, <1>2, <1>3, <1>4, <1>7, <1>11, <1>12
  <2> QED
    BY <1>2, <1>3, <1>6, <1>9, <2>1 DEF Counted
<1> QED
  BY <1>15, <1>17, <1>18, <1>19

\* The first image of the application's fifo is waited for.
LEMMA WaitStep ==
  ASSUME ImageTypes, Queued, Slots, Counted, CommonWait, is_static' = is_static,
         ~inflight.yes, ~IsEmpty(acquired_fifo)
  PROVE  BookTypes' /\ Queued' /\ Slots' /\ Counted'
<1> DEFINE F == Listed(fifo)
           A == Listed(acquired_fifo)
           x == Peek(acquired_fifo)
<1>1. /\ fifo \in Ring /\ acquired_fifo \in Ring /\ is_static \in BOOLEAN
      /\ image_state \in [Images -> {"READY", "ACQUIRED", "WAITED"}]
      /\ acquired_num \in 0..ImageCount /\ released \in Slot
      /\ released.yes => released.index \in Images
  BY DEF ImageTypes
<1>2. /\ acquired_fifo' = Popped(acquired_fifo)
      /\ inflight' = [yes |-> TRUE, index |-> x]
      /\ image_state' = [image_state EXCEPT ![x] = "WAITED"]
      /\ fifo' = fifo /\ acquired_num' = acquired_num /\ released' = released
  BY DEF CommonWait
<1>3. Count' = Count
  BY DEF Count
<1>4. F \in Seq(Images) /\ A # <<>> /\ A \in Seq(Images)
      /\ Len(F) \in Nat /\ Len(A) \in Nat
  BY <1>1, ListedRing
<1>5. Once(F) /\ Once(A)
  BY DEF Queued
<1>6. acquired_fifo' \in Ring /\ Listed(acquired_fifo') = Tail(A) /\ x = Head(A)
      /\ x \in Images
  BY <1>1, <1>2, <1>4, PoppedRing
<1>7. acquired_num = Len(A) /\ acquired_num + Len(F) = Count
  BY <1>4 DEF Counted
<1>11. /\ Once(Tail(A)) /\ Len(Tail(A)) = Len(A) - 1 /\ x \in Elements(A)
       /\ \A i : i \in Elements(Tail(A)) <=> i \in Elements(A) /\ i # x
  BY <1>4, <1>5, <1>6, TailOnce
<1>13. image_state' \in [Images -> {"READY", "ACQUIRED", "WAITED"}]
       /\ image_state'[x] = "WAITED"
       /\ \A i \in Images : i # x => image_state'[i] = image_state[i]
  BY <1>1, <1>2, <1>6
<1>14. inflight' \in Slot /\ inflight'.yes = TRUE /\ inflight'.index = x
  BY <1>2, <1>6 DEF Slot
<1>15. BookTypes'
  BY <1>1, <1>2, <1>6, <1>13, <1>14 DEF BookTypes
<1>16. \A i \in Images :
         /\ i \in Elements(F) <=> i < Count /\ image_state[i] = "READY"
         /\ i \in Elements(A) <=> image_state[i] = "ACQUIRED"
         /\ image_state[i] # "READY" => i < Count
  BY DEF Queued
<1>17. image_state[x] = "ACQUIRED" /\ \A i \in Images : image_state[i] # "WAITED"
  BY <1>6, <1>11, <1>16 DEF Slots
<1> HIDE DEF F, A, x
<1>18. Queued'
  <2> SUFFICES ASSUME NEW i \in Images
               PROVE /\ i \in Elements(F) <=> i < Count /\ image_state'[i] = "READY"
                     /\ i \in Elements(Tail(A)) <=> image_state'[i] = "ACQUIRED"
                     /\ image_state'[i] # "READY" => i < Count
    BY <1>2, <1>3, <1>5, <1>6, <1>11 DEF Queued, F
  <2>1. CASE i = x
    BY <1>6, <1>11, <1>13, <1>16, <1>17, <2>1
  <2>2. CASE i # x
    BY <1>11, <1>13, <1>16, <2>2
  <2> QED
    BY <2>1, <2>2
<1>19. Slots'
  <2>1. \A i \in Images : image_state'[i] = "WAITED" <=> inflight'.yes /\ inflight'.index = i
    BY <1>13, <1>14, <1>17
  <2>2. released'.yes => image_state'[released'.index] = "READY"
    BY <1>1, <1>2, <1>13, <1>17 DEF Slots
  <2> QED
    BY <2>1, <2>2 DEF Slots
<1>20. Counted'
  <2>1. acquired_num' = Len(Tail(A)) + 1 /\ acquired_num' + Len(F) = Count
    BY <1>2, <1>4, <1>7, <1>11
  <2> QED
    BY <1>2, <1>3, <1>6, <1>14, <2>1 DEF Counted, F
<1> QED
  BY <1>15, <1>18, <1>19, <1>20

\* The image waited for goes back to the compositor.
LEMMA ReleaseStep ==
  ASSUME ImageTypes, Queued, Slots, Counted, is_static' = is_static,
         inflight.yes, image_state[inflight.index] = "WAITED",
         inflight' = [yes |-> FALSE, index |-> NoImage],
         fifo' = Pushed(fifo, inflight.index),
         acquired_num' = acquired_num - 1,
         released' = inflight,
         image_state' = [image_state EXCEPT ![inflight.index] = "READY"],
         acquired_fifo' = acquired_fifo
  PROVE  /\ BookTypes' /\ Queued' /\ Slots' /\ Counted'
         /\ Listed(fifo') = Append(Listed(fifo), inflight.index)
<1> DEFINE F == Listed(fifo)
           A == Listed(acquired_fifo)
           x == inflight.index
<1>1. /\ fifo \in Ring /\ acquired_fifo \in Ring /\ is_static \in BOOLEAN
      /\ image_state \in [Images -> {"READY", "ACQUIRED", "WAITED"}]
      /\ acquired_num \in 0..ImageCount /\ inflight \in Slot /\ x \in Images
  BY DEF ImageTypes
<1>2. Count \in 1..ImageCount /\ ImageCount \in Nat /\ MaxIndices \in Nat
      /\ Count < MaxIndices /\ Count' = Count
  <2>1. Count' = Count
    BY DEF Count
  <2> QED
    BY <1>1, <2>1, CountFacts
<1>3. F \in Seq(Images) /\ A \in Seq(Images) /\ Len(F) \in Nat /\ Len(A) \in Nat
  BY <1>1, ListedRing
<1>4. Once(F) /\ Once(A)
  BY DEF Queued
<1>5. acquired_num = Len(A) + 1 /\ acquired_num + Len(F) = Count
  BY DEF Counted
<1>6. Len(F) < MaxIndices - 1
  BY <1>2, <1>3, <1>5
<1>7. fifo' \in Ring /\ Listed(fifo') = Append(F, x)
  BY <1>1, <1>6, PushedRing
<1>8. \A i \in Images :
         /\ i \in Elements(F) <=> i < Count /\ image_state[i] = "READY"
         /\ i \in Elements(A) <=> image_state[i] = "ACQUIRED"
         /\ image_state[i] # "READY" => i < Count
  BY DEF Queued
<1>9. x \notin Elements(F) /\ x < Count
  BY <1>1, <1>8
<1>10. /\ Once(Append(F, x)) /\ Len(Append(F, x)) = Len(F) + 1
       /\ \A i : i \in Elements(Append(F, x)) <=> i \in Elements(F) \/ i = x
  BY <1>1, <1>3, <1>4, <1>9, AppendOnce
<1>11. image_state' \in [Images -> {"READY", "ACQUIRED", "WAITED"}]
       /\ image_state'[x] = "READY"
       /\ \A i \in Images : i # x => image_state'[i] = image_state[i]
  BY <1>1
<1>12. inflight' \in Slot /\ inflight'.yes = FALSE /\ released'.index = x
  BY DEF Slot
<1>13. BookTypes'
  <2>1. acquired_num' \in 0..ImageCount
    BY <1>1, <1>2, <1>3, <1>5
  <2>2. acquired_fifo' \in Ring /\ released' \in Slot /\ released'.index \in Images
    BY <1>1
  <2> QED
    BY <1>7, <1>11, <1>12, <2>1, <2>2 DEF BookTypes
<1>14. \A i \in Images : image_state[i] = "WAITED" <=> x = i
  BY DEF Slots
<1> HIDE DEF F, A, x
<1>15. Queued'
  <2> SUFFICES ASSUME NEW i \in Images
               PROVE /\ i \in Elements(Append(F, x)) <=> i < Count /\ image_state'[i] = "READY"
                     /\ i \in Elements(A) <=> image_state'[i] = "ACQUIRED"
                     /\ image_state'[i] # "READY" => i < Count
    BY <1>2, <1>4, <1>7, <1>10 DEF Queued, A
  <2>1. CASE i = x
    BY <1>1, <1>8, <1>9, <1>10, <1>11, <1>14, <2>1
  <2>2. CASE i # x
    BY <1>8, <1>10, <1>11, <2>2
  <2> QED
    BY <2>1, <2>2
<1>16. Slots'
  <2>1. \A i \in Images : image_state'[i] = "WAITED" <=> inflight'.yes /\ inflight'.index = i
    BY <1>11, <1>12, <1>14
  <2>2. image_state'[released'.index] = "READY"
    BY <1>11, <1>12
  <2> QED
    BY <2>1, <2>2 DEF Slots
<1>17. Counted'
  <2>1. acquired_num' = Len(A) + 0 /\ acquired_num' + Len(Append(F, x)) = Count
    BY <1>3, <1>5, <1>10
  <2> QED
    BY <1>2, <1>7, <1>12, <2>1 DEF Counted, A
<1> QED
  BY <1>7, <1>13, <1>15, <1>16, <1>17 DEF F, x

\* Nothing of the book changes.
LEMMA BookUnchanged ==
  ASSUME UNCHANGED <<imageVars, is_static>>
  PROVE  /\ ImageTypes => BookTypes'
         /\ Queued /\ Slots /\ Counted => Queued' /\ Slots' /\ Counted'
<1>1. ImageTypes => BookTypes'
  BY DEF ImageTypes, BookTypes
<1>2. Count' = Count
  BY DEF Count
<1>3. Listed(fifo)' = Listed(fifo) /\ Listed(acquired_fifo)' = Listed(acquired_fifo)
  BY DEF Listed
<1>4. Queued => Queued'
  BY <1>2, <1>3 DEF Queued
<1>5. Slots => Slots'
  BY DEF Slots
<1>6. Counted => Counted'
  BY <1>2, <1>3 DEF Counted
<1> QED
  BY <1>1, <1>4, <1>5, <1>6

\* The first states.
LEMMA ImageInit ==
  ASSUME Init
  PROVE  /\ ImageInv
         /\ Listed(fifo) = [i \in 1..Count |-> i - 1]
         /\ Listed(acquired_fifo) = <<>>
<1>1. is_static \in BOOLEAN /\ vulkan \in BOOLEAN /\ has_lost = FALSE /\ ending = FALSE
  BY DEF Init
<1>2. /\ fifo = [indices |-> [k \in 0..(MaxIndices - 1) |-> IF k < Count THEN k ELSE 0],
                 start |-> 0, end |-> Count]
      /\ acquired_fifo = EmptyRing
      /\ image_state = [i \in Images |-> "READY"] /\ acquired_num = 0
      /\ inflight = [yes |-> FALSE, index |-> 0]
      /\ released = [yes |-> FALSE, index |-> 0]
  BY DEF Init
<1>3. Count \in 1..ImageCount /\ ImageCount \in Nat /\ MaxIndices \in Nat
      /\ Count < MaxIndices /\ 0 \in Images
  BY <1>1, CountFacts DEF Images
<1>4. fifo \in Ring
  <2>1. [k \in 0..(MaxIndices - 1) |-> IF k < Count THEN k ELSE 0]
          \in [0..(MaxIndices - 1) -> Images]
    BY <1>3 DEF Images
  <2> QED
    BY <1>2, <1>3, <2>1 DEF Ring
<1>5. acquired_fifo \in Ring
  <2>1. [k \in 0..(MaxIndices - 1) |-> 0] \in [0..(MaxIndices - 1) -> Images]
    BY <1>3
  <2> QED
    BY <1>2, <1>3, <2>1 DEF Ring, EmptyRing
<1>6. Listed(acquired_fifo) = <<>>
  <2>1. IsEmpty(acquired_fifo)
    BY <1>2 DEF IsEmpty, EmptyRing
  <2> QED
    BY <1>5, <2>1, ListedRing
<1>7. Listed(fifo) \in Seq(Images) /\ Len(Listed(fifo)) = Count
      /\ \A k \in 1..Count : Listed(fifo)[k] = k - 1
  <2>1. Size(fifo) = Count
    BY <1>2, <1>3 DEF Size, Distance
  <2>2. ASSUME NEW k \in 1..Count PROVE Listed(fifo)[k] = k - 1
    <3>1. Listed(fifo)[k] = fifo.indices[Place(fifo.start, k)]
      BY <1>4, <2>1, ListedRing
    <3>2. Place(fifo.start, k) = k - 1
      BY <1>2, <1>3 DEF Place
    <3>3. k - 1 \in 0..(MaxIndices - 1) /\ k - 1 < Count
      BY <1>3
    <3> QED
      BY <1>2, <3>1, <3>2, <3>3
  <2> QED
    BY <1>4, <2>1, <2>2, ListedRing
<1>8. Listed(fifo) = [i \in 1..Count |-> i - 1]
  BY <1>3, <1>7
<1>9. Queued
  <2>1. Once(Listed(fifo)) /\ Once(Listed(acquired_fifo))
    BY <1>3, <1>6, <1>7 DEF Once
  <2>2. ASSUME NEW i \in Images
        PROVE /\ i \in Elements(Listed(fifo)) <=> i < Count
              /\ i \notin Elements(Listed(acquired_fifo))
    <3>1. i \in Elements(Listed(fifo)) => i < Count
      BY <1>3, <1>7 DEF Elements
    <3>2. i < Count => i + 1 \in 1..Count /\ Listed(fifo)[i + 1] = i
      BY <1>3, <1>7 DEF Images
    <3>3. i < Count => i \in Elements(Listed(fifo))
      BY <1>3, <1>7, <3>2 DEF Elements
    <3>4. i \notin Elements(Listed(acquired_fifo))
      BY <1>6 DEF Elements
    <3> QED
      BY <3>1, <3>3, <3>4
  <2> QED
    BY <1>2, <2>1, <2>2 DEF Queued
<1>10. Slots
  BY <1>2 DEF Slots
<1>11. Counted
  BY <1>2, <1>3, <1>6, <1>7 DEF Counted
<1>12. ImageTypes
  <2>1. inflight \in Slot /\ released \in Slot /\ ~inflight.yes /\ ~released.yes
    BY <1>2, <1>3 DEF Slot
  <2>2. image_state \in [Images -> {"READY", "ACQUIRED", "WAITED"}]
    BY <1>2
  <2>3. acquired_num \in 0..ImageCount
    BY <1>2, <1>3
  <2>4. has_lost \in BOOLEAN /\ ending \in BOOLEAN
    BY <1>1
  <2> QED
    BY <1>1, <1>4, <1>5, <2>1, <2>2, <2>3, <2>4 DEF ImageTypes
<1> QED
  BY <1>6, <1>8, <1>9, <1>10, <1>11, <1>12 DEF ImageInv

\* A call that fails loses the session, or is one that may fail without.
LEMMA FailsFacts ==
  ASSUME NEW c, Fails(c), ~has_lost, has_lost \in BOOLEAN
  PROVE  /\ has_lost' \in BOOLEAN
         /\ ~has_lost' => c \in Recoverable
BY DEF Fails

\* Every step keeps the book.
LEMMA ImageStep ==
  ASSUME LosingFailures, ImageInv, [Next]_vars
  PROVE  ImageInv'
<1>0. ImageTypes /\ has_lost \in BOOLEAN
  BY DEF ImageInv, ImageTypes
<1>1. ASSUME Acquire PROVE ImageInv'
  <2>1. /\ ~has_lost /\ UNCHANGED <<vulkan, is_static, ending>>
        /\ Queued /\ Slots /\ Counted
    BY <1>1 DEF Acquire, Call, ImageInv
  <2>2. has_lost' \in BOOLEAN
    BY <1>0, <1>1, <2>1, FailsFacts DEF Acquire
  <2>3. CommonAcquire \/ UNCHANGED imageVars
    BY <1>1 DEF Acquire
  <2>4. BookTypes' /\ Queued' /\ Slots' /\ Counted'
    BY <1>0, <2>1, <2>3, AcquireStep, BookUnchanged
  <2> QED
    BY <1>0, <2>1, <2>2, <2>4 DEF ImageInv, ImageTypes, BookTypes
<1>2. ASSUME Wait PROVE ImageInv'
  <2>1. /\ ~has_lost /\ UNCHANGED <<vulkan, is_static, ending>>
        /\ ~inflight.yes /\ ~IsEmpty(acquired_fifo)
        /\ Queued /\ Slots /\ Counted
    BY <1>2 DEF Wait, Call, ImageInv
  <2>2. has_lost' \in BOOLEAN
    BY <1>0, <1>2, <2>1, FailsFacts DEF Wait
  <2>3. CASE CommonWait
    <3>1. BookTypes' /\ Queued' /\ Slots' /\ Counted'
      BY <1>0, <2>1, <2>3, WaitStep
    <3> QED
      BY <1>0, <2>1, <2>2, <3>1 DEF ImageInv, ImageTypes, BookTypes
  <2>4. CASE /\ Fails("wait") /\ acquired_fifo' = Popped(acquired_fifo)
             /\ UNCHANGED <<fifo, image_state, acquired_num, inflight, released>>
    <3>1. has_lost'
      BY <1>0, <2>1, <2>4, FailsFacts DEF LosingFailures
    <3>2. acquired_fifo' \in Ring
      BY <1>0, <2>1, <2>4, ListedRing, PoppedRing DEF ImageTypes
    <3> QED
      BY <1>0, <2>1, <2>2, <2>4, <3>1, <3>2 DEF ImageInv, ImageTypes
  <2> QED
    BY <1>2, <2>3, <2>4 DEF Wait
<1>3. ASSUME Release PROVE ImageInv'
  <2>1. /\ ~has_lost /\ UNCHANGED <<vulkan, is_static, ending>>
        /\ inflight.yes /\ image_state[inflight.index] = "WAITED"
        /\ Queued /\ Slots /\ Counted
    BY <1>3 DEF Release, Call, ImageInv
  <2>2. has_lost' \in BOOLEAN
    BY <1>0, <1>3, <2>1, FailsFacts DEF Release, CommonRelease
  <2>3. CASE UNCHANGED imageVars
    <3>1. BookTypes' /\ Queued' /\ Slots' /\ Counted'
      BY <1>0, <2>1, <2>3, BookUnchanged
    <3> QED
      BY <1>0, <2>1, <2>2, <3>1 DEF ImageInv, ImageTypes, BookTypes
  <2>4. CASE /\ inflight' = [yes |-> FALSE, index |-> NoImage]
             /\ fifo' = Pushed(fifo, inflight.index)
             /\ acquired_num' = acquired_num - 1
             /\ released' = inflight
             /\ image_state' = [image_state EXCEPT ![inflight.index] = "READY"]
             /\ acquired_fifo' = acquired_fifo
    <3>1. BookTypes' /\ Queued' /\ Slots' /\ Counted'
      BY <1>0, <2>1, <2>4, ReleaseStep
    <3> QED
      BY <1>0, <2>1, <2>2, <3>1 DEF ImageInv, ImageTypes, BookTypes
  <2>5. CASE /\ inflight' = [yes |-> FALSE, index |-> NoImage] /\ Fails("release")
             /\ UNCHANGED <<fifo, image_state, acquired_num, acquired_fifo, released>>
    <3>1. has_lost'
      BY <1>0, <2>1, <2>5, FailsFacts DEF LosingFailures
    <3>2. inflight' \in Slot /\ ~inflight'.yes
      BY <2>5 DEF Slot
    <3> QED
      BY <1>0, <2>1, <2>2, <2>5, <3>1, <3>2 DEF ImageInv, ImageTypes
  <2> QED
    BY <1>3, <2>3, <2>4, <2>5 DEF Release, CommonRelease
<1>4. ASSUME UNCHANGED <<imageVars, is_static, vulkan, has_lost>>, ending' \in BOOLEAN
      PROVE  ImageInv'
  <2>1. BookTypes' /\ (~has_lost => Queued' /\ Slots' /\ Counted')
    BY <1>0, <1>4, BookUnchanged DEF ImageInv
  <2> QED
    BY <1>0, <1>4, <2>1 DEF ImageInv, ImageTypes, BookTypes
<1>5. ending \in BOOLEAN
  BY <1>0 DEF ImageTypes
<1>6. ASSUME EndFrameVerify PROVE ImageInv'
  BY <1>4, <1>6 DEF EndFrameVerify
<1>7. ASSUME EndFrameSubmit PROVE ImageInv'
  BY <1>4, <1>7 DEF EndFrameSubmit
<1>8. ASSUME RetireLayer PROVE ImageInv'
  BY <1>4, <1>5, <1>8 DEF RetireLayer
<1>9. ASSUME Destroy PROVE ImageInv'
  BY <1>4, <1>5, <1>9 DEF Destroy
<1>10. ASSUME GarbageCollect PROVE ImageInv'
  BY <1>4, <1>5, <1>10 DEF GarbageCollect
<1>11. ASSUME UNCHANGED vars PROVE ImageInv'
  BY <1>4, <1>5, <1>11 DEF vars
<1> QED
  BY <1>1, <1>2, <1>3, <1>6, <1>7, <1>8, <1>9, <1>10, <1>11 DEF Next

\* The invariant says what the runs check.
LEMMA ImageSound ==
  ASSUME ImageInv, RefsInv
  PROVE  ImagesAreSound
<1>0. ImageTypes
  BY DEF ImageInv
<1>1. TypeOK
  <2>1. refs \in 0..(MaxLayers + 1)
    <3>1. Len(layers) \in Nat /\ Len(layers) <= MaxLayers /\ MaxLayers \in Nat
      BY ConstantsAssumption DEF RefsInv
    <3>2. refs = Len(layers) + 1 \/ refs = Len(layers) \/ refs = 0
      BY DEF RefsInv
    <3> QED
      BY <3>1, <3>2
  <2>2. {vulkan, is_static, has_lost, ending} \subseteq BOOLEAN
    BY <1>0 DEF ImageTypes
  <2> QED
    BY <1>0, <2>1, <2>2 DEF TypeOK, ImageTypes, RefsInv
<1>2. ReleasedIsReady
  BY DEF ReleasedIsReady, ImageInv, Slots
<1>3. ASSUME ~has_lost
      PROVE  /\ Elements(Listed(fifo)) =
                  {i \in 0..(Count - 1) : image_state[i] = "READY"}
             /\ Elements(Listed(acquired_fifo)) =
                  {i \in Images : image_state[i] = "ACQUIRED"}
             /\ {i \in Images : image_state[i] = "WAITED"} =
                  IF inflight.yes THEN {inflight.index} ELSE {}
  <2>0. Queued /\ Slots
    BY <1>3 DEF ImageInv
  <2>1. Count \in 1..ImageCount /\ ImageCount \in Nat
    BY <1>0, CountFacts DEF ImageTypes
  <2>2. Listed(fifo) \in Seq(Images) /\ Listed(acquired_fifo) \in Seq(Images)
    BY <1>0, ListedRing DEF ImageTypes
  <2>3. Elements(Listed(fifo)) \subseteq Images /\ Elements(Listed(acquired_fifo)) \subseteq Images
    <3>1. \A s \in Seq(Images) : Elements(s) \subseteq Images
      BY DEF Elements
    <3> QED
      BY <2>2, <3>1
  <2>4. \A i : i \in 0..(Count - 1) <=> i \in Images /\ i < Count
    BY <2>1 DEF Images
  <2>5. Elements(Listed(fifo)) = {i \in 0..(Count - 1) : image_state[i] = "READY"}
    BY <2>0, <2>3, <2>4 DEF Queued
  <2>6. Elements(Listed(acquired_fifo)) = {i \in Images : image_state[i] = "ACQUIRED"}
    BY <2>0, <2>3 DEF Queued
  <2>7. {i \in Images : image_state[i] = "WAITED"} =
          IF inflight.yes THEN {inflight.index} ELSE {}
    <3>1. CASE inflight.yes
      BY <1>0, <2>0, <3>1 DEF Slots, ImageTypes
    <3>2. CASE ~inflight.yes
      BY <2>0, <3>2 DEF Slots
    <3> QED
      BY <3>1, <3>2
  <2> QED
    BY <2>5, <2>6, <2>7
<1>4. ImagesAccounted
  BY <1>3 DEF ImagesAccounted, ImageInv, Counted
<1> QED
  BY <1>1, <1>2, <1>4 DEF ImagesAreSound

\* What is needed to know that the index of a layer is an image or none; it holds
\* whatever fails.
IndexTypes ==
  /\ fifo \in Ring /\ acquired_fifo \in Ring
  /\ inflight \in Slot /\ released \in Slot
  /\ inflight.yes => inflight.index \in Images

\* Every step keeps it.
LEMMA IndexStep ==
  ASSUME IndexTypes, [Next]_vars
  PROVE  IndexTypes'
<1>1. /\ [yes |-> FALSE, index |-> NoImage] \in Slot
      /\ ~[yes |-> FALSE, index |-> NoImage].yes
      /\ \A i \in Images : /\ [yes |-> TRUE, index |-> i] \in Slot
                           /\ [yes |-> TRUE, index |-> i].index = i
  BY DEF Slot
<1>2. ASSUME UNCHANGED imageVars PROVE IndexTypes'
  BY <1>2 DEF IndexTypes
<1>3. ASSUME CommonAcquire PROVE IndexTypes'
  BY <1>1, <1>3, PoppedType, PushedType DEF CommonAcquire, IndexTypes
<1>4. ASSUME Wait PROVE IndexTypes'
  <2>1. /\ acquired_fifo' = Popped(acquired_fifo)
        /\ UNCHANGED <<fifo, released>>
        /\ inflight' = inflight \/ inflight' = [yes |-> TRUE, index |-> Peek(acquired_fifo)]
    BY <1>4 DEF Wait, CommonWait
  <2> QED
    BY <1>1, <2>1, PoppedType DEF IndexTypes
<1>5. ASSUME Release PROVE IndexTypes'
  <2>1. CASE UNCHANGED imageVars
    BY <1>2, <2>1
  <2>2. CASE CommonRelease
    <3>1. /\ inflight' = [yes |-> FALSE, index |-> NoImage] /\ acquired_fifo' = acquired_fifo
          /\ fifo' = fifo \/ fifo' = Pushed(fifo, inflight.index)
          /\ released' = released \/ released' = inflight
          /\ inflight.yes
      BY <1>5, <2>2 DEF CommonRelease, Release
    <3> QED
      BY <1>1, <3>1, PushedType DEF IndexTypes
  <2> QED
    BY <1>5, <2>1, <2>2 DEF Release
<1> QED
  BY <1>2, <1>3, <1>4, <1>5 DEF Next, Acquire, EndFrameVerify, EndFrameSubmit, RetireLayer,
     Destroy, GarbageCollect, vars

\* Both hold at first.
LEMMA RefsInit ==
  ASSUME Init
  PROVE  RefsInv /\ IndexTypes
<1>1. ImageTypes
  BY ImageInit DEF ImageInv
<1>2. IndexTypes
  BY <1>1 DEF ImageTypes, IndexTypes
<1>3. MaxLayers \in Nat
  BY ConstantsAssumption
<1> QED
  BY <1>2, <1>3 DEF Init, RefsInv

\* The compositor's swapchain is destroyed only after the application has dropped it
\* and the compositor has retired every layer that refers to it, whatever calls fail,
\* and with or without losing the session.
THEOREM DestroyedHolds == Spec => []DestroyedUnused
<1>1. Init => RefsInv /\ IndexTypes
  BY RefsInit
<1>2. RefsInv /\ IndexTypes /\ [Next]_vars => RefsInv' /\ IndexTypes'
  <2> SUFFICES ASSUME RefsInv, IndexTypes, [Next]_vars PROVE RefsInv' /\ IndexTypes'
    OBVIOUS
  <2>1. released.index \in Images \union {NoImage}
    BY DEF IndexTypes, Slot
  <2> QED
    BY <2>1, RefsStep, IndexStep
<1>3. RefsInv => DestroyedUnused
  BY DEF RefsInv, DestroyedUnused
<1> QED
  BY <1>1, <1>2, <1>3, PTL DEF Spec

\* As long as the session is not lost each image is in exactly one place, the one its
\* state says, acquired_num counts those of the application, and the image a layer may
\* show is ready: for any number of images, when a wait or a release that fails loses
\* the session.
THEOREM ImagesHold ==
  ASSUME LosingFailures
  PROVE  Spec => []ImagesAreSound
<1>1. Init => RefsInv /\ ImageInv
  BY RefsInit, ImageInit
<1>2. RefsInv /\ ImageInv /\ [Next]_vars => RefsInv' /\ ImageInv'
  <2> SUFFICES ASSUME RefsInv, ImageInv, [Next]_vars PROVE RefsInv' /\ ImageInv'
    OBVIOUS
  <2>1. released.index \in Images \union {NoImage}
    BY DEF ImageInv, ImageTypes, Slot
  <2> QED
    BY <2>1, RefsStep, ImageStep
<1>3. RefsInv /\ ImageInv => ImagesAreSound
  BY ImageSound
<1> QED
  BY <1>1, <1>2, <1>3, PTL DEF Spec

-----------------------------------------------------------------------------
(* The abstract swapchain.                                                 *)

\* An image is not NoImage.
LEMMA ImageIsSome == ASSUME NEW i \in Images PROVE i # NoImage
BY DEF Images, NoImage

\* The images start in order.
LEMMA InitRefines == ASSUME Init PROVE Promise!Init
<1>1. /\ ~has_lost /\ has_lost = FALSE /\ is_static \in BOOLEAN
      /\ inflight = [yes |-> FALSE, index |-> 0] /\ released = [yes |-> FALSE, index |-> 0]
  BY DEF Init
<1>2. ~inflight.yes /\ ~released.yes
  BY <1>1
<1>3. Count \in {1, ImageCount}
  BY <1>1 DEF Count
<1>4. \E n \in {1, ImageCount} : Listed(fifo) = [i \in 1..n |-> i - 1]
  BY <1>3, ImageInit
<1> QED
  BY <1>1, <1>2, <1>4, ImageInit DEF Promise!Init

\* An acquisition that keeps the session is one of the abstract swapchain.
LEMMA AcquireRefines ==
  ASSUME ImageInv, CommonAcquire, has_lost = FALSE, has_lost' = FALSE, is_static' = is_static
  PROVE  Promise!Acquire
<1> DEFINE x == Peek(fifo)
<1>1. /\ fifo \in Ring /\ acquired_fifo \in Ring /\ is_static \in BOOLEAN
      /\ released.yes => released.index \in Images
  BY DEF ImageInv, ImageTypes
<1>2. /\ acquired_num < Count /\ ~IsEmpty(fifo) /\ fifo' = Popped(fifo)
      /\ acquired_fifo' = Pushed(acquired_fifo, x)
      /\ released' = IF released.index = x
                     THEN [yes |-> FALSE, index |-> NoImage] ELSE released
      /\ inflight' = inflight
  BY DEF CommonAcquire
<1>3. Listed(fifo) # <<>>
  BY <1>1, <1>2, ListedRing
<1>4. Listed(fifo') = Tail(Listed(fifo)) /\ x = Head(Listed(fifo)) /\ x \in Images
  BY <1>1, <1>2, <1>3, PoppedRing
<1>5. Len(Listed(acquired_fifo)) < MaxIndices - 1
  <2>1. acquired_num = Len(Listed(acquired_fifo)) + (IF inflight.yes THEN 1 ELSE 0)
    BY DEF ImageInv, Counted
  <2>2. Len(Listed(acquired_fifo)) \in Nat
    BY <1>1, ListedRing
  <2>3. Count \in 1..ImageCount /\ ImageCount \in Nat /\ MaxIndices \in Nat
        /\ Count < MaxIndices
    BY <1>1, CountFacts
  <2> QED
    BY <1>2, <2>1, <2>2, <2>3
<1>6. Listed(acquired_fifo') = Append(Listed(acquired_fifo), x)
  BY <1>1, <1>2, <1>4, <1>5, PushedRing
<1> HIDE DEF x
<1>7. (IF released'.yes THEN released'.index ELSE NoImage) =
        IF (IF released.yes THEN released.index ELSE NoImage) = x
        THEN NoImage ELSE IF released.yes THEN released.index ELSE NoImage
  <2>1. x # NoImage
    BY <1>4, ImageIsSome
  <2>2. CASE released.index = x
    <3>1. ~released'.yes
      BY <1>2, <2>2
    <3> QED
      BY <2>1, <2>2, <3>1
  <2>3. CASE released.index # x
    BY <1>2, <2>1, <2>3
  <2> QED
    BY <2>2, <2>3
<1> QED
  BY <1>2, <1>3, <1>4, <1>6, <1>7 DEF Promise!Acquire

\* So is a wait ...
LEMMA WaitRefines ==
  ASSUME ImageInv, CommonWait, has_lost = FALSE, has_lost' = FALSE,
         ~inflight.yes, ~IsEmpty(acquired_fifo)
  PROVE  Promise!Wait
<1> DEFINE x == Peek(acquired_fifo)
<1>1. acquired_fifo \in Ring
  BY DEF ImageInv, ImageTypes
<1>2. /\ acquired_fifo' = Popped(acquired_fifo)
      /\ inflight' = [yes |-> TRUE, index |-> x]
      /\ fifo' = fifo /\ released' = released
  BY DEF CommonWait
<1>3. Listed(acquired_fifo) # <<>>
  BY <1>1, ListedRing
<1>4. Listed(acquired_fifo') = Tail(Listed(acquired_fifo))
      /\ x = Head(Listed(acquired_fifo))
  BY <1>1, <1>2, <1>3, PoppedRing
<1>5. inflight'.yes /\ inflight'.index = x
  BY <1>2
<1> QED
  BY <1>2, <1>3, <1>4, <1>5 DEF Promise!Wait

\* ... and a release.
LEMMA ReleaseRefines ==
  ASSUME ImageInv, has_lost = FALSE, has_lost' = FALSE, is_static' = is_static,
         inflight.yes, image_state[inflight.index] = "WAITED",
         inflight' = [yes |-> FALSE, index |-> NoImage],
         fifo' = Pushed(fifo, inflight.index),
         acquired_num' = acquired_num - 1,
         released' = inflight,
         image_state' = [image_state EXCEPT ![inflight.index] = "READY"],
         acquired_fifo' = acquired_fifo
  PROVE  Promise!Release
<1>1. Listed(fifo') = Append(Listed(fifo), inflight.index)
  BY ReleaseStep DEF ImageInv
<1>2. inflight.index # NoImage
  BY ImageIsSome DEF ImageInv, ImageTypes
<1>3. ~inflight'.yes /\ released'.yes /\ released'.index = inflight.index
  OBVIOUS
<1> QED
  BY <1>1, <1>2, <1>3 DEF Promise!Release

\* Losing the session loses the images.
LEMMA LoseRefines ==
  ASSUME ~has_lost, has_lost' = TRUE
  PROVE  Promise!Lose
BY DEF Promise!Lose

\* A step that leaves the images alone, or comes after the session was lost.
LEMMA StutterRefines ==
  ASSUME has_lost' = has_lost, has_lost \in BOOLEAN,
         has_lost \/ UNCHANGED <<fifo, acquired_fifo, inflight, released>>
  PROVE  UNCHANGED Promise!vars
<1>1. CASE has_lost
  BY <1>1 DEF Promise!vars
<1>2. CASE ~has_lost
  BY <1>2 DEF Promise!vars
<1> QED
  BY <1>1, <1>2

\* Every step is one of the abstract swapchain or leaves it alone.
LEMMA StepRefines ==
  ASSUME LosingFailures, ImageInv, [Next]_vars
  PROVE  [Promise!Next]_(Promise!vars)
<1>0. has_lost \in BOOLEAN
  BY DEF ImageInv, ImageTypes
<1>1. ASSUME Acquire PROVE [Promise!Next]_(Promise!vars)
  <2>1. ~has_lost /\ is_static' = is_static
    BY <1>1 DEF Acquire, Call
  <2>2. CASE has_lost'
    <3>1. has_lost' = TRUE
      BY <1>0, <1>1, <2>1, <2>2 DEF Acquire, Fails
    <3> QED
      BY <2>1, <3>1, LoseRefines DEF Promise!Next
  <2>3. CASE ~has_lost'
    <3>1. has_lost' = FALSE /\ has_lost = FALSE
      BY <1>0, <1>1, <2>1, <2>3 DEF Acquire, Fails
    <3>2. CASE CommonAcquire
      BY <2>1, <3>1, <3>2, AcquireRefines DEF Promise!Next
    <3>3. CASE UNCHANGED imageVars
      BY <1>0, <3>1, <3>3, StutterRefines
    <3> QED
      BY <1>1, <3>2, <3>3 DEF Acquire
  <2> QED
    BY <2>2, <2>3
<1>2. ASSUME Wait PROVE [Promise!Next]_(Promise!vars)
  <2>1. ~has_lost /\ ~inflight.yes /\ ~IsEmpty(acquired_fifo)
    BY <1>2 DEF Wait, Call
  <2>2. CASE has_lost'
    <3>1. has_lost' = TRUE
      BY <1>0, <1>2, <2>1, <2>2 DEF Wait, Fails
    <3> QED
      BY <2>1, <3>1, LoseRefines DEF Promise!Next
  <2>3. CASE ~has_lost'
    <3>1. has_lost' = FALSE /\ has_lost = FALSE
      BY <1>0, <1>2, <2>1, <2>3 DEF Wait, Fails
    <3>2. CommonWait
      BY <1>0, <1>2, <2>1, <2>3, FailsFacts DEF Wait, LosingFailures
    <3> QED
      BY <2>1, <3>1, <3>2, WaitRefines DEF Promise!Next
  <2> QED
    BY <2>2, <2>3
<1>3. ASSUME Release PROVE [Promise!Next]_(Promise!vars)
  <2>1. /\ ~has_lost /\ inflight.yes /\ image_state[inflight.index] = "WAITED"
        /\ is_static' = is_static
    BY <1>3 DEF Release, Call
  <2>2. CASE has_lost'
    <3>1. has_lost' = TRUE
      BY <1>0, <1>3, <2>1, <2>2 DEF Release, CommonRelease, Fails
    <3> QED
      BY <2>1, <3>1, LoseRefines DEF Promise!Next
  <2>3. CASE ~has_lost'
    <3>1. has_lost' = FALSE /\ has_lost = FALSE
      BY <1>0, <1>3, <2>1, <2>3 DEF Release, CommonRelease, Fails
    <3>2. CASE UNCHANGED imageVars
      BY <1>0, <3>1, <3>2, StutterRefines
    <3>3. CASE /\ inflight' = [yes |-> FALSE, index |-> NoImage]
               /\ fifo' = Pushed(fifo, inflight.index)
               /\ acquired_num' = acquired_num - 1
               /\ released' = inflight
               /\ image_state' = [image_state EXCEPT ![inflight.index] = "READY"]
               /\ acquired_fifo' = acquired_fifo
      BY <2>1, <3>1, <3>3, ReleaseRefines DEF Promise!Next
    <3>4. ~Fails("release")
      BY <1>0, <2>1, <2>3, FailsFacts DEF LosingFailures
    <3> QED
      BY <1>3, <3>2, <3>3, <3>4 DEF Release, CommonRelease
  <2> QED
    BY <2>2, <2>3
<1>4. ASSUME UNCHANGED <<has_lost, imageVars>> PROVE UNCHANGED Promise!vars
  BY <1>0, <1>4, StutterRefines
<1>5. CASE EndFrameVerify \/ EndFrameSubmit \/ RetireLayer \/ Destroy \/ GarbageCollect
  BY <1>4, <1>5 DEF EndFrameVerify, EndFrameSubmit, RetireLayer, Destroy, GarbageCollect
<1>6. CASE UNCHANGED vars
  BY <1>4, <1>6 DEF vars
<1> QED
  BY <1>1, <1>2, <1>3, <1>5, <1>6 DEF Next

\* The two rings, the image states and the slots of the state tracker together do what
\* the abstract swapchain promises: images are handed out in the order they came back,
\* waited for in the order they were handed out, and the image shown is the one
\* released last, until it is handed out again.
THEOREM ImagesImplementPromise ==
  ASSUME LosingFailures
  PROVE  Spec => ImagesKeepPromise
<1>1. Init => ImageInv /\ Promise!Init
  BY ImageInit, InitRefines
<1>2. ImageInv /\ [Next]_vars => ImageInv'
  BY ImageStep
<1>3. ImageInv /\ [Next]_vars => [Promise!Next]_(Promise!vars)
  BY StepRefines
<1> QED
  BY <1>1, <1>2, <1>3, PTL DEF Spec, ImagesKeepPromise, Promise!Spec

=============================================================================
