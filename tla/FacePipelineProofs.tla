------------------------- MODULE FacePipelineProofs -------------------------
(***************************************************************************)
(* Proofs about FacePipeline, for any number of images, tracks and users   *)
(* and any thresholds that fit the pipes: type correctness with the bounds *)
(* of the pipes and of the tracked-face list, the ownership of the images, *)
(* and that a known face stays known.                                      *)
(*                                                                         *)
(* EveryImageOwned is not inductive by itself: that a push appends needs   *)
(* PipesNeverOverflow, that a read overwrites no image needs Hands (which  *)
(* thread holds one when), and the bound of the list needs Work (one user  *)
(* per track in the recogniser's hands, none when it asks for more).       *)
(***************************************************************************)
EXTENDS FacePipeline, WellFoundedInduction, FunctionTheorems, FiniteSetTheorems, SequenceTheorems, TLAPS

\* The types, without bounds.
Types ==
    /\ live \in SUBSET Buffers
    /\ mPipe \in Seq(Images) /\ mPipe_obj \in Seq(Images)
    /\ mPipe_frg \in Seq(SUBSET Tracks)
    /\ mTmp_FaceDB \in Seq(Item)
    /\ cam \in [pc : {"size", "frg", "push", "obj"}, buf : Images]
    /\ det \in [pc : {"pop", "detect", "callback", "release"}, buf : Images, faces : SUBSET Tracks]
    /\ rec \in [pc : {"pop", "recognise", "add"}, todo : SUBSET Tracks, users : SUBSET Item]
    /\ xdet \in [pc : {"pop", "detect"}, buf : Images]
    /\ shown \in [Tracks -> Labels \cup {Nobody}]

\* What is in a place, and that a pipe has it once.
Held(S) == S \ {NoBuf}
Once(q) == \A i, j \in DOMAIN q : q[i] = q[j] /\ q[i] # NoBuf => i = j

\* A thread has an image only between taking it and giving it away.
Hands ==
    /\ cam.pc \in {"size", "obj"} => cam.buf = NoBuf
    /\ det.pc = "pop" => det.buf = NoBuf
    /\ xdet.pc = "pop" => xdet.buf = NoBuf

\* The recogniser's work is done when it asks for more; a track is one user's.
Work ==
    /\ rec.pc # "recognise" => rec.todo = {}
    /\ rec.pc # "add" => rec.users = {}
    /\ \A u, v \in rec.users : u.track = v.track => u = v

\* EveryImageOwned, place by place and image by image.
Owned ==
    /\ \A b \in Buffers :
         /\ b \in live <=> \/ cam.buf = b \/ b \in Entries(mPipe) \/ det.buf = b
                           \/ b \in Entries(mPipe_obj) \/ xdet.buf = b
         /\ cam.buf = b => /\ b \notin Entries(mPipe) /\ det.buf # b
                           /\ b \notin Entries(mPipe_obj) /\ xdet.buf # b
         /\ b \in Entries(mPipe) => det.buf # b /\ b \notin Entries(mPipe_obj) /\ xdet.buf # b
         /\ det.buf = b => b \notin Entries(mPipe_obj) /\ xdet.buf # b
         /\ b \in Entries(mPipe_obj) => xdet.buf # b
    /\ Once(mPipe) /\ Once(mPipe_obj)

IInv == Types /\ PipesNeverOverflow /\ Hands /\ Owned /\ Work /\ ItemsBounded
-----------------------------------------------------------------------------
(* The tracked-face list *)

\* The smallest of a set of natural numbers.
LEMMA Smallest ==
    ASSUME NEW S \in SUBSET Nat, S # {}
    PROVE  \E i \in S : \A j \in S : i <= j
<1> DEFINE R == {ss \in Nat \X Nat : ss[1] < ss[2]}
<1>1. IsWellFoundedOn(R, Nat)
  BY NatLessThanWellFounded DEF OpToRel
<1>2. PICK i \in S : \A j \in S : ~(<<j, i>> \in R)
  BY <1>1, WFMin
<1>3. \A j \in S : ~(j < i)
  BY <1>2
<1> QED BY <1>2, <1>3

\* A set of natural numbers that has the first, and with a number the next, has all up to n.
LEMMA Counting ==
    ASSUME NEW n \in Nat, NEW S, 0 \in S, \A m \in 1 .. n : m - 1 \in S => m \in S
    PROVE  0 .. n \subseteq S
<1> DEFINE Missing == (0 .. n) \ S
<1> SUFFICES ASSUME Missing # {} PROVE FALSE
  OBVIOUS
<1>0. Missing \in SUBSET Nat
  OBVIOUS
<1> HIDE DEF Missing
<1>1. PICK m \in Missing : \A j \in Missing : m <= j
  BY Smallest, <1>0
<1> USE DEF Missing
<1>2. m \in 1 .. n /\ m - 1 \in 0 .. n /\ m - 1 \notin Missing
  BY <1>1
<1> QED BY <1>1, <1>2

\* The items of db of the tracks in faces, turn by turn.
Turns(db, faces, f) ==
    f = [n \in 0 .. Len(db) |-> IF n = 0 THEN <<>>
                                ELSE IF db[n].track \in faces THEN Append(f[n - 1], db[n])
                                ELSE f[n - 1]]

LEMMA TurnsExist ==
    ASSUME NEW db \in Seq(Item), NEW faces
    PROVE  \E f : Turns(db, faces, f)
<1> DEFINE N == Len(db)
           Good(n) == \E f \in [0 .. n -> Seq(Item)] :
                        /\ f[0] = <<>>
                        /\ \A m \in 1 .. n : f[m] = IF db[m].track \in faces THEN Append(f[m - 1], db[m])
                                                    ELSE f[m - 1]
<1>1. N \in Nat /\ \A m \in 1 .. N : db[m] \in Item
  OBVIOUS
<1>2. Good(0)
  <2> WITNESS [i \in 0 .. 0 |-> <<>>] \in [0 .. 0 -> Seq(Item)]
  <2> QED OBVIOUS
<1>3. ASSUME NEW n \in 1 .. N, Good(n - 1) PROVE Good(n)
  <2>1. PICK f \in [0 .. n - 1 -> Seq(Item)] :
             /\ f[0] = <<>>
             /\ \A m \in 1 .. n - 1 : f[m] = IF db[m].track \in faces THEN Append(f[m - 1], db[m])
                                             ELSE f[m - 1]
    BY <1>3
  <2> DEFINE e == IF db[n].track \in faces THEN Append(f[n - 1], db[n]) ELSE f[n - 1]
             g == [i \in 0 .. n |-> IF i = n THEN e ELSE f[i]]
  <2>2. n \in Nat /\ n > 0 /\ n - 1 \in 0 .. n - 1
    BY <1>1
  <2>3. f[n - 1] \in Seq(Item) /\ db[n] \in Item
    BY <1>1, <2>1, <2>2
  <2>4. e \in Seq(Item)
    BY <2>3
  <2> HIDE DEF e
  <2>5. g \in [0 .. n -> Seq(Item)]
    BY <2>2, <2>4
  <2>6. g[0] = <<>> /\ g[n] = e /\ \A i \in 0 .. n - 1 : g[i] = f[i]
    BY <2>1, <2>2
  <2> HIDE DEF g
  <2>7. ASSUME NEW m \in 1 .. n
        PROVE  g[m] = IF db[m].track \in faces THEN Append(g[m - 1], db[m]) ELSE g[m - 1]
    <3>1. CASE m = n
      <4>1. g[n - 1] = f[n - 1]
        BY <2>2, <2>6
      <4> QED BY <2>6, <3>1, <4>1 DEF e
    <3>2. CASE m # n
      <4>1. m \in 1 .. n - 1 /\ m \in 0 .. n - 1 /\ m - 1 \in 0 .. n - 1
        BY <2>2, <2>7, <3>2
      <4> QED BY <2>1, <2>6, <4>1
    <3> QED BY <3>1, <3>2
  <2> QED BY <2>5, <2>6, <2>7
<1> HIDE DEF Good
<1>4. Good(N)
  <2> DEFINE S == {n \in 0 .. N : Good(n)}
  <2>1. 0 \in S /\ \A n \in 1 .. N : n - 1 \in S => n \in S
    BY <1>1, <1>2, <1>3
  <2> HIDE DEF S
  <2>2. 0 .. N \subseteq S
    BY <1>1, <2>1, Counting
  <2>3. N \in 0 .. N
    BY <1>1
  <2> QED BY <2>2, <2>3 DEF S
<1>5. PICK f \in [0 .. N -> Seq(Item)] :
         /\ f[0] = <<>>
         /\ \A m \in 1 .. N : f[m] = IF db[m].track \in faces THEN Append(f[m - 1], db[m])
                                     ELSE f[m - 1]
  BY <1>4 DEF Good
<1>6. Turns(db, faces, f)
  <2>1. ASSUME NEW n \in 0 .. N
        PROVE  f[n] = IF n = 0 THEN <<>> ELSE IF db[n].track \in faces THEN Append(f[n - 1], db[n])
                      ELSE f[n - 1]
    <3>1. CASE n = 0
      BY <1>5, <3>1
    <3>2. CASE n # 0
      <4>1. n \in 1 .. N
        BY <1>1, <2>1, <3>2
      <4> QED BY <1>5, <3>2, <4>1
    <3> QED BY <3>1, <3>2
  <2>2. f = [n \in 0 .. N |-> f[n]]
    BY <1>5
  <2> QED BY <2>1, <2>2 DEF Turns
<1> QED BY <1>6

\* Where the kept items come from: each from a place of its own, and none is forgotten.
From(db, faces, kept, n, g) ==
    /\ kept \in Seq(Item)
    /\ g \in [1 .. Len(kept) -> 1 .. n]
    /\ \A j \in 1 .. Len(kept) : kept[j] = db[g[j]]
    /\ \A i, j \in 1 .. Len(kept) : g[i] = g[j] => i = j
    /\ \A i \in 1 .. n : db[i].track \in faces => \E j \in 1 .. Len(kept) : kept[j] = db[i]

LEMMA KeptFrom ==
    ASSUME NEW faces, mTmp_FaceDB \in Seq(Item)
    PROVE  \E g : From(mTmp_FaceDB, faces, KeptItems(faces), Len(mTmp_FaceDB), g)
<1> DEFINE db == mTmp_FaceDB
           N == Len(db)
           f == CHOOSE h : Turns(db, faces, h)
           Good(n) == \E g : From(db, faces, f[n], n, g)
<1>1. N \in Nat /\ \A m \in 1 .. N : db[m] \in Item
  OBVIOUS
<1>2. Turns(db, faces, f)
  BY TurnsExist
<1>3. KeptItems(faces) = f[N]
  BY DEF KeptItems, Turns
<1> HIDE DEF f
<1>4. /\ f[0] = <<>>
      /\ \A n \in 1 .. N : f[n] = IF db[n].track \in faces THEN Append(f[n - 1], db[n]) ELSE f[n - 1]
  <2>1. \A n \in 0 .. N : f[n] = IF n = 0 THEN <<>>
                                 ELSE IF db[n].track \in faces THEN Append(f[n - 1], db[n])
                                 ELSE f[n - 1]
    BY <1>2 DEF Turns
  <2>2. 0 \in 0 .. N /\ \A n \in 1 .. N : n \in 0 .. N /\ n # 0
    BY <1>1
  <2> QED BY <2>1, <2>2
<1>5. Good(0)
  <2>1. From(db, faces, <<>>, 0, <<>>)
    BY DEF From
  <2> QED BY <1>4, <2>1
<1>6. ASSUME NEW n \in 1 .. N, Good(n - 1) PROVE Good(n)
  <2> DEFINE k == f[n - 1]
             l == Len(k)
  <2>1. PICK g : From(db, faces, k, n - 1, g)
    BY <1>6
  <2>2. n \in Nat /\ n > 0 /\ l \in Nat /\ db[n] \in Item /\ k \in Seq(Item)
    BY <1>1, <2>1 DEF From
  <2>3. /\ g \in [1 .. l -> 1 .. n - 1]
        /\ \A j \in 1 .. l : k[j] = db[g[j]]
        /\ \A i, j \in 1 .. l : g[i] = g[j] => i = j
        /\ \A i \in 1 .. n - 1 : db[i].track \in faces => \E j \in 1 .. l : k[j] = db[i]
    BY <2>1 DEF From
  <2> HIDE DEF k, l
  <2>4. CASE db[n].track \in faces
    <3> DEFINE a == Append(k, db[n])
               h == [j \in 1 .. l + 1 |-> IF j = l + 1 THEN n ELSE g[j]]
    <3>1. /\ a \in Seq(Item) /\ Len(a) = l + 1 /\ a[l + 1] = db[n] /\ \A j \in 1 .. l : a[j] = k[j]
      BY <2>2 DEF l
    <3>2. /\ h \in [1 .. l + 1 -> 1 .. n] /\ h[l + 1] = n
          /\ \A j \in 1 .. l : h[j] = g[j] /\ h[j] \in 1 .. n - 1
      BY <2>2, <2>3
    <3> HIDE DEF a, h
    <3>3. ASSUME NEW j \in 1 .. l + 1 PROVE a[j] = db[h[j]]
      <4>1. CASE j = l + 1
        BY <3>1, <3>2, <4>1
      <4>2. CASE j # l + 1
        <5>1. j \in 1 .. l
          BY <2>2, <3>3, <4>2
        <5> QED BY <2>3, <3>1, <3>2, <5>1
      <4> QED BY <4>1, <4>2
    <3>4. \A i, j \in 1 .. l + 1 : h[i] = h[j] => i = j
      BY <2>2, <2>3, <3>2
    <3>5. ASSUME NEW i \in 1 .. n, db[i].track \in faces PROVE \E j \in 1 .. l + 1 : a[j] = db[i]
      <4>1. CASE i = n
        BY <2>2, <3>1, <4>1
      <4>2. CASE i # n
        <5>1. i \in 1 .. n - 1
          BY <2>2, <3>5, <4>2
        <5>2. PICK j \in 1 .. l : k[j] = db[i]
          BY <2>3, <3>5, <5>1
        <5> QED BY <2>2, <3>1, <5>2
      <4> QED BY <4>1, <4>2
    <3>6. From(db, faces, a, n, h)
      BY <3>1, <3>2, <3>3, <3>4, <3>5 DEF From
    <3>7. f[n] = a
      BY <1>4, <2>4 DEF a, k
    <3> QED BY <3>6, <3>7
  <2>5. CASE db[n].track \notin faces
    <3>1. g \in [1 .. l -> 1 .. n]
      BY <2>2, <2>3
    <3>2. \A i \in 1 .. n : db[i].track \in faces => i \in 1 .. n - 1
      BY <2>2, <2>5
    <3>3. From(db, faces, k, n, g)
      BY <2>2, <2>3, <3>1, <3>2 DEF From, l
    <3>4. f[n] = k
      BY <1>4, <2>5 DEF k
    <3> QED BY <3>3, <3>4
  <2> QED BY <2>4, <2>5
<1> HIDE DEF Good
<1>7. Good(N)
  <2> DEFINE S == {n \in 0 .. N : Good(n)}
  <2>1. 0 \in S /\ \A n \in 1 .. N : n - 1 \in S => n \in S
    BY <1>1, <1>5, <1>6
  <2> HIDE DEF S
  <2>2. 0 .. N \subseteq S
    BY <1>1, <2>1, Counting
  <2>3. N \in 0 .. N
    BY <1>1
  <2> QED BY <2>2, <2>3 DEF S
<1> QED BY <1>3, <1>7 DEF Good
-----------------------------------------------------------------------------
(* The pipes *)

LEMMA Appended ==
    ASSUME NEW D, NEW q \in Seq(D), NEW e \in D
    PROVE  /\ Append(q, e) \in Seq(D)
           /\ Len(Append(q, e)) = Len(q) + 1
           /\ Entries(Append(q, e)) = Entries(q) \cup {e}
           /\ Once(q) /\ e \notin Held(Entries(q)) => Once(Append(q, e))
<1> DEFINE a == Append(q, e)
<1>1. /\ a \in Seq(D) /\ Len(a) = Len(q) + 1 /\ Len(q) \in Nat
      /\ DOMAIN q = 1 .. Len(q) /\ DOMAIN a = 1 .. Len(q) + 1
      /\ a[Len(q) + 1] = e /\ \A i \in 1 .. Len(q) : a[i] = q[i]
  OBVIOUS
<1> HIDE DEF a
<1>2. \A i \in DOMAIN a : i = Len(q) + 1 \/ i \in DOMAIN q
  BY <1>1
<1>3. Len(q) + 1 \in DOMAIN a /\ \A i \in DOMAIN q : i \in DOMAIN a
  BY <1>1
<1>4. Entries(a) = Entries(q) \cup {e}
  <2>1. \A x \in Entries(a) : x \in Entries(q) \cup {e}
    BY <1>1, <1>2 DEF Entries
  <2>2. \A x \in Entries(q) : x \in Entries(a)
    BY <1>1, <1>3 DEF Entries
  <2>3. e \in Entries(a)
    BY <1>1, <1>3 DEF Entries
  <2> QED BY <2>1, <2>2, <2>3
<1>5. ASSUME Once(q), e \notin Held(Entries(q)) PROVE Once(a)
  <2> SUFFICES ASSUME NEW i \in DOMAIN a, NEW j \in DOMAIN a, a[i] = a[j], a[i] # NoBuf PROVE i = j
    BY DEF Once
  <2>1. CASE i \in DOMAIN q /\ j \in DOMAIN q
    BY <1>1, <1>5, <2>1 DEF Once
  <2>2. CASE i = Len(q) + 1 /\ j \in DOMAIN q
    BY <1>1, <1>5, <2>2 DEF Entries, Held
  <2>3. CASE j = Len(q) + 1 /\ i \in DOMAIN q
    BY <1>1, <1>5, <2>3 DEF Entries, Held
  <2> QED BY <1>2, <2>1, <2>2, <2>3
<1> QED BY <1>1, <1>4, <1>5 DEF a

\* A push on a pipe that is not full appends.
LEMMA Pushed ==
    ASSUME NEW D, NEW q \in Seq(D), NEW e \in D, NEW size \in Nat, Len(q) < size
    PROVE  PipePush(q, e, size) = Append(q, e)
BY DEF PipePush

LEMMA Popped ==
    ASSUME NEW D, NEW q \in Seq(D), q # <<>>
    PROVE  /\ Head(q) \in D /\ Tail(q) \in Seq(D)
           /\ Len(q) \in Nat \ {0} /\ Len(Tail(q)) = Len(q) - 1
           /\ \A i \in 1 .. Len(q) - 1 : Tail(q)[i] = q[i + 1]
           /\ Entries(q) = Entries(Tail(q)) \cup {Head(q)}
           /\ Once(q) => Once(Tail(q)) /\ Head(q) \notin Held(Entries(Tail(q)))
<1> DEFINE r == Tail(q)
<1>1. /\ Head(q) \in D /\ r \in Seq(D) /\ Len(q) \in Nat /\ Len(q) # 0 /\ Len(r) = Len(q) - 1
      /\ DOMAIN q = 1 .. Len(q) /\ DOMAIN r = 1 .. Len(q) - 1
      /\ Head(q) = q[1] /\ \A i \in 1 .. Len(q) - 1 : r[i] = q[i + 1]
  OBVIOUS
<1> HIDE DEF r
<1>2. \A i \in DOMAIN r : i + 1 \in DOMAIN q /\ i + 1 # 1
  BY <1>1
<1>3. \A i \in DOMAIN q : i = 1 \/ (i - 1 \in DOMAIN r /\ (i - 1) + 1 = i)
  BY <1>1
<1>4. Entries(q) = Entries(r) \cup {Head(q)}
  <2>1. \A x \in Entries(q) : x \in Entries(r) \cup {Head(q)}
    <3> TAKE x \in Entries(q)
    <3>1. PICK i \in DOMAIN q : x = q[i]
      BY DEF Entries
    <3>2. CASE i = 1
      BY <1>1, <3>1, <3>2
    <3>3. CASE i # 1
      <4>1. i - 1 \in DOMAIN r /\ x = r[i - 1]
        BY <1>1, <1>3, <3>1, <3>3
      <4> QED BY <4>1 DEF Entries
    <3> QED BY <3>2, <3>3
  <2>2. \A x \in Entries(r) : x \in Entries(q)
    BY <1>1, <1>2 DEF Entries
  <2>3. Head(q) \in Entries(q)
    <3>1. 1 \in DOMAIN q
      BY <1>1
    <3> QED BY <1>1, <3>1 DEF Entries
  <2> QED BY <2>1, <2>2, <2>3
<1>5. ASSUME Once(q) PROVE Once(r) /\ Head(q) \notin Held(Entries(r))
  <2>1. Once(r)
    <3> SUFFICES ASSUME NEW i \in DOMAIN r, NEW j \in DOMAIN r, r[i] = r[j], r[i] # NoBuf PROVE i = j
      BY DEF Once
    <3>1. i + 1 = j + 1
      BY <1>1, <1>2, <1>5 DEF Once
    <3> QED BY <1>1, <3>1
  <2>2. ASSUME Head(q) \in Held(Entries(r)) PROVE FALSE
    <3>1. PICK i \in DOMAIN r : Head(q) = r[i] /\ r[i] # NoBuf
      BY <2>2 DEF Entries, Held
    <3>2. 1 \in DOMAIN q /\ i + 1 \in DOMAIN q /\ q[1] = q[i + 1] /\ q[1] # NoBuf /\ i + 1 # 1
      BY <1>1, <1>2, <3>1
    <3> QED BY <1>5, <3>2 DEF Once
  <2> QED BY <2>1, <2>2
<1> QED BY <1>1, <1>4, <1>5 DEF r

\* Taking the first entry away moves the places where t is one down.
LEMMA Moved ==
    ASSUME NEW n \in Nat \ {0}, NEW S \in SUBSET (1 .. n),
           NEW T, T = {i \in 1 .. n - 1 : i + 1 \in S}
    PROVE  /\ IsFiniteSet(S) /\ IsFiniteSet(T)
           /\ Cardinality(S) = Cardinality(T) + (IF 1 \in S THEN 1 ELSE 0)
<1> DEFINE f == [i \in S \ {1} |-> i - 1]
<1>1. IsFiniteSet(1 .. n)
  BY FS_Interval
<1>2. IsFiniteSet(S)
  BY <1>1, FS_Subset
<1>3. IsFiniteSet(S \ {1}) /\ Cardinality(S \ {1}) = Cardinality(S) - (IF 1 \in S THEN 1 ELSE 0)
  BY <1>2, FS_RemoveElement, FS_CardinalityType
<1>4. f \in Bijection(S \ {1}, T)
  <2>1. \A i \in S \ {1} : i - 1 \in T
    OBVIOUS
  <2>2. f \in [S \ {1} -> T]
    BY <2>1
  <2>3. \A i, j \in S \ {1} : f[i] = f[j] => i = j
    OBVIOUS
  <2>4. ASSUME NEW m \in T PROVE \E i \in S \ {1} : f[i] = m
    <3>1. m + 1 \in S \ {1} /\ (m + 1) - 1 = m
      BY <2>4
    <3> QED BY <3>1
  <2> HIDE DEF f
  <2> QED BY <2>2, <2>3, <2>4, Fun_IsBij
<1>5. ExistsBijection(S \ {1}, T)
  BY <1>4 DEF ExistsBijection
<1>6. IsFiniteSet(T) /\ Cardinality(T) = Cardinality(S \ {1})
  BY <1>3, <1>5, FS_Bijection
<1>7. Cardinality(S) \in Nat /\ Cardinality(T) \in Nat
  BY <1>2, <1>6, FS_CardinalityType
<1> QED BY <1>2, <1>3, <1>6, <1>7
-----------------------------------------------------------------------------
(* Labels *)

\* A track has a label exactly when it has an item, and then it is an item's.
LEMMA Labelled ==
    ASSUME NEW db \in Seq(Item), NEW t
    PROVE  \/ /\ LabelIn(db, t) = Nobody
              /\ \A i \in DOMAIN db : db[i].track # t
           \/ /\ LabelIn(db, t) \in Labels /\ LabelIn(db, t) # Nobody
              /\ \E i \in DOMAIN db : db[i].track = t
<1> DEFINE hits == {i \in DOMAIN db : db[i].track = t}
           last == CHOOSE i \in hits : \A j \in hits : j <= i
<1>1. Len(db) \in Nat /\ DOMAIN db = 1 .. Len(db) /\ \A i \in DOMAIN db : db[i] \in Item
  OBVIOUS
<1>2. CASE hits = {}
  BY <1>2 DEF LabelIn
<1>3. CASE hits # {}
  <2> DEFINE back == {n \in Nat : n <= Len(db) /\ Len(db) - n \in hits}
  <2>1. back \in SUBSET Nat /\ back # {}
    <3>1. PICK i \in hits : TRUE
      BY <1>3
    <3>2. Len(db) - i \in Nat /\ Len(db) - i <= Len(db) /\ Len(db) - (Len(db) - i) = i
      BY <1>1
    <3>3. Len(db) - i \in back
      BY <3>1, <3>2
    <3> QED BY <3>3
  <2> HIDE DEF back
  <2>2. PICK n \in back : \A m \in back : n <= m
    BY <2>1, Smallest
  <2> USE DEF back
  <2>3. Len(db) - n \in hits /\ \A j \in hits : j <= Len(db) - n
    <3>1. Len(db) - n \in hits
      BY <2>2
    <3>2. ASSUME NEW j \in hits PROVE j <= Len(db) - n
      <4>1. j \in 1 .. Len(db)
        BY <1>1, <3>2
      <4>2. Len(db) - j \in Nat /\ Len(db) - j <= Len(db) /\ Len(db) - (Len(db) - j) = j
        BY <1>1, <4>1
      <4>3. Len(db) - j \in back
        BY <3>2, <4>2
      <4>4. n <= Len(db) - j /\ n \in Nat
        BY <2>2, <4>3
      <4> QED BY <1>1, <4>1, <4>4
    <3> QED BY <3>1, <3>2
  <2>4. last \in hits
    BY <2>3
  <2>5. LabelIn(db, t) = db[last].user
    BY <1>3 DEF LabelIn
  <2>6. db[last] \in Item /\ db[last].track = t /\ last \in DOMAIN db
    BY <1>1, <2>4
  <2> HIDE DEF last
  <2>7. db[last].user \in Labels /\ db[last].user # Nobody
    BY <2>6, LabelAssumption DEF Item, Labels
  <2> QED BY <2>5, <2>6, <2>7
<1> QED BY <1>2, <1>3

\* What the kept items are: those of the tracks in faces, never more of a track than before.
LEMMA Kept ==
    ASSUME NEW faces, mTmp_FaceDB \in Seq(Item)
    PROVE  /\ KeptItems(faces) \in Seq(Item)
           /\ \A i \in DOMAIN KeptItems(faces) :
                \E j \in DOMAIN mTmp_FaceDB : KeptItems(faces)[i] = mTmp_FaceDB[j]
           /\ \A j \in DOMAIN mTmp_FaceDB : mTmp_FaceDB[j].track \in faces =>
                \E i \in DOMAIN KeptItems(faces) : KeptItems(faces)[i] = mTmp_FaceDB[j]
           /\ \A t : LET kept == {i \in DOMAIN KeptItems(faces) : KeptItems(faces)[i].track = t}
                     IN  IsFiniteSet(kept) /\ Cardinality(kept) <= Cardinality(ItemsOf(t))
<1> DEFINE db == mTmp_FaceDB
           k == KeptItems(faces)
<1>1. PICK g : From(db, faces, k, Len(db), g)
  BY KeptFrom
<1>2. Len(db) \in Nat /\ DOMAIN db = 1 .. Len(db)
  OBVIOUS
<1>3. /\ k \in Seq(Item) /\ DOMAIN k = 1 .. Len(k)
      /\ \A j \in DOMAIN k : g[j] \in DOMAIN db /\ k[j] = db[g[j]]
      /\ \A i, j \in DOMAIN k : g[i] = g[j] => i = j
      /\ \A i \in DOMAIN db : db[i].track \in faces => \E j \in DOMAIN k : k[j] = db[i]
  <2>1. k \in Seq(Item) /\ DOMAIN k = 1 .. Len(k)
    BY <1>1 DEF From
  <2> HIDE DEF k
  <2> QED BY <1>1, <1>2, <2>1 DEF From
<1> HIDE DEF k
<1>4. ASSUME NEW t, NEW K, K = {i \in DOMAIN k : k[i].track = t}
      PROVE  IsFiniteSet(K) /\ Cardinality(K) <= Cardinality(ItemsOf(t))
  <2> DEFINE I == ItemsOf(t)
             h == [i \in K |-> g[i]]
  <2>1. IsFiniteSet(1 .. Len(db)) /\ I \subseteq 1 .. Len(db)
    BY <1>2, FS_Interval DEF ItemsOf
  <2>2. IsFiniteSet(I)
    BY <2>1, FS_Subset
  <2>3. \A i \in K : i \in DOMAIN k /\ g[i] \in I
    BY <1>3, <1>4 DEF ItemsOf
  <2> HIDE DEF I
  <2>4. h \in [K -> I]
    BY <2>3
  <2>5. \A i, j \in K : h[i] = h[j] => i = j
    BY <1>3, <2>3
  <2> HIDE DEF h
  <2>6. h \in Injection(K, I)
    BY <2>4, <2>5, Fun_IsInj
  <2>7. IsFiniteSet(K) /\ Cardinality(K) <= Cardinality(I)
    BY <2>2, <2>6, FS_Injection
  <2> QED BY <2>7 DEF I
<1>5. \A j \in DOMAIN k : \E i \in DOMAIN db : k[j] = db[i]
  BY <1>3
<1>6. \A t : LET kept == {i \in DOMAIN k : k[i].track = t}
             IN  IsFiniteSet(kept) /\ Cardinality(kept) <= Cardinality(ItemsOf(t))
  <2> TAKE t
  <2> DEFINE K == {i \in DOMAIN k : k[i].track = t}
  <2>1. K = {i \in DOMAIN k : k[i].track = t}
    OBVIOUS
  <2> HIDE DEF K
  <2>2. IsFiniteSet(K) /\ Cardinality(K) <= Cardinality(ItemsOf(t))
    BY <1>4, <2>1
  <2> QED BY <2>1, <2>2
<1> QED BY <1>3, <1>5, <1>6 DEF k
-----------------------------------------------------------------------------
(* The images *)

LEMMA ImagesIn ==
    ASSUME Types
    PROVE  /\ Entries(mPipe) \subseteq Images /\ Entries(mPipe_obj) \subseteq Images
           /\ cam.buf \in Images /\ det.buf \in Images /\ xdet.buf \in Images
           /\ live \subseteq Buffers /\ Images = Buffers \cup {NoBuf}
BY DEF Types, Entries, Images

LEMMA OwnedIsOwned ==
    ASSUME Types
    PROVE  EveryImageOwned <=> Owned
<1>1. /\ Places[1] = {cam.buf} /\ Places[2] = Entries(mPipe) /\ Places[3] = {det.buf}
      /\ Places[4] = Entries(mPipe_obj) /\ Places[5] = {xdet.buf}
  BY DEF Places
<1>2. \A i : i \in 1 .. 5 <=> i = 1 \/ i = 2 \/ i = 3 \/ i = 4 \/ i = 5
  OBVIOUS
<1> DEFINE P == Places
           U == UNION {P[i] : i \in 1 .. 5}
<1>3. \A b : b \in U <=> \/ cam.buf = b \/ b \in Entries(mPipe) \/ det.buf = b
                         \/ b \in Entries(mPipe_obj) \/ xdet.buf = b
  <2>1. \A b : b \in U <=> b \in P[1] \/ b \in P[2] \/ b \in P[3] \/ b \in P[4] \/ b \in P[5]
    <3> HIDE DEF P
    <3> QED BY <1>2
  <2> QED BY <1>1, <2>1
<1>4. (live = U \ {NoBuf}) <=>
      \A b \in Buffers : b \in live <=> \/ cam.buf = b \/ b \in Entries(mPipe) \/ det.buf = b
                                        \/ b \in Entries(mPipe_obj) \/ xdet.buf = b
  <2>1. U \subseteq Images
    BY <1>3, ImagesIn
  <2> HIDE DEF U
  <2>2. live = U \ {NoBuf} <=> \A b \in Buffers : b \in live <=> b \in U
    <3>1. Images = Buffers \cup {NoBuf} /\ NoBuf \notin Buffers /\ live \subseteq Buffers
      BY BufferAssumption, ImagesIn
    <3> QED BY <2>1, <3>1
  <2> QED BY <1>3, <2>2
<1>5. (\A i, j \in 1 .. 5 : i # j => P[i] \cap P[j] \subseteq {NoBuf}) <=>
      /\ {cam.buf} \cap Entries(mPipe) \subseteq {NoBuf} /\ {cam.buf} \cap {det.buf} \subseteq {NoBuf}
      /\ {cam.buf} \cap Entries(mPipe_obj) \subseteq {NoBuf} /\ {cam.buf} \cap {xdet.buf} \subseteq {NoBuf}
      /\ Entries(mPipe) \cap {det.buf} \subseteq {NoBuf}
      /\ Entries(mPipe) \cap Entries(mPipe_obj) \subseteq {NoBuf}
      /\ Entries(mPipe) \cap {xdet.buf} \subseteq {NoBuf}
      /\ {det.buf} \cap Entries(mPipe_obj) \subseteq {NoBuf} /\ {det.buf} \cap {xdet.buf} \subseteq {NoBuf}
      /\ Entries(mPipe_obj) \cap {xdet.buf} \subseteq {NoBuf}
  <2> HIDE DEF P
  <2>1. (\A i, j \in 1 .. 5 : i # j => P[i] \cap P[j] \subseteq {NoBuf}) <=>
        /\ P[1] \cap P[2] \subseteq {NoBuf} /\ P[1] \cap P[3] \subseteq {NoBuf}
        /\ P[1] \cap P[4] \subseteq {NoBuf} /\ P[1] \cap P[5] \subseteq {NoBuf}
        /\ P[2] \cap P[3] \subseteq {NoBuf} /\ P[2] \cap P[4] \subseteq {NoBuf}
        /\ P[2] \cap P[5] \subseteq {NoBuf} /\ P[3] \cap P[4] \subseteq {NoBuf}
        /\ P[3] \cap P[5] \subseteq {NoBuf} /\ P[4] \cap P[5] \subseteq {NoBuf}
    <3>1. \A i, j : P[i] \cap P[j] = P[j] \cap P[i]
      OBVIOUS
    <3> QED BY <1>2, <3>1
  <2> QED BY <1>1, <2>1 DEF P
<1>6. (\A i, j \in 1 .. 5 : i # j => P[i] \cap P[j] \subseteq {NoBuf}) <=>
      \A b \in Buffers :
         /\ cam.buf = b => /\ b \notin Entries(mPipe) /\ det.buf # b
                           /\ b \notin Entries(mPipe_obj) /\ xdet.buf # b
         /\ b \in Entries(mPipe) => det.buf # b /\ b \notin Entries(mPipe_obj) /\ xdet.buf # b
         /\ det.buf = b => b \notin Entries(mPipe_obj) /\ xdet.buf # b
         /\ b \in Entries(mPipe_obj) => xdet.buf # b
  <2> HIDE DEF P
  <2> QED BY <1>5, ImagesIn, BufferAssumption
<1>7. (\A q \in {mPipe, mPipe_obj} : \A i, j \in DOMAIN q : q[i] = q[j] /\ q[i] # NoBuf => i = j)
      <=> Once(mPipe) /\ Once(mPipe_obj)
  BY DEF Once
<1> HIDE DEF U, P
<1>8. Owned <=>
      /\ \A b \in Buffers : b \in live <=> \/ cam.buf = b \/ b \in Entries(mPipe) \/ det.buf = b
                                           \/ b \in Entries(mPipe_obj) \/ xdet.buf = b
      /\ \A b \in Buffers :
         /\ cam.buf = b => /\ b \notin Entries(mPipe) /\ det.buf # b
                           /\ b \notin Entries(mPipe_obj) /\ xdet.buf # b
         /\ b \in Entries(mPipe) => det.buf # b /\ b \notin Entries(mPipe_obj) /\ xdet.buf # b
         /\ det.buf = b => b \notin Entries(mPipe_obj) /\ xdet.buf # b
         /\ b \in Entries(mPipe_obj) => xdet.buf # b
      /\ Once(mPipe) /\ Once(mPipe_obj)
  BY DEF Owned
<1>9. EveryImageOwned <=>
      /\ live = U \ {NoBuf}
      /\ \A i, j \in 1 .. 5 : i # j => P[i] \cap P[j] \subseteq {NoBuf}
      /\ \A q \in {mPipe, mPipe_obj} : \A i, j \in DOMAIN q : q[i] = q[j] /\ q[i] # NoBuf => i = j
  BY Zenon DEF EveryImageOwned, U, P
<1> QED BY <1>4, <1>6, <1>7, <1>8, <1>9, Zenon

\* A read gives no image, or one that no thread has.
LEMMA ReadIsFresh ==
    ASSUME Types, NEW b, Read(b)
    PROVE  b \in Images /\ b \notin live /\ (b = NoBuf \/ b \in Buffers)
<1>1. live \subseteq Buffers /\ NoBuf \notin Buffers
  BY ImagesIn, BufferAssumption
<1>2. live # Buffers => Fresh \in Buffers /\ Fresh \notin live
  BY <1>1 DEF Fresh
<1> QED BY <1>1, <1>2 DEF Read, Images
-----------------------------------------------------------------------------
(* Types and bounds of the pipes *)

\* No pipe is full when something is pushed.
LEMMA NoPushDrops ==
    ASSUME Types, PipesNeverOverflow
    PROVE  /\ cam.pc = "push" => PipePush(mPipe, cam.buf, PipeCap) = Append(mPipe, cam.buf)
           /\ \A b : mPipe_obj = <<>> => PipePush(mPipe_obj, b, 1) = <<b>>
           /\ \A S : det.pc = "callback" => PipePush(mPipe_frg, S, FrgCap) = Append(mPipe_frg, S)
<1>1. Len(mPipe) \in Nat /\ Len(mPipe_frg) \in Nat
  BY DEF Types
<1>2. cam.pc = "push" => ~(Len(mPipe) >= PipeCap)
  BY <1>1, PipeAssumption DEF PipesNeverOverflow
<1>3. det.pc = "callback" => ~(Len(mPipe_frg) >= FrgCap)
  <2>1. CASE cam.pc = "push"
    BY <1>1, <2>1, PipeAssumption DEF PipesNeverOverflow, Ahead
  <2>2. CASE cam.pc # "push"
    BY <1>1, <2>2, PipeAssumption DEF PipesNeverOverflow, Ahead
  <2> QED BY <2>1, <2>2
<1>4. \A b : mPipe_obj = <<>> => PipePush(mPipe_obj, b, 1) = <<b>>
  BY DEF PipePush
<1> QED BY <1>2, <1>3, <1>4 DEF PipePush

LEMMA TypesInit == Init => Types
BY LabelAssumption DEF Init, Types, Images, Item

LEMMA TypesStep ==
    ASSUME Types, PipesNeverOverflow, Next
    PROVE  Types'
<1>1. ASSUME NEW b \in Images, CamRead(b) PROVE Types'
  <2>1. live' \in SUBSET Buffers
    BY <1>1, ReadIsFresh DEF CamRead, Types, Allocated
  <2>2. cam' \in [pc : {"size", "frg", "push", "obj"}, buf : Images]
    BY <1>1 DEF CamRead
  <2> QED BY <1>1, <2>1, <2>2 DEF CamRead, Types
<1>2. ASSUME NEW b \in Images, CamReadObj(b) PROVE Types'
  <2>1. live' \in SUBSET Buffers
    BY <1>2, ReadIsFresh DEF CamReadObj, Types, Allocated
  <2>2. cam' \in [pc : {"size", "frg", "push", "obj"}, buf : Images]
    BY <1>2 DEF CamReadObj, Types
  <2>3. mPipe_obj' \in Seq(Images)
    <3>1. mPipe_obj' = <<b>>
      BY <1>2, NoPushDrops DEF CamReadObj
    <3> QED BY <3>1
  <2> QED BY <1>2, <2>1, <2>2, <2>3 DEF CamReadObj, Types
<1>3. CASE CamKeep
  BY <1>3 DEF CamKeep, Types
<1>4. CASE CamRelease
  BY <1>4 DEF CamRelease, Types, Freed, Images
<1>5. CASE CamPush
  <2>1. mPipe' \in Seq(Images)
    <3>1. mPipe' = Append(mPipe, cam.buf) /\ mPipe \in Seq(Images) /\ cam.buf \in Images
      BY <1>5, NoPushDrops DEF CamPush, Types
    <3> QED BY <3>1, Appended
  <2>2. cam' \in [pc : {"size", "frg", "push", "obj"}, buf : Images]
    BY <1>5 DEF CamPush, Images
  <2> QED BY <1>5, <2>1, <2>2 DEF CamPush, Types
<1>6. CASE CamSkipObj
  BY <1>6 DEF CamSkipObj, Types
<1>7. CASE DetPop
  <2>1. Head(mPipe) \in Images /\ Tail(mPipe) \in Seq(Images)
    BY <1>7, Popped DEF DetPop, Types
  <2> QED BY <1>7, <2>1 DEF DetPop, Types
<1>8. CASE DetCallback
  <2>1. mTmp_FaceDB' \in Seq(Item)
    BY <1>8, Kept DEF DetCallback, Types
  <2>2. mPipe_frg' \in Seq(SUBSET Tracks)
    <3>1. Unlabelled(det.faces) \in SUBSET Tracks
      BY DEF Unlabelled, Types
    <3>2. mPipe_frg' = Append(mPipe_frg, Unlabelled(det.faces))
      BY <1>8, NoPushDrops DEF DetCallback
    <3> QED BY <3>1, <3>2, Appended DEF Types
  <2>3. shown' \in [Tracks -> Labels \cup {Nobody}]
    <3>1. \A t \in Tracks : LabelIn(mTmp_FaceDB, t) \in Labels \cup {Nobody}
      BY Labelled DEF Types
    <3> QED BY <1>8, <3>1 DEF DetCallback
  <2>4. det' \in [pc : {"pop", "detect", "callback", "release"}, buf : Images, faces : SUBSET Tracks]
    BY <1>8 DEF DetCallback, Types
  <2> QED BY <1>8, <2>1, <2>2, <2>3, <2>4 DEF DetCallback, Types
<1>9. CASE DetRelease
  BY <1>9 DEF DetRelease, Types, Freed, Images
<1>10. ASSUME NEW faces \in SUBSET Tracks, DetDetect(faces) PROVE Types'
  BY <1>10 DEF DetDetect, Types
<1>11. CASE RecPop
  <2>1. Head(mPipe_frg) \in SUBSET Tracks /\ Tail(mPipe_frg) \in Seq(SUBSET Tracks)
    BY <1>11, Popped DEF RecPop, Types
  <2> QED BY <1>11, <2>1 DEF RecPop, Types
<1>12. CASE RecDone
  BY <1>12 DEF RecDone, Types
<1>13. ASSUME NEW who \in [rec.todo -> Labels \cup {Nobody}], RecRecognise(who) PROVE Types'
  <2>1. rec.todo \subseteq Tracks
    BY DEF Types
  <2>2. \A t \in rec.todo : who[t] # Nobody => [track |-> t, user |-> who[t]] \in Item
    BY <2>1 DEF Item
  <2>3. {[track |-> t, user |-> who[t]] : t \in {u \in rec.todo : who[u] # Nobody}} \subseteq Item
    BY <2>2
  <2>4. rec' \in [pc : {"pop", "recognise", "add"}, todo : SUBSET Tracks, users : SUBSET Item]
    BY <1>13, <2>3 DEF RecRecognise
  <2> QED BY <1>13, <2>4 DEF RecRecognise, Types
<1>14. ASSUME NEW info \in rec.users, RecAdd(info) PROVE Types'
  <2>1. info \in Item
    BY DEF Types
  <2>2. mTmp_FaceDB' \in Seq(Item)
    BY <1>14, <2>1, Appended DEF RecAdd, Types
  <2>3. rec' \in [pc : {"pop", "recognise", "add"}, todo : SUBSET Tracks, users : SUBSET Item]
    BY <1>14 DEF RecAdd, Types
  <2> QED BY <1>14, <2>2, <2>3 DEF RecAdd, Types
<1>15. CASE XPop
  <2>1. Head(mPipe_obj) \in Images /\ Tail(mPipe_obj) \in Seq(Images)
    BY <1>15, Popped DEF XPop, Types
  <2> QED BY <1>15, <2>1 DEF XPop, Types
<1>16. CASE XRelease
  BY <1>16 DEF XRelease, Types, Freed, Images
<1> QED BY <1>1, <1>2, <1>3, <1>4, <1>5, <1>6, <1>7, <1>8, <1>9, <1>10, <1>11, <1>12, <1>13, <1>14, <1>15, <1>16
       DEF Next, Camera, Detect, Recognise, XDetect

LEMMA NoOverflowInit == Init => PipesNeverOverflow
BY PipeAssumption DEF Init, PipesNeverOverflow, Ahead

\* The three sizes, and who is on the way to push.
LEMMA NoOverflowStep ==
    ASSUME Types, PipesNeverOverflow, Next
    PROVE  PipesNeverOverflow'
<1> DEFINE p == Len(mPipe)
           o == Len(mPipe_obj)
           r == Len(mPipe_frg)
           Same == p' = p /\ o' = o /\ r' = r
<1>1. p \in Nat /\ o \in Nat /\ r \in Nat /\ PipeCap \in Nat /\ FrgLimit \in Nat
  BY PipeAssumption DEF Types
<1>2. /\ p + (IF cam.pc = "frg" \/ cam.pc = "push" THEN 1 ELSE 0) <= PipeCap
      /\ o <= 1
      /\ r + (p + (IF det.pc \in {"detect", "callback"} THEN 1 ELSE 0)
                + (IF cam.pc = "push" THEN 1 ELSE 0)) <= FrgLimit + PipeCap + 1
  BY DEF PipesNeverOverflow, Ahead
<1>3. SUFFICES
      /\ p' + (IF cam'.pc = "frg" \/ cam'.pc = "push" THEN 1 ELSE 0) <= PipeCap
      /\ o' <= 1
      /\ r' + (p' + (IF det'.pc \in {"detect", "callback"} THEN 1 ELSE 0)
                  + (IF cam'.pc = "push" THEN 1 ELSE 0)) <= FrgLimit + PipeCap + 1
  BY DEF PipesNeverOverflow, Ahead
<1>4. CASE \E b \in Images : CamRead(b)
  <2>1. Same /\ cam.pc = "size" /\ cam'.pc = "frg" /\ det' = det /\ p <= PipeCap - 1
    BY <1>4 DEF CamRead, MayRead
  <2> HIDE DEF p, o, r
  <2> QED BY <1>1, <1>2, <2>1
<1>5. CASE \E b \in Images : CamReadObj(b)
  <2>1. p' = p /\ r' = r /\ cam.pc = "obj" /\ cam'.pc = "size" /\ det' = det
    BY <1>5 DEF CamReadObj, Types
  <2>2. o' = 1
    <3>1. \E b : mPipe_obj' = <<b>>
      BY <1>5, NoPushDrops DEF CamReadObj
    <3> QED BY <3>1
  <2> HIDE DEF p, o, r
  <2> QED BY <1>1, <1>2, <2>1, <2>2
<1>6. CASE CamKeep
  <2>1. Same /\ cam.pc = "frg" /\ cam'.pc = "push" /\ det' = det /\ r <= FrgLimit
    BY <1>6 DEF CamKeep, MayPush, Types
  <2> HIDE DEF p, o, r
  <2> QED BY <1>1, <1>2, <2>1
<1>7. CASE CamRelease
  <2>1. Same /\ cam.pc = "frg" /\ cam'.pc = "obj" /\ det' = det
    BY <1>7 DEF CamRelease
  <2> HIDE DEF p, o, r
  <2> QED BY <1>1, <1>2, <2>1
<1>8. CASE CamPush
  <2>1. o' = o /\ r' = r /\ cam.pc = "push" /\ cam'.pc = "obj" /\ det' = det
    BY <1>8 DEF CamPush
  <2>2. p' = p + 1
    <3>1. mPipe' = Append(mPipe, cam.buf) /\ mPipe \in Seq(Images) /\ cam.buf \in Images
      BY <1>8, NoPushDrops DEF CamPush, Types
    <3> QED BY <3>1, Appended
  <2> HIDE DEF p, o, r
  <2> QED BY <1>1, <1>2, <2>1, <2>2
<1>9. CASE CamSkipObj
  <2>1. Same /\ cam.pc = "obj" /\ cam'.pc = "size" /\ det' = det
    BY <1>9 DEF CamSkipObj, Types
  <2> HIDE DEF p, o, r
  <2> QED BY <1>1, <1>2, <2>1
<1>10. CASE DetPop
  <2>1. o' = o /\ r' = r /\ cam' = cam /\ det.pc = "pop" /\ det'.pc = "detect"
    BY <1>10 DEF DetPop
  <2>2. p' = p - 1 /\ p # 0
    BY <1>10, Popped DEF DetPop, Types
  <2> HIDE DEF p, o, r
  <2> QED BY <1>1, <1>2, <2>1, <2>2
<1>11. CASE \E faces \in SUBSET Tracks : DetDetect(faces)
  <2>1. Same /\ cam' = cam /\ det.pc = "detect" /\ det'.pc = "callback"
    BY <1>11 DEF DetDetect, Types
  <2> HIDE DEF p, o, r
  <2> QED BY <1>1, <1>2, <2>1
<1>12. CASE DetCallback
  <2>1. p' = p /\ o' = o /\ cam' = cam /\ det.pc = "callback" /\ det'.pc = "release"
    BY <1>12 DEF DetCallback, Types
  <2>2. r' = r + 1
    <3>1. Unlabelled(det.faces) \in SUBSET Tracks /\ mPipe_frg \in Seq(SUBSET Tracks)
      BY DEF Unlabelled, Types
    <3>2. mPipe_frg' = Append(mPipe_frg, Unlabelled(det.faces))
      BY <1>12, NoPushDrops DEF DetCallback
    <3> QED BY <3>1, <3>2, Appended
  <2> HIDE DEF p, o, r
  <2> QED BY <1>1, <1>2, <2>1, <2>2
<1>13. CASE DetRelease
  <2>1. Same /\ cam' = cam /\ det.pc = "release" /\ det'.pc = "pop"
    BY <1>13 DEF DetRelease
  <2> HIDE DEF p, o, r
  <2> QED BY <1>1, <1>2, <2>1
<1>14. CASE RecPop
  <2>1. p' = p /\ o' = o /\ cam' = cam /\ det' = det
    BY <1>14 DEF RecPop
  <2>2. r' = r - 1 /\ r # 0
    BY <1>14, Popped DEF RecPop, Types
  <2> HIDE DEF p, o, r
  <2> QED BY <1>1, <1>2, <2>1, <2>2
<1>15. CASE \/ RecDone \/ XRelease
            \/ \E who \in [rec.todo -> Labels \cup {Nobody}] : RecRecognise(who)
            \/ \E info \in rec.users : RecAdd(info)
  <2>1. Same /\ cam' = cam /\ det' = det
    BY <1>15 DEF RecDone, XRelease, RecRecognise, RecAdd
  <2> HIDE DEF p, o, r
  <2> QED BY <1>1, <1>2, <2>1
<1>16. CASE XPop
  <2>1. p' = p /\ r' = r /\ cam' = cam /\ det' = det
    BY <1>16 DEF XPop
  <2>2. o' = o - 1 /\ o # 0
    BY <1>16, Popped DEF XPop, Types
  <2> HIDE DEF p, o, r
  <2> QED BY <1>1, <1>2, <2>1, <2>2
<1> QED BY <1>4, <1>5, <1>6, <1>7, <1>8, <1>9, <1>10, <1>11, <1>12, <1>13, <1>14, <1>15, <1>16
       DEF Next, Camera, Detect, Recognise, XDetect
-----------------------------------------------------------------------------
(* Hands, work and images *)

LEMMA HandsStep ==
    ASSUME Types, Hands, Next
    PROVE  Hands'
<1>1. CASE Camera
  <2>1. (cam'.pc \in {"size", "obj"} => cam'.buf = NoBuf) /\ det' = det /\ xdet' = xdet
    BY <1>1 DEF Camera, CamRead, CamReadObj, CamKeep, CamRelease, CamPush, CamSkipObj, Types, Hands
  <2> QED BY <2>1 DEF Hands
<1>2. CASE Detect
  <2>1. (det'.pc = "pop" => det'.buf = NoBuf) /\ cam' = cam /\ xdet' = xdet
    <3>1. CASE DetPop \/ DetRelease
      BY <3>1 DEF DetPop, DetRelease
    <3>2. CASE DetCallback
      BY <3>2 DEF DetCallback, Types
    <3>3. CASE \E faces \in SUBSET Tracks : DetDetect(faces)
      BY <3>3 DEF DetDetect, Types
    <3> QED BY <1>2, <3>1, <3>2, <3>3 DEF Detect
  <2> QED BY <2>1 DEF Hands
<1>3. CASE Recognise
  <2>1. cam' = cam /\ det' = det /\ xdet' = xdet
    BY <1>3 DEF Recognise, RecPop, RecRecognise, RecAdd, RecDone
  <2> QED BY <2>1 DEF Hands
<1>4. CASE XDetect
  <2>1. (xdet'.pc = "pop" => xdet'.buf = NoBuf) /\ cam' = cam /\ det' = det
    BY <1>4 DEF XDetect, XPop, XRelease, Types, Hands
  <2> QED BY <2>1 DEF Hands
<1> QED BY <1>1, <1>2, <1>3, <1>4 DEF Next

LEMMA WorkStep ==
    ASSUME Types, Work, Next
    PROVE  Work'
<1>1. CASE rec' = rec
  BY <1>1 DEF Work
<1>2. CASE RecPop
  BY <1>2 DEF RecPop, Work
<1>3. CASE RecDone
  <2>1. rec'.pc = "pop" /\ rec'.todo = rec.todo /\ rec'.users = {} /\ rec.pc = "add"
    BY <1>3 DEF RecDone, Types
  <2> QED BY <2>1 DEF Work
<1>4. ASSUME NEW who \in [rec.todo -> Labels \cup {Nobody}], RecRecognise(who) PROVE Work'
  <2>1. rec'.pc = "add" /\ rec'.todo = {}
    BY <1>4 DEF RecRecognise
  <2>2. rec'.users = {[track |-> t, user |-> who[t]] : t \in {u \in rec.todo : who[u] # Nobody}}
    BY <1>4 DEF RecRecognise
  <2>3. \A u, v \in rec'.users : u.track = v.track => u = v
    BY <2>2
  <2> QED BY <2>1, <2>3 DEF Work
<1>5. ASSUME NEW info \in rec.users, RecAdd(info) PROVE Work'
  <2>1. /\ rec'.pc = "add" /\ rec'.todo = rec.todo /\ rec.pc = "add"
        /\ rec'.users = rec.users \ {info}
    BY <1>5 DEF RecAdd, Types
  <2> QED BY <2>1 DEF Work
<1>6. CASE Camera \/ Detect \/ XDetect
  <2>1. rec' = rec
    BY <1>6 DEF Camera, Detect, XDetect, CamRead, CamReadObj, CamKeep, CamRelease, CamPush, CamSkipObj,
                DetPop, DetDetect, DetCallback, DetRelease, XPop, XRelease
  <2> QED BY <1>1, <2>1
<1> QED BY <1>2, <1>3, <1>4, <1>5, <1>6 DEF Next, Recognise

LEMMA OwnedInit == Init => Owned
<1> SUFFICES ASSUME Init PROVE Owned
  OBVIOUS
<1>1. /\ live = {} /\ Entries(mPipe) = {} /\ Entries(mPipe_obj) = {}
      /\ cam.buf = NoBuf /\ det.buf = NoBuf /\ xdet.buf = NoBuf
  BY DEF Init, Entries
<1>2. Once(mPipe) /\ Once(mPipe_obj)
  BY DEF Init, Once
<1> QED BY <1>1, <1>2, BufferAssumption DEF Owned

\* An image moves from place to place, alone.
LEMMA OwnedStep ==
    ASSUME Types, PipesNeverOverflow, Hands, Owned, Next
    PROVE  Owned'
<1> DEFINE P == Entries(mPipe)
           O == Entries(mPipe_obj)
           Pipes == mPipe' = mPipe /\ mPipe_obj' = mPipe_obj
<1>0. NoBuf \notin Buffers
  BY BufferAssumption
<1>1. /\ Pipes => P' = P /\ O' = O /\ Once(mPipe') /\ Once(mPipe_obj')
      /\ mPipe' = mPipe => P' = P /\ Once(mPipe')
      /\ mPipe_obj' = mPipe_obj => O' = O /\ Once(mPipe_obj')
  BY DEF Owned, Entries, Once
<1>2. \A b \in Buffers :
         /\ b \in live <=> cam.buf = b \/ b \in P \/ det.buf = b \/ b \in O \/ xdet.buf = b
         /\ cam.buf = b => b \notin P /\ det.buf # b /\ b \notin O /\ xdet.buf # b
         /\ b \in P => det.buf # b /\ b \notin O /\ xdet.buf # b
         /\ det.buf = b => b \notin O /\ xdet.buf # b
         /\ b \in O => xdet.buf # b
  BY DEF Owned
<1>3. SUFFICES
      /\ \A b \in Buffers :
         /\ b \in live' <=> cam'.buf = b \/ b \in P' \/ det'.buf = b \/ b \in O' \/ xdet'.buf = b
         /\ cam'.buf = b => b \notin P' /\ det'.buf # b /\ b \notin O' /\ xdet'.buf # b
         /\ b \in P' => det'.buf # b /\ b \notin O' /\ xdet'.buf # b
         /\ det'.buf = b => b \notin O' /\ xdet'.buf # b
         /\ b \in O' => xdet'.buf # b
      /\ Once(mPipe') /\ Once(mPipe_obj')
  BY DEF Owned
<1>4. CASE \E e \in Images : CamRead(e)
  <2>1. PICK e \in Images : CamRead(e)
    BY <1>4
  <2>2. Pipes /\ cam.buf = NoBuf /\ cam'.buf = e /\ det' = det /\ xdet' = xdet /\ live' = live \cup ({e} \ {NoBuf})
    BY <2>1 DEF CamRead, Hands, Allocated
  <2>3. e \notin live
    BY <2>1, ReadIsFresh DEF CamRead
  <2> HIDE DEF P, O
  <2> QED BY <1>0, <1>1, <1>2, <2>2, <2>3
<1>5. CASE \E e \in Images : CamReadObj(e)
  <2>1. PICK e \in Images : CamReadObj(e)
    BY <1>5
  <2>2. /\ mPipe' = mPipe /\ cam.buf = NoBuf /\ cam'.buf = NoBuf /\ det' = det /\ xdet' = xdet
        /\ live' = live \cup ({e} \ {NoBuf})
    BY <2>1 DEF CamReadObj, Hands, Allocated, Types
  <2>3. O = {} /\ O' = {e} /\ Once(mPipe_obj')
    <3>1. mPipe_obj = <<>> /\ mPipe_obj' = <<e>>
      BY <2>1, NoPushDrops DEF CamReadObj
    <3> QED BY <3>1 DEF Entries, Once
  <2>4. e \notin live
    BY <2>1, ReadIsFresh DEF CamReadObj
  <2> HIDE DEF P, O
  <2> QED BY <1>0, <1>1, <1>2, <2>2, <2>3, <2>4
<1>6. CASE CamRelease
  <2>1. Pipes /\ cam'.buf = NoBuf /\ det' = det /\ xdet' = xdet /\ live' = live \ {cam.buf}
    BY <1>6 DEF CamRelease, Freed
  <2> HIDE DEF P, O
  <2> QED BY <1>0, <1>1, <1>2, <2>1
<1>7. CASE CamPush
  <2>1. mPipe_obj' = mPipe_obj /\ cam'.buf = NoBuf /\ det' = det /\ xdet' = xdet /\ live' = live
    BY <1>7 DEF CamPush
  <2>2. P' = P \cup {cam.buf} /\ Once(mPipe')
    <3>1. mPipe' = Append(mPipe, cam.buf) /\ mPipe \in Seq(Images) /\ cam.buf \in Images
      BY <1>7, NoPushDrops DEF CamPush, Types
    <3>2. cam.buf \notin Held(P)
      BY <1>2, ImagesIn DEF Held
    <3> QED BY <3>1, <3>2, Appended DEF Owned
  <2> HIDE DEF P, O
  <2> QED BY <1>0, <1>1, <1>2, <2>1, <2>2
<1>8. CASE DetPop
  <2>1. /\ mPipe_obj' = mPipe_obj /\ cam' = cam /\ xdet' = xdet /\ live' = live
        /\ det.buf = NoBuf /\ det'.buf = Head(mPipe)
    BY <1>8 DEF DetPop, Hands
  <2>2. P = P' \cup {Head(mPipe)} /\ Head(mPipe) \notin Held(P') /\ Once(mPipe')
    BY <1>8, Popped DEF DetPop, Types, Owned
  <2> HIDE DEF P, O
  <2> QED BY <1>0, <1>1, <1>2, <2>1, <2>2 DEF Held
<1>9. CASE DetRelease
  <2>1. Pipes /\ det'.buf = NoBuf /\ cam' = cam /\ xdet' = xdet /\ live' = live \ {det.buf}
    BY <1>9 DEF DetRelease, Freed
  <2> HIDE DEF P, O
  <2> QED BY <1>0, <1>1, <1>2, <2>1
<1>10. CASE XPop
  <2>1. /\ mPipe' = mPipe /\ cam' = cam /\ det' = det /\ live' = live
        /\ xdet.buf = NoBuf /\ xdet'.buf = Head(mPipe_obj)
    BY <1>10 DEF XPop, Hands
  <2>2. O = O' \cup {Head(mPipe_obj)} /\ Head(mPipe_obj) \notin Held(O') /\ Once(mPipe_obj')
    BY <1>10, Popped DEF XPop, Types, Owned
  <2> HIDE DEF P, O
  <2> QED BY <1>0, <1>1, <1>2, <2>1, <2>2 DEF Held
<1>11. CASE XRelease
  <2>1. Pipes /\ xdet'.buf = NoBuf /\ cam' = cam /\ det' = det /\ live' = live \ {xdet.buf}
    BY <1>11 DEF XRelease, Freed
  <2> HIDE DEF P, O
  <2> QED BY <1>0, <1>1, <1>2, <2>1
<1>12. ASSUME Pipes, cam'.buf = cam.buf, det'.buf = det.buf, xdet'.buf = xdet.buf, live' = live
       PROVE  Owned'
  <2> HIDE DEF P, O
  <2>1. P' = P /\ O' = O /\ Once(mPipe') /\ Once(mPipe_obj')
    BY <1>1, <1>12
  <2> USE DEF P, O
  <2> QED BY <1>2, <1>12, <2>1 DEF Owned
<1>13. CASE CamKeep
  BY <1>12, <1>13 DEF CamKeep, Types, Owned
<1>14. CASE CamSkipObj
  BY <1>12, <1>14 DEF CamSkipObj, Types, Owned
<1>15. CASE DetCallback
  BY <1>12, <1>15 DEF DetCallback, Types, Owned
<1>16. CASE \E faces \in SUBSET Tracks : DetDetect(faces)
  BY <1>12, <1>16 DEF DetDetect, Types, Owned
<1>17. CASE Recognise
  <2>1. Pipes /\ cam' = cam /\ det' = det /\ xdet' = xdet /\ live' = live
    BY <1>17 DEF Recognise, RecPop, RecRecognise, RecAdd, RecDone
  <2> QED BY <1>12, <2>1 DEF Owned
<1> QED BY <1>4, <1>5, <1>6, <1>7, <1>8, <1>9, <1>10, <1>11, <1>13, <1>14, <1>15, <1>16, <1>17
       DEF Next, Camera, Detect, XDetect
-----------------------------------------------------------------------------
(* The size of the list *)

\* The recogniser has the track in its hands.
Busy(t) == t \in rec.todo \/ \E u \in rec.users : u.track = t

LEMMA Counted ==
    ASSUME Types, NEW t
    PROVE  /\ IsFiniteSet(ItemsOf(t)) /\ Cardinality(ItemsOf(t)) \in Nat
           /\ IsFiniteSet(JobsOf(t)) /\ Cardinality(JobsOf(t)) \in Nat
           /\ Cardinality(JobsOf(t)) <= Len(mPipe_frg) /\ Len(mPipe_frg) \in Nat
<1>1. Len(mPipe_frg) \in Nat /\ Len(mTmp_FaceDB) \in Nat
  BY DEF Types
<1>2. ItemsOf(t) \in SUBSET (1 .. Len(mTmp_FaceDB)) /\ JobsOf(t) \in SUBSET (1 .. Len(mPipe_frg))
  BY DEF ItemsOf, JobsOf, Types
<1>3. \A n \in Nat : IsFiniteSet(1 .. n) /\ Cardinality(1 .. n) = n
  BY FS_Interval
<1>4. /\ IsFiniteSet(ItemsOf(t)) /\ IsFiniteSet(JobsOf(t))
      /\ Cardinality(JobsOf(t)) <= Cardinality(1 .. Len(mPipe_frg))
  BY <1>1, <1>2, <1>3, FS_Subset
<1> QED BY <1>1, <1>3, <1>4, FS_CardinalityType

LEMMA ItemsInit == Init => ItemsBounded
<1> SUFFICES ASSUME Init, NEW t \in Tracks
             PROVE  Cardinality(ItemsOf(t)) + Cardinality(JobsOf(t)) + (IF Busy(t) THEN 1 ELSE 0)
                      <= FrgLimit + PipeCap + 2
  BY DEF ItemsBounded, Busy
<1>1. ItemsOf(t) = {} /\ JobsOf(t) = {} /\ ~Busy(t)
  BY DEF Init, ItemsOf, JobsOf, Busy
<1> QED BY <1>1, FS_EmptySet, PipeAssumption

\* A recognition is queued for a track without items only, so what a track has grows no further
\* than the queue.
LEMMA ItemsStep ==
    ASSUME Types, PipesNeverOverflow, Work, ItemsBounded, Next
    PROVE  ItemsBounded'
<1> DEFINE Most == FrgLimit + PipeCap + 2
           W(b) == IF b THEN 1 ELSE 0
<1> SUFFICES ASSUME NEW t \in Tracks
             PROVE  Cardinality(ItemsOf(t)') + Cardinality(JobsOf(t)') + (IF Busy(t)' THEN 1 ELSE 0) <= Most
  BY DEF ItemsBounded, Busy
<1> DEFINE I == ItemsOf(t)
           J == JobsOf(t)
           c == Cardinality(I)
           d == Cardinality(J)
           w == IF Busy(t) THEN 1 ELSE 0
<1>1. c \in Nat /\ d \in Nat /\ w \in {0, 1} /\ Most \in Nat /\ c + d + w <= Most
  <2>1. c \in Nat /\ d \in Nat
    BY Counted
  <2>2. w \in {0, 1} /\ Most \in Nat
    BY PipeAssumption
  <2>3. c + d + w <= Most
    BY DEF ItemsBounded, Busy
  <2> QED BY <2>1, <2>2, <2>3
<1>2. ASSUME mTmp_FaceDB' = mTmp_FaceDB, mPipe_frg' = mPipe_frg, Busy(t)' => Busy(t)
      PROVE  c' + d' + w' <= Most
  <2>1. c' = c /\ d' = d /\ w' <= w
    BY <1>2 DEF ItemsOf, JobsOf
  <2>2. w' \in {0, 1}
    OBVIOUS
  <2> QED BY <1>1, <2>1, <2>2
<1>3. CASE Camera \/ XDetect \/ DetPop \/ DetRelease \/ \E faces \in SUBSET Tracks : DetDetect(faces)
  <2>1. mTmp_FaceDB' = mTmp_FaceDB /\ mPipe_frg' = mPipe_frg /\ rec' = rec
    BY <1>3 DEF Camera, XDetect, CamRead, CamReadObj, CamKeep, CamRelease, CamPush, CamSkipObj,
                DetPop, DetDetect, DetRelease, XPop, XRelease
  <2> QED BY <1>2, <2>1 DEF Busy
<1>4. CASE RecDone
  <2>1. mTmp_FaceDB' = mTmp_FaceDB /\ mPipe_frg' = mPipe_frg /\ rec'.todo = rec.todo /\ rec'.users = rec.users
    BY <1>4 DEF RecDone, Types
  <2> QED BY <1>2, <2>1 DEF Busy
<1>5. CASE \E who \in [rec.todo -> Labels \cup {Nobody}] : RecRecognise(who)
  <2>1. PICK who : RecRecognise(who)
    BY <1>5
  <2>2. /\ mTmp_FaceDB' = mTmp_FaceDB /\ mPipe_frg' = mPipe_frg /\ rec'.todo = {}
        /\ rec'.users = {[track |-> tt, user |-> who[tt]] : tt \in {u \in rec.todo : who[u] # Nobody}}
    BY <2>1 DEF RecRecognise
  <2>3. \A u \in rec'.users : u.track \in rec.todo
    BY <2>2
  <2> QED BY <1>2, <2>2, <2>3 DEF Busy
<1>6. CASE RecPop
  <2> DEFINE n == Len(mPipe_frg)
  <2>1. /\ mTmp_FaceDB' = mTmp_FaceDB /\ rec'.todo = Head(mPipe_frg) /\ rec'.users = {}
        /\ mPipe_frg' = Tail(mPipe_frg) /\ ~Busy(t)
    BY <1>6 DEF RecPop, Work, Busy
  <2>2. /\ n \in Nat \ {0} /\ Len(mPipe_frg') = n - 1
        /\ \A i \in 1 .. n - 1 : mPipe_frg'[i] = mPipe_frg[i + 1]
        /\ mPipe_frg' \in Seq(SUBSET Tracks) /\ Head(mPipe_frg) = mPipe_frg[1]
    BY <1>6, Popped DEF RecPop, Types
  <2>3. J \in SUBSET (1 .. n)
    BY DEF JobsOf, Types
  <2>4. J' = {i \in 1 .. n - 1 : i + 1 \in J}
    BY <2>2 DEF JobsOf, Types
  <2>5. IsFiniteSet(J') /\ d = Cardinality(J') + (IF 1 \in J THEN 1 ELSE 0)
    <3>1. PICK S, K, m : S = J /\ K = J' /\ m = n
      OBVIOUS
    <3> HIDE DEF J, n
    <3>2. m \in Nat \ {0} /\ S \in SUBSET (1 .. m) /\ K = {i \in 1 .. m - 1 : i + 1 \in S}
      BY <2>2, <2>3, <2>4, <3>1
    <3>3. IsFiniteSet(K) /\ Cardinality(S) = Cardinality(K) + (IF 1 \in S THEN 1 ELSE 0)
      BY <3>2, Moved
    <3> QED BY <3>1, <3>3
  <2>6. 1 \in J <=> Busy(t)'
    BY <2>1, <2>2 DEF JobsOf, Busy, Types
  <2>7. c' = c /\ d = d' + w' /\ w = 0
    BY <2>1, <2>5, <2>6 DEF ItemsOf
  <2>8. d' \in Nat /\ w' \in {0, 1}
    BY <2>5, FS_CardinalityType
  <2> QED BY <1>1, <2>7, <2>8
<1>7. CASE \E info \in rec.users : RecAdd(info)
  <2>1. PICK info \in rec.users : RecAdd(info)
    BY <1>7
  <2>2. /\ mTmp_FaceDB' = Append(mTmp_FaceDB, info) /\ mPipe_frg' = mPipe_frg
        /\ rec.todo = {} /\ rec'.todo = {} /\ rec'.users = rec.users \ {info}
    BY <2>1 DEF RecAdd, Types, Work
  <2> DEFINE n == Len(mTmp_FaceDB)
  <2>3. /\ n \in Nat /\ DOMAIN mTmp_FaceDB = 1 .. n /\ DOMAIN mTmp_FaceDB' = 1 .. n + 1
        /\ mTmp_FaceDB'[n + 1] = info /\ \A i \in 1 .. n : mTmp_FaceDB'[i] = mTmp_FaceDB[i]
    <3>1. info \in Item /\ mTmp_FaceDB \in Seq(Item)
      BY DEF Types
    <3> QED BY <2>2, <3>1
  <2> HIDE DEF n
  <2>4. IsFiniteSet(I) /\ I \subseteq 1 .. n
    BY <2>3, Counted DEF ItemsOf
  <2>5. CASE info.track = t
    <3>1. I' = I \cup {n + 1} /\ n + 1 \notin I
      BY <2>3, <2>4, <2>5 DEF ItemsOf
    <3>2. c' = c + 1
      <4> HIDE DEF I
      <4> QED BY <2>4, <3>1, FS_AddElement
    <3>3. d' = d
      BY <2>2 DEF JobsOf
    <3>4. Busy(t) /\ ~Busy(t)'
      BY <2>1, <2>2, <2>5 DEF Busy, Work
    <3>5. w = 1 /\ w' = 0
      BY <3>4
    <3> QED BY <1>1, <3>2, <3>3, <3>5
  <2>6. CASE info.track # t
    <3>1. I' = I
      BY <2>3, <2>6 DEF ItemsOf
    <3>2. Busy(t)' => Busy(t)
      BY <2>2 DEF Busy
    <3>3. c' = c /\ d' = d /\ w' <= w /\ w' \in {0, 1}
      BY <2>2, <3>1, <3>2 DEF JobsOf
    <3> QED BY <1>1, <3>3
  <2> QED BY <2>5, <2>6
<1>8. CASE DetCallback
  <2> DEFINE n == Len(mPipe_frg)
             new == Unlabelled(det.faces)
  <2>1. /\ mTmp_FaceDB' = KeptItems(det.faces) /\ mPipe_frg' = Append(mPipe_frg, new) /\ rec' = rec
        /\ det.pc = "callback"
    BY <1>8, NoPushDrops DEF DetCallback
  <2>2. /\ n \in Nat /\ DOMAIN mPipe_frg = 1 .. n /\ DOMAIN mPipe_frg' = 1 .. n + 1
        /\ mPipe_frg'[n + 1] = new /\ \A i \in 1 .. n : mPipe_frg'[i] = mPipe_frg[i]
    <3>1. new \in SUBSET Tracks /\ mPipe_frg \in Seq(SUBSET Tracks)
      BY DEF Types, Unlabelled
    <3> HIDE DEF new
    <3> QED BY <2>1, <3>1
  <2>3. IsFiniteSet(I') /\ c' <= c /\ c' \in Nat
    <3>1. I' = {i \in DOMAIN KeptItems(det.faces) : KeptItems(det.faces)[i].track = t}
      BY <2>1 DEF ItemsOf
    <3>2. IsFiniteSet(I') /\ Cardinality(I') <= Cardinality(ItemsOf(t))
      <4> DEFINE kept == {i \in DOMAIN KeptItems(det.faces) : KeptItems(det.faces)[i].track = t}
      <4>1. mTmp_FaceDB \in Seq(Item)
        BY DEF Types
      <4>2. IsFiniteSet(kept) /\ Cardinality(kept) <= Cardinality(ItemsOf(t))
        BY <4>1, Kept
      <4> QED BY <3>1, <4>2
    <3> QED BY <3>2, FS_CardinalityType
  <2>4. w' = w
    BY <2>1 DEF Busy
  <2> HIDE DEF n
  <2>5. CASE t \notin new
    <3>1. J' = J
      BY <2>2, <2>5 DEF JobsOf
    <3>2. d' = d
      BY <3>1
    <3> QED BY <1>1, <2>3, <2>4, <3>2
  <2>6. CASE t \in new
    <3>1. I = {}
      BY <2>6, Labelled DEF Unlabelled, ItemsOf, Types
    <3>2. c = 0
      BY <3>1, FS_EmptySet
    <3>3. J' = J \cup {n + 1} /\ J \subseteq 1 .. n
      BY <2>2, <2>6 DEF JobsOf
    <3>4. d' = d + 1
      <4>1. IsFiniteSet(J)
        BY Counted
      <4>2. n + 1 \notin J
        BY <2>2, <3>3
      <4> HIDE DEF J
      <4> QED BY <3>3, <4>1, <4>2, FS_AddElement
    <3>5. d <= n
      BY Counted DEF n
    <3>6. n + 1 <= FrgLimit + PipeCap + 1
      <4>1. Ahead >= 1
        <5>1. Len(mPipe) \in Nat
          BY DEF Types
        <5> QED BY <2>1, <5>1 DEF Ahead
      <4>2. n + Ahead <= FrgLimit + PipeCap + 1
        BY DEF PipesNeverOverflow, n
      <4>3. Ahead \in Nat
        <5>1. Len(mPipe) \in Nat
          BY DEF Types
        <5>2. CASE cam.pc = "push"
          BY <2>1, <5>1, <5>2 DEF Ahead
        <5>3. CASE cam.pc # "push"
          BY <2>1, <5>1, <5>3 DEF Ahead
        <5> QED BY <5>2, <5>3
      <4> QED BY <2>2, <4>1, <4>2, <4>3, PipeAssumption
    <3>7. FrgLimit \in Nat /\ PipeCap \in Nat
      BY PipeAssumption
    <3>8. c' = 0
      BY <2>3, <3>2
    <3> QED BY <1>1, <2>2, <2>4, <3>4, <3>5, <3>6, <3>7, <3>8
  <2> QED BY <2>5, <2>6
<1> QED BY <1>3, <1>4, <1>5, <1>6, <1>7, <1>8 DEF Next, Detect, Recognise
-----------------------------------------------------------------------------
(* The theorems *)

LEMMA IInvInit == Init => IInv
<1>1. Init => Hands /\ Work
  BY DEF Init, Hands, Work
<1> QED BY <1>1, TypesInit, NoOverflowInit, OwnedInit, ItemsInit DEF IInv

LEMMA IInvStep == IInv /\ [Next]_vars => IInv'
<1> SUFFICES ASSUME IInv, [Next]_vars PROVE IInv'
  OBVIOUS
<1>1. Types /\ PipesNeverOverflow /\ Hands /\ Owned /\ Work /\ ItemsBounded
  BY DEF IInv
<1>2. CASE Next
  <2>1. Types'
    BY <1>1, <1>2, TypesStep
  <2>2. PipesNeverOverflow'
    BY <1>1, <1>2, NoOverflowStep
  <2>3. Hands'
    BY <1>1, <1>2, HandsStep
  <2>4. Owned'
    BY <1>1, <1>2, OwnedStep
  <2>5. Work'
    BY <1>1, <1>2, WorkStep
  <2>6. ItemsBounded'
    BY <1>1, <1>2, ItemsStep
  <2> QED BY <2>1, <2>2, <2>3, <2>4, <2>5, <2>6 DEF IInv
<1>3. CASE vars' = vars
  <2>1. Types' /\ PipesNeverOverflow'
    BY <1>1, <1>3 DEF vars, Types, PipesNeverOverflow, Ahead
  <2>2. Hands' /\ Work'
    BY <1>1, <1>3 DEF vars, Hands, Work
  <2>3. Owned'
    BY <1>1, <1>3 DEF vars, Owned, Once, Entries
  <2>4. ItemsBounded'
    BY <1>1, <1>3 DEF vars, ItemsBounded, ItemsOf, JobsOf
  <2> QED BY <2>1, <2>2, <2>3, <2>4 DEF IInv
<1> QED BY <1>2, <1>3

LEMMA IInvAlways == Spec => []IInv
BY IInvInit, IInvStep, PTL DEF Spec

\* The locals, the pipes and the tracked-face list keep their types; the camera's two looks at
\* the pipes are enough for no push ever to meet a full one; and the list has no more items of a
\* track than there are recognitions under way.
THEOREM TypeCorrect == Spec => []TypeOK
<1>1. IInv => TypeOK
  BY DEF IInv, Types, TypeOK
<1> QED BY <1>1, IInvAlways, PTL

\* Every malloc'ed image is in one place, a thread's hands or a pipe: none is leaked, none is
\* freed, or handed over, while another thread has it.
THEOREM ImagesOwned == Spec => []EveryImageOwned
<1>1. IInv => EveryImageOwned
  BY OwnedIsOwned DEF IInv
<1> QED BY <1>1, IInvAlways, PTL

\* A step takes a track's label away only if it is the callback of a detection without it.
LEMMA LabelsKept ==
    ASSUME IInv, IInv', [Next]_vars
    PROVE  \A t \in Tracks : LabelIn(mTmp_FaceDB, t) # Nobody /\ LabelIn(mTmp_FaceDB, t)' = Nobody
             => det.pc = "callback" /\ t \notin det.faces
<1> DEFINE db == mTmp_FaceDB
<1> SUFFICES ASSUME NEW t \in Tracks, LabelIn(db, t) # Nobody, LabelIn(db', t) = Nobody
             PROVE  det.pc = "callback" /\ t \notin det.faces
  OBVIOUS
<1>1. db \in Seq(Item) /\ db' \in Seq(Item)
  BY DEF IInv, Types
<1>2. PICK i \in DOMAIN db : db[i].track = t
  BY <1>1, Labelled
<1>3. \A j \in DOMAIN db' : db'[j].track # t
  BY <1>1, Labelled
<1>4. db' # db
  BY <1>2, <1>3
<1>5. CASE DetCallback
  <2>1. det.pc = "callback" /\ db' = KeptItems(det.faces)
    BY <1>5 DEF DetCallback
  <2>2. ASSUME t \in det.faces PROVE FALSE
    <3>1. \E j \in DOMAIN KeptItems(det.faces) : KeptItems(det.faces)[j] = db[i]
      BY <1>1, <1>2, <2>2, Kept
    <3> QED BY <1>2, <1>3, <2>1, <3>1
  <2> QED BY <2>1, <2>2
<1>6. CASE \E info \in rec.users : RecAdd(info)
  <2>1. PICK info \in rec.users : db' = Append(db, info)
    BY <1>6 DEF RecAdd
  <2>2. info \in Item
    BY DEF IInv, Types
  <2>3. i \in DOMAIN db' /\ db'[i] = db[i]
    BY <1>1, <1>2, <2>1, <2>2
  <2> QED BY <1>2, <1>3, <2>3
<1>7. Next
  BY <1>4 DEF vars
<1>8. Camera \/ XDetect \/ DetPop \/ DetRelease \/ RecPop \/ RecDone
        \/ (\E faces \in SUBSET Tracks : DetDetect(faces))
        \/ (\E who \in [rec.todo -> Labels \cup {Nobody}] : RecRecognise(who))
      => db' = db
  BY DEF Camera, XDetect, CamRead, CamReadObj, CamKeep, CamRelease, CamPush, CamSkipObj,
         DetPop, DetDetect, DetRelease, RecPop, RecDone, RecRecognise, XPop, XRelease
<1> QED BY <1>4, <1>5, <1>6, <1>7, <1>8 DEF Next, Detect, Recognise

\* A face in view that is known stays known: only a detection without its track takes its items away.
THEOREM KnownFacesStayKnown == Spec => KnownStaysKnown
BY IInvAlways, LabelsKept, PTL DEF Spec, KnownStaysKnown
=============================================================================
