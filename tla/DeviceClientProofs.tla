------------------------- MODULE DeviceClientProofs -------------------------
(* What holds of DeviceClient for every value of its constants.            *)
EXTENDS DeviceClient, TLAPS

\* What most proofs need of the constants.
LEMMA Constants ==
  /\ Kinds \subseteq OpKinds
  /\ Width \in Nat /\ Width >= 2 /\ Height \in Nat /\ Height >= 2
  /\ Scales \subseteq Int
  /\ MaxInt \in Nat /\ MaxInt >= 2 * Unit
  /\ Inputs \subseteq Types \X Int
  /\ MaxOps \in Nat /\ MaxTurns \in Nat
  /\ LossyLink \in BOOLEAN
  BY DeviceAssumption

USE Constants

\* The steps of one user.
Step(u) == \/ CachedSize(u) \/ CachedHeight(u) \/ NoSize(u) \/ Measure(u) \/ Store(u) \/ StoreRest(u)
           \/ Aim(u) \/ Send(u) \/ Look(u) \/ Power(u) \/ Down(u) \/ Up(u)

(***************************************************************************)
(* Sizes are pairs of sides.                                               *)
(***************************************************************************)
LEMMA Pairs ==
  ASSUME NEW p \in Sides \X Sides
  PROVE  p[1] \in Sides /\ p[2] \in Sides /\ p = <<p[1], p[2]>>
  OBVIOUS

LEMMA SidesNat ==
  /\ Sides \subseteq Nat /\ 0 \in Sides
  /\ Upright \in Sides \X Sides /\ Across \in Sides \X Sides
  /\ \A i \in 1..2 : Upright[i] >= 2 /\ Across[i] >= 2
  BY DEF Sides, Upright, Across

(***************************************************************************)
(* SwipeDirection computes points within the size it is given.             *)
(***************************************************************************)
LEMMA ScaleRange ==
  ASSUME NEW s \in Int
  PROVE  Scale(s) \in Nat \ {0} /\ Scale(s) <= 100 * 100
<1>1. CASE s \in 1..Unit
  <2>1. Scale(s) = s
    BY <1>1 DEF Scale
  <2> QED
    BY <1>1, <2>1 DEF Unit
<1>2. CASE s \notin 1..Unit
  <2>1. Scale(s) = 90 * 100
    BY <1>2 DEF Scale
  <2> QED
    BY <2>1
<1> QED
  BY <1>1, <1>2

LEMMA Products ==
  ASSUME NEW a \in Nat, NEW b \in Nat, NEW c \in Nat, b <= c
  PROVE  a * b \in Nat /\ a * (c - b) \in Nat /\ a * (c - b) + a * b = c * a
  OBVIOUS

LEMMA OffsetBounds ==
  ASSUME NEW length \in Nat, NEW s \in Int, NEW x \in Offsets(length, s)
  PROVE  /\ x \in Nat /\ x <= length - x
         /\ length * Scale(s) >= 200 * 100 => x < length \div 2 /\ x < length - x
<1> DEFINE q == length * Scale(s)
           n == length * (100 * 100 - Scale(s))
<1>1. Scale(s) \in Nat \ {0} /\ Scale(s) <= 100 * 100
  BY ScaleRange
<1>2. q \in Nat /\ n \in Nat /\ n + q = (100 * 100) * length
  <2>1. Scale(s) \in Nat /\ 100 * 100 \in Nat /\ Scale(s) <= 100 * 100
    BY <1>1
  <2> QED
    BY <2>1, Products
<1>3. x = n \div (200 * 100) \/ (n > 0 /\ n % (200 * 100) = 0 /\ x = n \div (200 * 100) - 1)
  BY DEF Offsets, Unit
<1> HIDE DEF q, n
<1>4. n \div (200 * 100) \in Nat /\ (200 * 100) * (n \div (200 * 100)) <= n
      /\ (n > 0 /\ n % (200 * 100) = 0 => n \div (200 * 100) >= 1)
  BY <1>2
<1>5. x \in Nat /\ (200 * 100) * x <= n
  BY <1>2, <1>3, <1>4
<1>6. length \div 2 \in Nat /\ 2 * (length \div 2) >= length - 1
  OBVIOUS
<1>7. q >= 200 * 100 => x < length \div 2 /\ x < length - x
  BY <1>2, <1>5, <1>6
<1>8. x <= length - x
  BY <1>2, <1>5
<1> QED
  BY <1>5, <1>7, <1>8 DEF q

LEMMA PathsWithin ==
  ASSUME NEW w \in Nat, NEW h \in Nat, NEW s \in Int, NEW p \in Paths(s, w, h)
  PROVE  /\ p[1][1] \in 0..w /\ p[1][2] \in 0..h
         /\ p[2][1] \in 0..w /\ p[2][2] \in 0..h
         /\ w * Scale(s) >= 200 * 100 /\ h * Scale(s) >= 200 * 100 => p[1] # p[2]
<1>1. PICK x \in Offsets(w, s), y \in Offsets(h, s) :
        \/ p = <<<<w - x, h \div 2>>, <<x, h \div 2>>>>
        \/ p = <<<<x, h \div 2>>, <<w - x, h \div 2>>>>
        \/ p = <<<<w \div 2, h \div 2>>, <<w \div 2, y>>>>
        \/ p = <<<<w \div 2, h \div 2>>, <<w \div 2, h - y>>>>
  BY DEF Paths
<1>2. /\ x \in Nat /\ x <= w - x
      /\ y \in Nat /\ y <= h - y
  BY OffsetBounds
<1>3. /\ w * Scale(s) >= 200 * 100 => x < w - x
      /\ h * Scale(s) >= 200 * 100 => y < h \div 2 /\ y < h - y
  BY OffsetBounds
<1>4. /\ w \div 2 \in 0..w /\ h \div 2 \in 0..h
      /\ 2 * (w \div 2) <= w /\ 2 * (h \div 2) <= h
  OBVIOUS
<1>5. /\ p[1][1] \in 0..w /\ p[1][2] \in 0..h
      /\ p[2][1] \in 0..w /\ p[2][2] \in 0..h
  BY <1>1, <1>2, <1>4
<1>6. ASSUME w * Scale(s) >= 200 * 100, h * Scale(s) >= 200 * 100 PROVE p[1] # p[2]
  <2>1. x < w - x /\ y < h \div 2 /\ y < h - y
    BY <1>3, <1>6
  <2> QED
    BY <1>1, <1>2, <1>4, <2>1
<1> QED
  BY <1>5, <1>6

LEMMA UnlockWithin ==
  ASSUME NEW w \in Nat, NEW h \in Nat, NEW p, p = UnlockPath(w, h)
  PROVE  /\ p[1][1] \in 0..w /\ p[1][2] \in 0..h
         /\ p[2][1] \in 0..w /\ p[2][2] \in 0..h
         /\ w >= 2 => p[1] # p[2]
<1>1. /\ w \div 10 \in 0..w /\ h \div 10 \in 0..h
      /\ (w * 9) \div 10 \in 0..w /\ (h * 9) \div 10 \in 0..h
      /\ w >= 2 => w \div 10 < (w * 9) \div 10
  OBVIOUS
<1> QED
  BY <1>1 DEF UnlockPath

LEMMA PathsInt ==
  ASSUME NEW w \in Nat, NEW h \in Nat
  PROVE  /\ UnlockPath(w, h) \in (Int \X Int) \X (Int \X Int)
         /\ \A s \in Scales : Paths(s, w, h) \subseteq (Int \X Int) \X (Int \X Int)
<1>1. ASSUME NEW length \in Nat, NEW s \in Int PROVE Offsets(length, s) \subseteq Int
  <2>1. length * (Unit - Scale(s)) \in Int
    <3>1. Scale(s) \in Nat /\ Unit \in Nat /\ Scale(s) <= Unit
      BY ScaleRange DEF Unit
    <3> QED
      BY <3>1, Products
  <2> QED
    BY <2>1 DEF Offsets, Unit
<1>2. ASSUME NEW s \in Int, NEW p \in Paths(s, w, h) PROVE p \in (Int \X Int) \X (Int \X Int)
  <2>1. PICK x \in Int, y \in Int :
          \/ p = <<<<w - x, h \div 2>>, <<x, h \div 2>>>>
          \/ p = <<<<x, h \div 2>>, <<w - x, h \div 2>>>>
          \/ p = <<<<w \div 2, h \div 2>>, <<w \div 2, y>>>>
          \/ p = <<<<w \div 2, h \div 2>>, <<w \div 2, h - y>>>>
    BY <1>1 DEF Paths
  <2> QED
    BY <2>1
<1>3. UnlockPath(w, h) \in (Int \X Int) \X (Int \X Int)
  BY DEF UnlockPath
<1> QED
  BY <1>2, <1>3

(***************************************************************************)
(* Initially the invariant holds.                                          *)
(***************************************************************************)
LEMMA InitInv == Init => IInv
<1> SUFFICES ASSUME Init PROVE IInv
  OBVIOUS
<1>1. TypeOK
  <2>1. data \in [Keys -> Types \X Int] /\ \A k \in Keys : Accepts(k, data[k])
    BY DEF Init, Default, Accepts, Keys, Types, Unit
  <2>2. {on, finger, steady, failed} \subseteq BOOLEAN
    BY Zenon DEF Init
  <2>3. /\ pc \in [Users -> Labels] /\ kind \in [Users -> OpKinds \cup {"none"}]
        /\ ops \in 0..MaxOps /\ turns \in 0..MaxTurns
    BY DEF Init, Labels
  <2>4. /\ size \in [Users -> Sides \X Sides] /\ cache \in Sides \X Sides
        /\ path \in [Users -> (Int \X Int) \X (Int \X Int)]
        /\ screen \in {Upright, Across}
    BY SidesNat DEF Init, NoPath
  <2>5. torn \subseteq Users /\ sole \subseteq Users /\ late \subseteq Events
    BY DEF Init
  <2> QED
    BY <2>1, <2>2, <2>3, <2>4, <2>5 DEF TypeOK
<1>2. OnScreen /\ FingerUp /\ UnlockWakes /\ StoreInv /\ AimInv /\ LookInv
  BY DEF Init, OnScreen, FingerUp, UnlockWakes, StoreInv, AimInv, LookInv
<1>3. CacheInv /\ SizeInv
  BY DEF Init, CacheInv, SizeInv, PartOf
<1> QED
  BY <1>1, <1>2, <1>3 DEF IInv

(***************************************************************************)
(* Types, one action after the other.                                      *)
(***************************************************************************)
LEMMA TypeStep ==
  ASSUME IInv, Next
  PROVE  TypeOK'
<1>1. /\ TypeOK
      /\ \A u \in Users : size[u] \in Sides \X Sides /\ size[u][1] \in Sides /\ size[u][2] \in Sides
      /\ cache[1] \in Sides /\ cache[2] \in Sides
      /\ screen \in Sides \X Sides
  BY SidesNat, Pairs DEF IInv, TypeOK
<1>2. ASSUME Turn \/ Switch PROVE TypeOK'
  <2>1. /\ UNCHANGED <<pc, kind, size, path, cache, data, torn, failed, finger, late>>
        /\ ops' \in 0..MaxOps /\ turns' \in 0..MaxTurns
        /\ screen' \in {Upright, Across}
        /\ sole' \subseteq Users
    BY <1>1, <1>2 DEF Turn, Switch, local, TypeOK
  <2>2. on' \in BOOLEAN /\ steady' \in BOOLEAN
    BY <1>1, <1>2, Zenon DEF Turn, Switch, TypeOK
  <2> QED
    BY <1>1, <2>1, <2>2 DEF TypeOK
<1>6. ASSUME NEW event \in Events, Land(event) PROVE TypeOK'
  <2>1. /\ UNCHANGED <<pc, kind, ops, size, path, cache, data, screen, turns, steady, torn>>
        /\ late' \subseteq Events /\ sole' \subseteq Users
    BY <1>1, <1>6 DEF Land, local, TypeOK
  <2>2. CASE event = "power"
    <3>1. on' \in BOOLEAN /\ UNCHANGED <<finger, failed>>
      BY <1>6, <2>2, Zenon DEF Land
    <3> QED
      BY <1>1, <2>1, <3>1 DEF TypeOK
  <2>3. CASE event # "power"
    <3>1. finger' \in BOOLEAN /\ failed' \in BOOLEAN /\ on' = on
      BY <1>6, <2>3, Zenon DEF Land
    <3> QED
      BY <1>1, <2>1, <3>1 DEF TypeOK
  <2> QED
    BY <2>2, <2>3
<1>3. ASSUME NEW k \in Keys, NEW v \in Inputs, Set(k, v) PROVE TypeOK'
  <2>1. /\ UNCHANGED <<pc, kind, size, path, cache, screen, turns, on, finger, late, steady, torn, sole,
                       failed>>
        /\ ops' \in 0..MaxOps
    BY <1>1, <1>3 DEF Set, local, world, history, TypeOK
  <2>2. data' \in [Keys -> Types \X Int] /\ \A j \in Keys : Accepts(j, data'[j])
    BY <1>1, <1>3 DEF Set, TypeOK
  <2> QED
    BY <1>1, <2>1, <2>2 DEF TypeOK
<1>4. ASSUME NEW u \in Users, NEW k \in Kinds, Begin(u, k) PROVE TypeOK'
  <2>1. /\ UNCHANGED <<size, path, cache, data, screen, turns, on, finger, late, steady, sole, failed>>
        /\ ops' \in 0..MaxOps /\ kind' \in [Users -> OpKinds \cup {"none"}]
        /\ torn' \subseteq Users
    BY <1>1, <1>4 DEF Begin, local, world, TypeOK
  <2>2. pc' \in [Users -> Labels]
    <3>1. k \in OpKinds
      OBVIOUS
    <3>2. PICK l \in Labels : pc' = [pc EXCEPT ![u] = l]
      BY <1>4, <3>1 DEF Begin, Goto, OpKinds, Labels
    <3> QED
      BY <1>1, <3>2 DEF TypeOK
  <2> QED
    BY <1>1, <2>1, <2>2 DEF TypeOK
<1>5. ASSUME NEW u \in Users, Step(u) PROVE TypeOK'
  <2>1. /\ UNCHANGED <<kind, ops, data, screen, turns, steady>>
        /\ torn' \subseteq Users /\ sole' \subseteq Users
    BY <1>1, <1>5 DEF Step, CachedSize, CachedHeight, NoSize, Measure, Store, StoreRest, Aim, Send,
                      Look, Power, Down, Up, local, world, history, TypeOK
  <2>7. late' \subseteq Events
    BY <1>1, <1>5 DEF Step, CachedSize, CachedHeight, NoSize, Measure, Store, StoreRest, Aim, Send,
                      Look, Power, Down, Up, Later, Events, world, TypeOK
  <2>2. PICK l \in Labels : pc' = [pc EXCEPT ![u] = l]
    BY <1>5 DEF Step, CachedSize, CachedHeight, NoSize, Measure, Store, StoreRest, Aim, Send,
                Look, Power, Down, Up, Goto, Return, Labels
  <2>3. pc' \in [Users -> Labels]
    BY <1>1, <2>2 DEF TypeOK
  <2>4. {on', finger', failed'} \subseteq BOOLEAN
    BY <1>1, <1>5, Zenon DEF Step, CachedSize, CachedHeight, NoSize, Measure, Store, StoreRest, Aim, Send,
                             Look, Power, Down, Up, local, world, history, TypeOK
  <2>5. size' \in [Users -> Sides \X Sides] /\ cache' \in Sides \X Sides
    <3>1. /\ \/ size' = size
             \/ size' = [size EXCEPT ![u] = <<cache[1], 0>>]
             \/ size' = [size EXCEPT ![u] = <<size[u][1], cache[2]>>]
             \/ size' = [size EXCEPT ![u] = screen]
          /\ \/ cache' = cache
             \/ cache' = <<size[u][1], cache[2]>>
             \/ cache' = <<cache[1], size[u][2]>>
      BY <1>5 DEF Step, CachedSize, CachedHeight, NoSize, Measure, Store, StoreRest, Aim, Send,
                  Look, Power, Down, Up, local
    <3>2. /\ <<cache[1], 0>> \in Sides \X Sides /\ <<size[u][1], cache[2]>> \in Sides \X Sides
          /\ <<cache[1], size[u][2]>> \in Sides \X Sides
      BY <1>1, SidesNat
    <3>3. size \in [Users -> Sides \X Sides] /\ cache \in Sides \X Sides
      BY <1>1 DEF TypeOK
    <3> QED
      BY <1>1, <3>1, <3>2, <3>3
  <2>6. path' \in [Users -> (Int \X Int) \X (Int \X Int)]
    <3>1. PICK p : (path' = path \/ path' = [path EXCEPT ![u] = p]) /\ p \in (Int \X Int) \X (Int \X Int)
      <4>1. CASE Aim(u)
        <5>1. PICK p \in IF kind[u] = "unlock" THEN {UnlockPath(size[u][1], size[u][2])}
                         ELSE UNION {Paths(s, size[u][1], size[u][2]) : s \in Scales} :
                path' = [path EXCEPT ![u] = p]
          BY <4>1 DEF Aim
        <5>2. size[u][1] \in Nat /\ size[u][2] \in Nat
          BY <1>1, SidesNat
        <5>3. p \in (Int \X Int) \X (Int \X Int)
          <6>1. UnlockPath(size[u][1], size[u][2]) \in (Int \X Int) \X (Int \X Int)
            BY <5>2, PathsInt
          <6>2. \A s \in Scales : Paths(s, size[u][1], size[u][2]) \subseteq (Int \X Int) \X (Int \X Int)
            BY <5>2, PathsInt
          <6> QED
            BY <5>1, <6>1, <6>2
        <5> QED
          BY <5>1, <5>3
      <4>2. CASE path' = path \/ path' = [path EXCEPT ![u] = NoPath]
        <5>1. NoPath \in (Int \X Int) \X (Int \X Int)
          BY DEF NoPath
        <5> QED
          BY <4>2, <5>1
      <4> QED
        BY <1>5, <4>1, <4>2 DEF Step, CachedSize, CachedHeight, NoSize, Measure, Store, StoreRest,
                                Send, Look, Power, Down, Up, local
    <3> QED
      BY <1>1, <3>1 DEF TypeOK
  <2> QED
    BY <1>1, <2>1, <2>3, <2>4, <2>5, <2>6, <2>7 DEF TypeOK
<1> QED
  BY <1>2, <1>3, <1>4, <1>5, <1>6 DEF Next, Step

(***************************************************************************)
(* DoubleClick: the finger.                                                *)
(***************************************************************************)
LEMMA FingerStep ==
  ASSUME IInv, Next
  PROVE  FingerUp'
<1>1. TypeOK /\ FingerUp
  BY DEF IInv
<1>2. CASE finger' = finger /\ failed' = failed
           /\ \A u \in Users : pc[u] = "up" => pc'[u] = "up"
  BY <1>1, <1>2 DEF FingerUp
<1>3. ASSUME NEW u \in Users, Down(u) PROVE FingerUp'
  BY <1>1, <1>3 DEF Down, FingerUp, Goto, Return, TypeOK
<1>4. ASSUME NEW u \in Users, Up(u) PROVE FingerUp'
  BY <1>1, <1>4 DEF Up, FingerUp
<1>5. ASSUME NEW u \in Users, NEW k, Begin(u, k) PROVE FingerUp'
  BY <1>1, <1>2, <1>5 DEF Begin, Goto, world, TypeOK
<1>6. ASSUME NEW u \in Users, Step(u), ~Down(u), ~Up(u) PROVE FingerUp'
  <2>1. finger' = finger /\ failed' = failed
    BY <1>6 DEF Step, CachedSize, CachedHeight, NoSize, Measure, Store, StoreRest, Aim, Send,
                Look, Power, world, history
  <2>2. pc[u] # "up" /\ \A v \in Users \ {u} : pc'[v] = pc[v]
    BY <1>1, <1>6 DEF Step, CachedSize, CachedHeight, NoSize, Measure, Store, StoreRest, Aim, Send,
                Look, Power, Storing, Goto, Return, TypeOK
  <2> QED
    BY <1>2, <2>1, <2>2
<1>7. ASSUME Turn \/ Switch \/ \E k \in Keys, v \in Inputs : Set(k, v) PROVE FingerUp'
  BY <1>2, <1>7 DEF Turn, Switch, Set, world, history
<1>8. ASSUME NEW event \in Events, Land(event) PROVE FingerUp'
  <2>1. CASE event = "power"
    BY <1>2, <1>8, <2>1 DEF Land
  <2>2. CASE event # "power"
    BY <1>8, <2>2 DEF Land, FingerUp
  <2> QED
    BY <2>1, <2>2
<1> QED
  BY <1>3, <1>4, <1>5, <1>6, <1>7, <1>8 DEF Next, Step

(***************************************************************************)
(* Unlock: the power key.                                                  *)
(***************************************************************************)
LEMMA WakeStep ==
  ASSUME IInv, Next
  PROVE  UnlockWakes' /\ LookInv'
<1>1. TypeOK /\ UnlockWakes /\ LookInv
  BY DEF IInv
<1>2. ASSUME NEW u \in Users, Look(u) PROVE UnlockWakes' /\ LookInv'
  BY <1>1, <1>2 DEF Look, UnlockWakes, LookInv, Goto, Return, world, TypeOK
<1>3. ASSUME NEW u \in Users, Power(u) PROVE UnlockWakes' /\ LookInv'
  <2>1. /\ pc[u] = "power" /\ pc'[u] = "size" /\ kind' = kind
        /\ \A v \in Users \ {u} : pc'[v] = pc[v]
    BY <1>1, <1>3 DEF Power, Goto, TypeOK
  <2>2. CASE on' = ~on /\ sole' = sole \cap {u}
    BY <1>1, <2>1, <2>2 DEF UnlockWakes, LookInv
  <2>3. CASE on' = on /\ sole' = sole \ {u}
    BY <1>1, <2>1, <2>3 DEF UnlockWakes, LookInv, TypeOK
  <2> QED
    BY <1>3, <2>2, <2>3 DEF Power
<1>4. ASSUME NEW u \in Users, NEW k \in Kinds, Begin(u, k) PROVE UnlockWakes' /\ LookInv'
  <2>1. /\ \A v \in Users \ {u} : pc'[v] = pc[v] /\ kind'[v] = kind[v]
        /\ kind'[u] = k /\ (k = "unlock" => pc'[u] = "look") /\ pc'[u] # "power"
        /\ on' = on /\ sole' = sole
    BY <1>1, <1>4 DEF Begin, Goto, world, TypeOK, OpKinds
  <2> QED
    BY <1>1, <2>1 DEF UnlockWakes, LookInv, TypeOK
<1>5. ASSUME NEW u \in Users, Step(u), ~Look(u), ~Power(u) PROVE UnlockWakes' /\ LookInv'
  <2>1. UNCHANGED <<kind, on, sole>>
    BY <1>5 DEF Step, CachedSize, CachedHeight, NoSize, Measure, Store, StoreRest, Aim, Send,
                Down, Up, world, history
  <2>2. /\ pc[u] \notin {"idle", "look", "power"} /\ pc'[u] # "power"
        /\ \A v \in Users \ {u} : pc'[v] = pc[v]
    BY <1>1, <1>5 DEF Step, CachedSize, CachedHeight, NoSize, Measure, Store, StoreRest, Aim, Send,
                Down, Up, Storing, Goto, Return, TypeOK
  <2> QED
    BY <1>1, <2>1, <2>2 DEF UnlockWakes, LookInv, TypeOK
<1>6. ASSUME Turn \/ Switch \/ \E k \in Keys, v \in Inputs : Set(k, v)
      PROVE  UnlockWakes' /\ LookInv'
  BY <1>1, <1>6 DEF Turn, Switch, Set, world, history, UnlockWakes, LookInv
<1>7. ASSUME NEW event \in Events, Land(event) PROVE UnlockWakes' /\ LookInv'
  <2>1. CASE event = "power"
    BY <1>7, <2>1 DEF Land, UnlockWakes, LookInv
  <2>2. CASE event # "power"
    BY <1>1, <1>7, <2>2 DEF Land, UnlockWakes, LookInv
  <2> QED
    BY <2>1, <2>2
<1> QED
  BY <1>2, <1>3, <1>4, <1>5, <1>6, <1>7 DEF Next, Step

(***************************************************************************)
(* The size of the screen.  What a step can do to the sizes, the cache and *)
(* who reads them.                                                         *)
(***************************************************************************)
SizesInv == OnScreen /\ StoreInv /\ CacheInv /\ SizeInv /\ AimInv

LEMMA SizesFrame ==
  ASSUME IInv, UNCHANGED <<size, cache, screen, steady>>,
         \A u \in Users :
           \/ pc'[u] = pc[u] /\ path'[u] = path[u] /\ (u \in torn <=> u \in torn')
           \/ /\ pc[u] \notin {"store", "store width", "store height"}
              /\ pc'[u] \notin {"store", "store width", "store height", "read height", "aim", "send"}
  PROVE  SizesInv'
<1>1. SizesInv
  BY DEF IInv, SizesInv
<1>2. \A u \in Users : pc[u] \in {"store width", "store height"} => pc'[u] = pc[u]
  OBVIOUS
<1>3. OnScreen'
  BY <1>1 DEF SizesInv, OnScreen, Within
<1>4. StoreInv' /\ AimInv'
  BY <1>1 DEF SizesInv, StoreInv, AimInv
<1>5. CacheInv'
  BY <1>1, <1>2 DEF SizesInv, CacheInv
<1>6. SizeInv'
  BY <1>1 DEF SizesInv, SizeInv, PartOf
<1> QED
  BY <1>3, <1>4, <1>5, <1>6 DEF SizesInv

(***************************************************************************)
(* The screen turns.                                                       *)
(***************************************************************************)
LEMMA TurnStep ==
  ASSUME IInv, Turn
  PROVE  SizesInv'
<1>1. /\ UNCHANGED <<pc, size, cache, path, torn>>
      /\ steady' => \A u \in Users : size[u] = <<0, 0>>
      /\ StoreInv /\ CacheInv /\ AimInv
  BY DEF Turn, local, IInv
<1>2. StoreInv' /\ CacheInv' /\ AimInv'
  BY <1>1 DEF StoreInv, CacheInv, AimInv
<1>3. steady' => /\ cache[1] = 0 /\ cache[2] = 0
                 /\ \A u \in Users : size[u][1] = 0 /\ size[u][2] = 0
  <2>1. ASSUME steady' PROVE \A u \in Users : size[u][1] = 0 /\ size[u][2] = 0
    BY <1>1, <2>1
  <2> QED
    BY <1>1, <2>1 DEF CacheInv
<1>4. OnScreen'
  BY <1>1, <1>3 DEF OnScreen, AimInv
<1>5. SizeInv'
  BY <1>1, <1>3 DEF SizeInv, PartOf
<1> QED
  BY <1>2, <1>4, <1>5 DEF SizesInv

(***************************************************************************)
(* WindowSize, from the cache.                                             *)
(***************************************************************************)
LEMMA CachedStep ==
  ASSUME IInv, NEW u \in Users, CachedSize(u) \/ CachedHeight(u)
  PROVE  SizesInv'
<1>1. /\ SizesInv /\ TypeOK
      /\ UNCHANGED <<kind, path, cache, screen, steady>>
      /\ cache[1] \in Nat /\ cache[2] \in Nat /\ size[u][1] \in Nat /\ size[u][2] \in Nat
  BY SidesNat, Pairs DEF IInv, TypeOK, SizesInv, CachedSize, CachedHeight, world, history
<1>2. /\ pc[u] \in {"size", "read height"} /\ pc'[u] \in {"read height", "aim"}
      /\ \A v \in Users \ {u} : /\ pc'[v] = pc[v] /\ size'[v] = size[v]
                                /\ v \in torn' <=> v \in torn
      /\ pc'[u] = "read height" =>
           cache[1] > 0 /\ size'[u][1] = cache[1] /\ size'[u][2] = 0
      /\ pc'[u] = "aim" =>
           /\ pc[u] = "read height" /\ size'[u][1] = size[u][1] /\ size'[u][2] = cache[2]
           /\ u \notin torn' => \A v \in Users \ {u} : ~Storing(v)
  <2>1. CASE CachedSize(u)
    BY <1>1, <2>1 DEF TypeOK, CachedSize, Goto, history
  <2>2. CASE CachedHeight(u)
    <3>1. torn' = (IF \E v \in Users \ {u} : Storing(v) THEN torn \cup {u} ELSE torn)
      BY <2>2 DEF CachedHeight
    <3>2. /\ u \notin torn' => \A v \in Users \ {u} : ~Storing(v)
          /\ \A v \in Users \ {u} : v \in torn' <=> v \in torn
      BY <3>1
    <3>3. /\ pc[u] = "read height" /\ pc' = [pc EXCEPT ![u] = "aim"]
          /\ size' = [size EXCEPT ![u] = <<size[u][1], cache[2]>>]
      BY <2>2 DEF CachedHeight, Goto
    <3> QED
      BY <1>1, <3>2, <3>3 DEF TypeOK
  <2> QED
    BY <2>1, <2>2
<1>3. /\ size'[u][1] # 0 /\ size'[u][1] \in {cache[1], size[u][1]}
      /\ size'[u][2] \in {0, cache[2]}
      /\ cache[1] # 0
      /\ pc'[u] = "aim" /\ u \notin torn' => size'[u][2] # 0
  <2>1. CASE pc'[u] = "read height"
    <3>1. cache[1] > 0 /\ size'[u][1] = cache[1] /\ size'[u][2] = 0
      BY <1>2, <2>1
    <3>2. cache[1] # 0
      BY <1>1, <3>1
    <3> QED
      BY <2>1, <3>1, <3>2
  <2>2. CASE pc'[u] = "aim"
    <3>1. size[u][1] # 0 /\ cache[1] # 0
      BY <1>1, <1>2, <2>2 DEF SizesInv, AimInv, StoreInv
    <3>2. u \notin torn' => cache[2] # 0
      BY <1>1, <1>2, <2>2, <3>1 DEF SizesInv, CacheInv, Storing
    <3> QED
      BY <1>1, <1>2, <2>2, <3>1, <3>2
  <2> QED
    BY <1>2, <2>1, <2>2
<1>4. OnScreen'
  BY <1>1, <1>2 DEF SizesInv, OnScreen, Within
<1>5. StoreInv' /\ AimInv'
  BY <1>1, <1>2, <1>3 DEF SizesInv, StoreInv, AimInv
<1>6. CacheInv'
  BY <1>1, <1>2, <1>3 DEF SizesInv, CacheInv
<1>7. SizeInv'
  BY <1>1, <1>2, <1>3 DEF SizesInv, SizeInv, PartOf
<1> QED
  BY <1>4, <1>5, <1>6, <1>7 DEF SizesInv

(***************************************************************************)
(* WindowSize, measuring and storing.                                      *)
(***************************************************************************)
LEMMA MeasureStep ==
  ASSUME IInv, NEW u \in Users, Measure(u)
  PROVE  SizesInv'
<1>1. /\ SizesInv /\ TypeOK /\ pc[u] = "measure"
      /\ UNCHANGED <<kind, path, cache, screen, steady, torn>>
  BY DEF IInv, SizesInv, Measure, world, history
<1>2. CASE size' = [size EXCEPT ![u] = screen] /\ Goto(u, "store")
  <2>1. /\ pc'[u] = "store" /\ size'[u] = screen
        /\ \A v \in Users \ {u} : pc'[v] = pc[v] /\ size'[v] = size[v]
    BY <1>1, <1>2 DEF Goto, TypeOK
  <2>2. screen[1] # 0 /\ screen[2] # 0
    <3>1. screen \in {Upright, Across}
      BY <1>1 DEF TypeOK
    <3> QED
      BY <3>1 DEF Upright, Across
  <2>3. OnScreen'
    BY <1>1, <2>1 DEF SizesInv, OnScreen, Within
  <2>4. StoreInv' /\ AimInv'
    BY <1>1, <2>1, <2>2 DEF SizesInv, StoreInv, AimInv
  <2>5. CacheInv'
    <3>1. \A v \in Users : pc[v] \in {"store height", "store width"} => pc'[v] = pc[v]
      BY <1>1, <2>1
    <3> QED
      BY <1>1, <2>1, <2>2, <3>1 DEF SizesInv, CacheInv
  <2>6. SizeInv'
    BY <1>1, <2>1 DEF SizesInv, SizeInv, PartOf
  <2> QED
    BY <2>3, <2>4, <2>5, <2>6 DEF SizesInv
<1>3. CASE Return(u) /\ UNCHANGED size
  <2>1. pc'[u] = "idle" /\ \A v \in Users \ {u} : pc'[v] = pc[v]
    BY <1>1, <1>3 DEF Return, Goto, TypeOK
  <2> QED
    BY <1>1, <1>3, <2>1, SizesFrame
<1> QED
  BY <1>2, <1>3 DEF Measure

LEMMA StoreStep ==
  ASSUME IInv, NEW u \in Users, Store(u) \/ StoreRest(u)
  PROVE  SizesInv'
<1>1. /\ SizesInv /\ TypeOK /\ pc[u] \in {"store", "store width", "store height"}
      /\ UNCHANGED <<kind, size, path, screen, steady, torn>>
      /\ size[u][1] # 0 /\ size[u][2] # 0
  BY DEF IInv, SizesInv, StoreInv, Store, StoreRest, Storing, local, world, history
<1>2. \A v \in Users \ {u} : pc'[v] = pc[v]
  BY <1>1 DEF Store, StoreRest, Goto, TypeOK
<1>3. /\ \/ pc[u] # "store width" /\ cache'[1] = cache[1] /\ cache'[2] = size[u][2]
         \/ pc[u] # "store height" /\ cache'[1] = size[u][1] /\ cache'[2] = cache[2]
      /\ \/ pc[u] = "store" /\ pc'[u] = "store width" /\ cache'[2] = size[u][2]
         \/ pc[u] = "store" /\ pc'[u] = "store height" /\ cache'[1] = size[u][1]
         \/ pc[u] # "store" /\ pc'[u] = "aim"
  <2>1. CASE cache' = <<size[u][1], cache[2]>> /\ pc[u] = "store" /\ Goto(u, "store height")
    BY <1>1, <2>1 DEF Goto, TypeOK
  <2>2. CASE cache' = <<cache[1], size[u][2]>> /\ pc[u] = "store" /\ Goto(u, "store width")
    BY <1>1, <2>2 DEF Goto, TypeOK
  <2>3. CASE cache' = <<size[u][1], cache[2]>> /\ pc[u] = "store width" /\ Goto(u, "aim")
    BY <1>1, <2>3 DEF Goto, TypeOK
  <2>4. CASE cache' = <<cache[1], size[u][2]>> /\ pc[u] = "store height" /\ Goto(u, "aim")
    BY <1>1, <2>4 DEF Goto, TypeOK
  <2> QED
    BY <2>1, <2>2, <2>3, <2>4 DEF Store, StoreRest, Storing
<1>4. /\ cache[1] # 0 => cache'[1] # 0
      /\ cache[2] # 0 => cache'[2] # 0
      /\ pc'[u] = "aim" => cache'[1] # 0 /\ cache'[2] # 0
  BY <1>1, <1>3 DEF SizesInv, StoreInv
<1>5. OnScreen'
  BY <1>1, <1>2, <1>3 DEF SizesInv, OnScreen, Within
<1>6. StoreInv' /\ AimInv'
  BY <1>1, <1>2, <1>3, <1>4 DEF SizesInv, StoreInv, AimInv
<1>7. CacheInv'
  <2>1. cache'[1] # 0 /\ cache'[2] = 0 => \E v \in Users : pc'[v] = "store height"
    BY <1>1, <1>2, <1>3, <1>4 DEF SizesInv, CacheInv
  <2>2. cache'[1] = 0 /\ cache'[2] # 0 => \E v \in Users : pc'[v] = "store width"
    BY <1>1, <1>2, <1>3, <1>4 DEF SizesInv, CacheInv
  <2>3. \E v \in Users : size'[v][1] # 0 \/ size'[v][2] # 0
    BY <1>1
  <2> QED
    BY <2>1, <2>2, <2>3 DEF CacheInv
<1>8. SizeInv'
  BY <1>1, <1>3 DEF SizesInv, SizeInv, PartOf
<1> QED
  BY <1>5, <1>6, <1>7, <1>8 DEF SizesInv

(***************************************************************************)
(* Swipes and Unlock compute their points.                                 *)
(***************************************************************************)
LEMMA AimStep ==
  ASSUME IInv, NEW u \in Users, Aim(u)
  PROVE  SizesInv'
<1>1. /\ SizesInv /\ TypeOK /\ pc[u] = "aim"
      /\ UNCHANGED <<kind, size, cache, screen, steady, torn>>
      /\ size[u] \in Sides \X Sides /\ screen \in Sides \X Sides
      /\ size[u][1] \in Nat /\ size[u][2] \in Nat
  BY SidesNat DEF IInv, SizesInv, TypeOK, Aim, world, history
<1>2. PICK p \in IF kind[u] = "unlock" THEN {UnlockPath(size[u][1], size[u][2])}
                 ELSE UNION {Paths(s, size[u][1], size[u][2]) : s \in Scales} :
        path' = [path EXCEPT ![u] = p]
  BY DEF Aim
<1>3. /\ pc'[u] = "send" /\ path'[u] = p
      /\ \A v \in Users \ {u} : pc'[v] = pc[v] /\ path'[v] = path[v]
  BY <1>1, <1>2 DEF Aim, Goto, TypeOK
<1>4. ASSUME steady
      PROVE  /\ p[1][1] \in 0..screen[1] /\ p[1][2] \in 0..screen[2]
             /\ p[2][1] \in 0..screen[1] /\ p[2][2] \in 0..screen[2]
  <2>1. size[u][1] \in 0..screen[1] /\ size[u][2] \in 0..screen[2]
        /\ screen[1] \in Nat /\ screen[2] \in Nat
    <3>1. screen[1] \in Nat /\ screen[2] \in Nat
      BY <1>1, SidesNat, Pairs
    <3>2. size[u][1] \in {0, screen[1]} /\ size[u][2] \in {0, screen[2]}
      BY <1>1, <1>4 DEF SizesInv, SizeInv, PartOf
    <3> QED
      BY <3>1, <3>2
  <2>2. /\ p[1][1] \in 0..size[u][1] /\ p[1][2] \in 0..size[u][2]
        /\ p[2][1] \in 0..size[u][1] /\ p[2][2] \in 0..size[u][2]
    <3>1. CASE p = UnlockPath(size[u][1], size[u][2])
      BY <1>1, <3>1, UnlockWithin
    <3>2. CASE \E s \in Scales : p \in Paths(s, size[u][1], size[u][2])
      <4>1. PICK s \in Int : p \in Paths(s, size[u][1], size[u][2])
        BY <3>2
      <4> QED
        BY <1>1, <4>1, PathsWithin
    <3> QED
      BY <1>2, <3>1, <3>2
  <2> QED
    BY <1>1, <2>1, <2>2
<1>8. ASSUME steady, u \notin torn
      PROVE  size[u] = screen /\ p[1] # p[2]
  <2>1. size[u][1] = screen[1] /\ size[u][2] = screen[2]
    BY <1>1, <1>8 DEF SizesInv, SizeInv, PartOf, AimInv
  <2>2. size[u] = screen
    BY <1>1, <2>1, Pairs
  <2>3. /\ screen[1] \in Nat /\ screen[2] \in Nat /\ screen[1] >= 2
        /\ \A s \in Scales : screen[1] * Scale(s) >= 200 * 100 /\ screen[2] * Scale(s) >= 200 * 100
    <3>1. screen \in {Upright, Across}
      BY <1>1 DEF TypeOK
    <3> QED
      BY <3>1, DeviceAssumption DEF Upright, Across, Unit
  <2>4. CASE p = UnlockPath(screen[1], screen[2])
    BY <2>2, <2>3, <2>4, UnlockWithin
  <2>5. CASE \E s \in Scales : p \in Paths(s, screen[1], screen[2])
    <3>1. PICK s \in Scales : p \in Paths(s, screen[1], screen[2])
      BY <2>5
    <3> QED
      BY <2>2, <2>3, <3>1, PathsWithin
  <2> QED
    BY <1>2, <2>2, <2>4, <2>5
<1>5. OnScreen'
  BY <1>1, <1>3, <1>4, <1>8 DEF SizesInv, OnScreen, Within
<1>6. StoreInv' /\ AimInv'
  BY <1>1, <1>3 DEF SizesInv, StoreInv, AimInv
<1>7. CacheInv' /\ SizeInv'
  <2>1. \A v \in Users : pc[v] \in {"store height", "store width"} => pc'[v] = pc[v]
    BY <1>1, <1>3
  <2> QED
    BY <1>1, <2>1 DEF SizesInv, CacheInv, SizeInv, PartOf
<1> QED
  BY <1>5, <1>6, <1>7 DEF SizesInv

(***************************************************************************)
(* All the steps that the sizes do not depend on.                          *)
(***************************************************************************)
LEMMA SizesStep ==
  ASSUME IInv, Next
  PROVE  SizesInv'
<1>1. TypeOK
  BY DEF IInv
<1>2. ASSUME \/ Switch
             \/ \E k \in Keys, v \in Inputs : Set(k, v)
             \/ \E event \in Events : Land(event)
      PROVE  SizesInv'
  <2>1. UNCHANGED <<pc, size, path, cache, screen, steady, torn>>
    BY <1>2 DEF Switch, Set, Land, local, world, history
  <2> QED
    BY <2>1, SizesFrame
<1>3. ASSUME NEW u \in Users, NEW k \in Kinds, Begin(u, k) PROVE SizesInv'
  <2>1. /\ pc[u] = "idle" /\ pc'[u] \in {"size", "look", "down"}
        /\ \A v \in Users \ {u} : pc'[v] = pc[v] /\ (v \in torn <=> v \in torn')
        /\ UNCHANGED <<size, path, cache, screen, steady>>
    BY <1>1, <1>3 DEF Begin, Goto, local, world, OpKinds, TypeOK
  <2> QED
    BY <2>1, SizesFrame
<1>4. ASSUME NEW u \in Users, NoSize(u) \/ Send(u) \/ Look(u) \/ Power(u) \/ Down(u) \/ Up(u)
      PROVE  SizesInv'
  <2>1. /\ pc[u] \in {"size", "send", "tap", "look", "power", "down", "up"}
        /\ UNCHANGED <<size, cache, screen, steady, torn>>
    BY <1>4 DEF NoSize, Send, Look, Power, Down, Up, local, world, history
  <2>2. /\ pc'[u] \in {"measure", "idle", "power", "size", "up", "tap"}
        /\ \A v \in Users \ {u} : pc'[v] = pc[v]
    BY <1>1, <1>4 DEF NoSize, Send, Look, Power, Down, Up, Goto, Return, TypeOK
  <2>3. \A v \in Users \ {u} : path'[v] = path[v]
    BY <1>1, <1>4 DEF NoSize, Send, Look, Power, Down, Up, local, TypeOK
  <2> QED
    BY <2>1, <2>2, <2>3, SizesFrame
<1>5. ASSUME NEW u \in Users, Step(u) PROVE SizesInv'
  BY <1>4, <1>5, CachedStep, MeasureStep, StoreStep, AimStep DEF Step
<1> QED
  BY <1>2, <1>3, <1>5, TurnStep DEF Next, Step

(***************************************************************************)
(* Every step keeps the invariant.                                         *)
(***************************************************************************)
LEMMA NextStep == IInv /\ [Next]_vars => IInv'
<1> SUFFICES ASSUME IInv, [Next]_vars PROVE IInv'
  OBVIOUS
<1>1. CASE UNCHANGED vars
  <2>1. UNCHANGED <<pc, kind, ops, size, path, cache, data, screen, turns, on, finger, late,
                    steady, torn, sole, failed>>
    BY <1>1 DEF vars, local, world, history
  <2>2. TypeOK' /\ OnScreen' /\ FingerUp' /\ UnlockWakes'
    BY <2>1 DEF IInv, TypeOK, OnScreen, Within, FingerUp, UnlockWakes
  <2>3. StoreInv' /\ CacheInv' /\ SizeInv' /\ AimInv' /\ LookInv'
    BY <2>1 DEF IInv, StoreInv, CacheInv, SizeInv, PartOf, AimInv, LookInv
  <2> QED
    BY <2>2, <2>3 DEF IInv
<1>2. CASE Next
  BY <1>2, TypeStep, FingerStep, WakeStep, SizesStep DEF IInv, SizesInv
<1> QED
  BY <1>1, <1>2

(***************************************************************************)
(* The invariant of the screen and the settings holds in every state, for  *)
(* any number of goroutines and operations, any screen and scales that     *)
(* make swipes of two pixels at least, and any settings.                   *)
(***************************************************************************)
THEOREM InvariantHolds == Spec => []IInv
  BY InitInv, NextStep, PTL DEF Spec

(***************************************************************************)
(* The variables have their types; settings only have values whose type    *)
(* validateSettingType accepts.                                            *)
(***************************************************************************)
THEOREM TypeCorrect == Spec => []TypeOK
<1>1. IInv => TypeOK
  BY DEF IInv
<1> QED
  BY <1>1, InvariantHolds, PTL

(***************************************************************************)
(* SwipeDirection and Unlock swipe on the screen, for every scale, unless  *)
(* it has turned; and they go somewhere, unless the cached size was read   *)
(* while another goroutine was writing it.                                 *)
(***************************************************************************)
THEOREM SwipesOnScreen == Spec => []OnScreen
<1>1. IInv => OnScreen
  BY DEF IInv
<1> QED
  BY <1>1, InvariantHolds, PTL

(***************************************************************************)
(* Only a DoubleClick that failed, or is under way, has a finger on the    *)
(* screen.                                                                 *)
(***************************************************************************)
THEOREM FingersUp == Spec => []FingerUp
<1>1. IInv => FingerUp
  BY DEF IInv
<1> QED
  BY <1>1, InvariantHolds, PTL

(***************************************************************************)
(* Unlock leaves the screen on, unless its key was lost or another has     *)
(* switched the screen since it looked.                                    *)
(***************************************************************************)
THEOREM UnlocksWake == Spec => []UnlockWakes
<1>1. IInv => UnlockWakes
  BY DEF IInv
<1> QED
  BY <1>1, InvariantHolds, PTL

(***************************************************************************)
(* What the getters make of a stored value is an integer, whatever type    *)
(* the value has, and GetInt never returns more than an int.               *)
(***************************************************************************)
LEMMA GettersInt ==
  ASSUME TypeOK, NEW k \in Keys
  PROVE  GetFloat64(k) \in Int /\ GetInt(k) \subseteq -MaxInt - 1..MaxInt
<1>1. data[k][2] \in Int
  BY DEF TypeOK
<1>2. ASSUME NEW n \in Int PROVE AsInt(n) \subseteq -MaxInt - 1..MaxInt
  <2>1. CASE n \in -(MaxInt * (100 * 100))..MaxInt * (100 * 100)
    <3>1. AsInt(n) = {IF n >= 0 THEN n \div (100 * 100) ELSE -((-n) \div (100 * 100))}
      BY <2>1 DEF AsInt, Unit
    <3>2. (n >= 0 => n \div (100 * 100) \in 0..MaxInt) /\ (n < 0 => (-n) \div (100 * 100) \in 0..MaxInt)
      BY <2>1
    <3> QED
      BY <3>1, <3>2
  <2>2. CASE n \notin -(MaxInt * (100 * 100))..MaxInt * (100 * 100)
    BY <2>2 DEF AsInt, TooLarge, Unit
  <2> QED
    BY <2>1, <2>2
<1> QED
  BY <1>1, <1>2 DEF GetInt, GetFloat64

(***************************************************************************)
(* int(timeout * 1000) is a number of milliseconds that is 0 only for less *)
(* than one, as long as the product is in the range of an int.             *)
(***************************************************************************)
LEMMA MillisRange ==
  ASSUME NEW t \in Nat \ {0}, t <= MaxInt * 10, NEW ms \in Millis(t)
  PROVE  ms \in 0..MaxInt /\ (ms = 0 => t < 10)
<1>1. ms = t \div 10 \/ (t > 10 /\ t % 10 = 0 /\ ms = t \div 10 - 1)
  BY DEF Millis
<1>2. /\ t \div 10 \in 0..MaxInt /\ (t >= 10 => t \div 10 >= 1)
      /\ t > 10 /\ t % 10 = 0 => t \div 10 >= 2
  OBVIOUS
<1> QED
  BY <1>1, <1>2

(***************************************************************************)
(* DumpHierarchy asks for one level at least, and Wait for no time only if *)
(* it is told to wait for less than a millisecond; whatever Set accepted.  *)
(***************************************************************************)
THEOREM RequestsAreInRange == Spec => []RequestsInRange
<1>1. TypeOK => RequestsInRange
  <2> SUFFICES ASSUME TypeOK PROVE RequestsInRange
    OBVIOUS
  <2>1. GetInt("max_depth") \subseteq -MaxInt - 1..MaxInt /\ GetFloat64("wait_timeout") \in Int
    BY GettersInt DEF Keys
  <2>2. ASSUME NEW arg \in {-1, 0, 1} PROVE Depths(arg) \subseteq 1..MaxInt
    <3>1. MaxInt >= 50
      BY DEF Unit
    <3>2. \A d \in GetInt("max_depth") : (IF d > 0 THEN d ELSE 50) \in 1..MaxInt
      BY <2>1, <3>1
    <3> QED
      BY <3>1, <3>2 DEF Depths
  <2>3. ASSUME NEW arg \in {0} \cup {v[2] : v \in Inputs}
        PROVE  Timeout(arg) \in Nat \ {0}
    <3>1. arg \in Int
      OBVIOUS
    <3> QED
      BY <2>1, <3>1 DEF Timeout, Unit
  <2> QED
    BY <2>2, <2>3, MillisRange DEF RequestsInRange
<1> QED
  BY <1>1, TypeCorrect, PTL
=============================================================================
