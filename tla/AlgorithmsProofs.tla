-------------------------- MODULE AlgorithmsProofs --------------------------
(***************************************************************************)
(* What the algorithms compute, for every input: block lists and payloads   *)
(* (storage.rs), sizes and strides (geometry.rs), costs and plans (cost.rs, *)
(* planner.rs), admission (admission.rs) and eviction (eviction.rs).        *)
(***************************************************************************)
EXTENDS Algorithms, PolicyProofs

-----------------------------------------------------------------------------
(* Block lists *)

\* The bytes a block of a list covers, counted from zero.
Covered(b, i) == b[i].offset..(b[i].offset + b[i].len - 1)

\* The blocks of a list cover every byte of a tensor once, in order.
Tiles(b, n) ==
  /\ Len(b) <= MaxBlocks
  /\ \A i \in DOMAIN b : b[i].len > 0
  /\ \A i, j \in DOMAIN b : i < j => b[i].offset < b[j].offset
  /\ UNION {Covered(b, i) : i \in DOMAIN b} = 0..(n - 1)
  /\ \A i, j \in DOMAIN b : i # j => Covered(b, i) \cap Covered(b, j) = {}

\* The entries of a block list are numbered from one and hold naturals.
LEMMA ListTyped ==
  ASSUME NEW b \in Seq(BlockPlace)
  PROVE  /\ Len(b) \in Nat /\ DOMAIN b = 1..Len(b)
         /\ \A i \in 1..Len(b) : b[i].offset \in Nat /\ b[i].len \in Nat
<1>1. Len(b) \in Nat /\ DOMAIN b = 1..Len(b)
  BY SMTT(30)
<1>2. \A i \in 1..Len(b) : b[i] \in BlockPlace
  BY SMTT(30)
<1> QED
  BY SMTT(30), <1>1, <1>2 DEF BlockPlace

\* What validate_block_list requires, block by block.
LEMMA ValidMeans ==
  ASSUME NEW b \in Seq(BlockPlace), NEW n \in Nat
  PROVE  ValidateBlockList(b, n) <=>
           /\ Len(b) <= MaxBlocks
           /\ \A i \in 1..Len(b) :
                /\ b[i].len # 0
                /\ i = 1 => b[i].offset = 0
                /\ i # 1 => b[i].offset = b[i - 1].offset + b[i - 1].len
                /\ b[i].offset + b[i].len <= n
           /\ Len(b) = 0 => n = 0
           /\ Len(b) # 0 => b[Len(b)].offset + b[Len(b)].len = n
<1>1. Len(b) \in Nat /\ DOMAIN b = 1..Len(b)
  BY SMTT(30), ListTyped
<1>2. Len(b) + 1 = 1 <=> Len(b) = 0
  BY SMTT(30), <1>1
<1>3. Len(b) + 1 - 1 = Len(b)
  BY SMTT(30), <1>1
<1>4. /\ \A i \in 1..Len(b) :
           /\ i = 1 => Expected(b, i) = 0
           /\ i # 1 => Expected(b, i) = b[i - 1].offset + b[i - 1].len
      /\ Len(b) = 0 => Expected(b, Len(b) + 1) = 0
      /\ Len(b) # 0 => Expected(b, Len(b) + 1) = b[Len(b)].offset + b[Len(b)].len
  BY SMTT(30), <1>2, <1>3 DEF Expected
<1> QED
  BY SMTT(30), <1>1, <1>4 DEF ValidateBlockList

\* In a list that is accepted, a block ends where or before a later one begins.
LEMMA ValidOrdered ==
  ASSUME NEW b \in Seq(BlockPlace), NEW n \in Nat, ValidateBlockList(b, n)
  PROVE  \A i, j \in 1..Len(b) : j < i => b[j].offset + b[j].len <= b[i].offset
<1> DEFINE Late(i) == \A j \in 1..Len(b) : j < i => b[j].offset + b[j].len <= b[i].offset
           T == {i \in 1..Len(b) : ~Late(i)}
<1>1. /\ Len(b) \in Nat
      /\ \A i \in 1..Len(b) : b[i].offset \in Nat /\ b[i].len \in Nat
  BY SMTT(30), ListTyped
<1>2. \A i \in 1..Len(b) : i # 1 => b[i].offset = b[i - 1].offset + b[i - 1].len
  BY SMTT(30), ValidMeans
<1>3. ASSUME T # {} PROVE FALSE
  <2>1. T \in SUBSET Nat
    BY SMTT(30), <1>1
  <2>2. PICK i \in T : \A k \in T : i <= k
    BY ZenonT(40), <1>3, <2>1, LeastNat
  <2>3. PICK j \in 1..Len(b) : j < i /\ ~(b[j].offset + b[j].len <= b[i].offset)
    BY SMTT(30), <2>2
  <2>4. i \in 1..Len(b) /\ i # 1 /\ i - 1 \in 1..Len(b) /\ i - 1 < i
    BY SMTT(30), <1>1, <2>2, <2>3
  <2>5. j # i - 1
    BY SMTT(30), <1>1, <1>2, <2>3, <2>4
  <2>6. j < i - 1
    BY SMTT(30), <2>3, <2>4, <2>5
  <2>7. Late(i - 1)
    BY SMTT(30), <2>2, <2>4
  <2>8. b[j].offset + b[j].len <= b[i - 1].offset
    BY SMTT(30), <2>3, <2>6, <2>7
  <2>9. b[i].offset = b[i - 1].offset + b[i - 1].len
    BY SMTT(30), <1>2, <2>4
  <2>10. /\ b[i].offset \in Nat /\ b[i - 1].offset \in Nat /\ b[i - 1].len \in Nat
         /\ b[j].offset \in Nat /\ b[j].len \in Nat
    BY ZenonT(40), <1>1, <2>4
  <2> QED BY SMTT(30), <2>3, <2>8, <2>9, <2>10
<1> QED
  BY SMTT(30), <1>3

\* In a list that is accepted, every byte is in a block.
LEMMA ValidCovers ==
  ASSUME NEW b \in Seq(BlockPlace), NEW n \in Nat, ValidateBlockList(b, n),
         NEW k \in 0..(n - 1)
  PROVE  \E i \in 1..Len(b) : k \in Covered(b, i)
<1> DEFINE T == {i \in 1..Len(b) : k < b[i].offset + b[i].len}
<1>1. /\ Len(b) \in Nat /\ k \in Nat /\ k < n
      /\ \A i \in 1..Len(b) : b[i].offset \in Nat /\ b[i].len \in Nat
  BY SMTT(30), ListTyped
<1>2. /\ \A i \in 1..Len(b) :
           /\ i = 1 => b[i].offset = 0
           /\ i # 1 => b[i].offset = b[i - 1].offset + b[i - 1].len
      /\ Len(b) = 0 => n = 0
      /\ Len(b) # 0 => b[Len(b)].offset + b[Len(b)].len = n
  BY SMTT(30), ValidMeans
<1>3. Len(b) \in T /\ T \in SUBSET Nat
  BY SMTT(30), <1>1, <1>2
<1>4. PICK i \in T : \A j \in T : i <= j
  BY ZenonT(40), <1>3, LeastNat
<1>5. i \in 1..Len(b) /\ k < b[i].offset + b[i].len
  BY SMTT(30), <1>4
<1>6. b[i].offset <= k
  <2>1. CASE i = 1
    BY SMTT(30), <1>1, <1>2, <1>5, <2>1
  <2>2. CASE i # 1
    <3>1. i - 1 \in 1..Len(b) /\ i - 1 < i /\ i - 1 \in Nat
      BY SMTT(30), <1>1, <1>5, <2>2
    <3>2. i - 1 \notin T
      BY SMTT(30), <1>1, <1>4, <1>5, <3>1
    <3>3. ~(k < b[i - 1].offset + b[i - 1].len)
      BY SMTT(30), <3>1, <3>2
    <3> QED BY SMTT(30), <1>1, <1>2, <1>5, <2>2, <3>1, <3>3
  <2> QED BY SMTT(30), <2>1, <2>2
<1>7. k \in Covered(b, i)
  BY SMTT(30), <1>1, <1>5, <1>6 DEF Covered
<1> QED
  BY SMTT(30), <1>5, <1>7

\* A list that is accepted covers every byte once, in order.
LEMMA ValidTiles ==
  ASSUME NEW b \in Seq(BlockPlace), NEW n \in Nat, ValidateBlockList(b, n)
  PROVE  Tiles(b, n)
<1>1. /\ Len(b) \in Nat /\ DOMAIN b = 1..Len(b)
      /\ \A i \in 1..Len(b) : b[i].offset \in Nat /\ b[i].len \in Nat
  BY SMTT(30), ListTyped
<1>2. /\ Len(b) <= MaxBlocks
      /\ \A i \in 1..Len(b) : b[i].len # 0 /\ b[i].offset + b[i].len <= n
  BY SMTT(30), ValidMeans
<1>3. \A i, j \in 1..Len(b) : j < i => b[j].offset + b[j].len <= b[i].offset
  BY SMTT(30), ValidOrdered
<1>4. \A i \in 1..Len(b) : b[i].len > 0
  BY SMTT(30), <1>1, <1>2
<1>5. \A i, j \in 1..Len(b) : i < j => b[i].offset < b[j].offset
  BY SMTT(30), <1>1, <1>3, <1>4
<1>6. UNION {Covered(b, i) : i \in 1..Len(b)} = 0..(n - 1)
  <2>1. \A i \in 1..Len(b) : Covered(b, i) \subseteq 0..(n - 1)
    BY SMTT(30), <1>1, <1>2 DEF Covered
  <2>2. \A k \in 0..(n - 1) : \E i \in 1..Len(b) : k \in Covered(b, i)
    BY SMTT(30), ValidCovers
  <2> QED BY ZenonT(40), <2>1, <2>2
<1>7. \A i, j \in 1..Len(b) : j < i => Covered(b, i) \cap Covered(b, j) = {}
  <2> TAKE i, j \in 1..Len(b)
  <2> HAVE j < i
  <2>1. b[j].offset + b[j].len <= b[i].offset
    BY SMTT(30), <1>3
  <2>2. b[i].offset \in Nat /\ b[i].len \in Nat /\ b[j].offset \in Nat /\ b[j].len \in Nat
    BY ZenonT(40), <1>1
  <2> QED BY SMTT(30), <2>1, <2>2 DEF Covered
<1>8. \A i, j \in 1..Len(b) : i # j => Covered(b, i) \cap Covered(b, j) = {}
  <2> TAKE i, j \in 1..Len(b)
  <2> HAVE i # j
  <2>1. i < j \/ j < i
    BY SMTT(30), <1>1
  <2> QED BY SMTT(30), <1>7, <2>1
<1> QED
  BY SMTT(30), <1>1, <1>2, <1>4, <1>5, <1>6, <1>8 DEF Tiles

\* In a list that covers every byte once, the byte after a block, if there is one,
\* belongs to no block up to that one.
LEMMA TilesNext ==
  ASSUME NEW b \in Seq(BlockPlace), NEW n \in Nat, Tiles(b, n),
         NEW i \in 1..Len(b), NEW j \in 1..Len(b), j <= i
  PROVE  b[i].offset + b[i].len \notin Covered(b, j)
<1> DEFINE e == b[i].offset + b[i].len
<1>1. /\ Len(b) \in Nat /\ DOMAIN b = 1..Len(b)
      /\ b[i].offset \in Nat /\ b[i].len \in Nat /\ b[j].offset \in Nat /\ b[j].len \in Nat
  BY SMTT(30), ListTyped
<1>2. b[i].len > 0 /\ (j < i => b[j].offset < b[i].offset)
      /\ (j # i => Covered(b, j) \cap Covered(b, i) = {})
  BY SMTT(30), <1>1 DEF Tiles
<1>3. CASE j = i
  BY SMTT(30), <1>1, <1>3 DEF Covered
<1>4. CASE j < i
  <2> SUFFICES ASSUME e \in Covered(b, j) PROVE FALSE
    BY SMTT(30)
  <2>1. e <= b[j].offset + b[j].len - 1
    BY SMTT(30), <1>1 DEF Covered
  <2>2. b[j].offset < b[i].offset /\ j # i /\ b[i].len > 0
    BY SMTT(30), <1>2, <1>4
  <2>3. b[i].offset <= b[j].offset + b[j].len - 1 /\ b[i].offset <= b[i].offset + b[i].len - 1
    BY ONLY <1>1, <2>1, <2>2, SMTT(30)
  <2>4. b[i].offset \in Covered(b, j) /\ b[i].offset \in Covered(b, i)
    BY ONLY <1>1, <2>2, <2>3, SMTT(30) DEF Covered
  <2> QED BY ZenonT(40), <1>2, <2>2, <2>4
<1> QED
  BY SMTT(30), <1>3, <1>4

\* A list that covers every byte once, in order, is accepted.
LEMMA TilesValid ==
  ASSUME NEW b \in Seq(BlockPlace), NEW n \in Nat, Tiles(b, n)
  PROVE  ValidateBlockList(b, n)
<1>1. /\ Len(b) \in Nat /\ DOMAIN b = 1..Len(b)
      /\ \A i \in 1..Len(b) : b[i].offset \in Nat /\ b[i].len \in Nat
  BY ListTyped
<1>2. /\ Len(b) <= MaxBlocks
      /\ \A i \in 1..Len(b) : b[i].len > 0
      /\ \A i, j \in 1..Len(b) : i < j => b[i].offset < b[j].offset
      /\ UNION {Covered(b, i) : i \in 1..Len(b)} = 0..(n - 1)
      /\ \A i, j \in 1..Len(b) : i # j => Covered(b, i) \cap Covered(b, j) = {}
  BY ZenonT(40), <1>1 DEF Tiles
<1>3. /\ \A i \in 1..Len(b) : Covered(b, i) \subseteq 0..(n - 1)
      /\ \A k \in 0..(n - 1) : \E i \in 1..Len(b) : k \in Covered(b, i)
  BY ZenonT(40), <1>2
<1>4. ASSUME NEW i \in 1..Len(b) PROVE b[i].offset + b[i].len <= n
  <2>1. b[i].offset + b[i].len - 1 \in Covered(b, i)
    BY SMTT(30), <1>1, <1>2 DEF Covered
  <2>2. b[i].offset + b[i].len - 1 \in 0..(n - 1)
    BY SMTT(30), <1>3, <2>1
  <2> QED BY SMTT(30), <1>1, <2>2
<1>5. ASSUME NEW i \in 1..Len(b), i = 1 PROVE b[i].offset = 0
  <2>1. 0 \in 0..(n - 1)
    BY SMTT(30), <1>1, <1>2, <1>4, <1>5
  <2>2. PICK j \in 1..Len(b) : 0 \in Covered(b, j)
    BY SMTT(30), <1>3, <2>1
  <2>3. b[j].offset = 0
    BY SMTT(30), <1>1, <2>2 DEF Covered
  <2>4. ~(b[1].offset < b[j].offset)
    BY SMTT(30), <1>1, <1>5, <2>3
  <2>5. j = 1
    BY SMTT(30), <1>1, <1>2, <1>5, <2>4
  <2> QED BY SMTT(30), <1>5, <2>3, <2>5
<1>6. ASSUME NEW i \in 1..Len(b), i # 1
      PROVE  b[i].offset = b[i - 1].offset + b[i - 1].len
  <2> DEFINE e == b[i - 1].offset + b[i - 1].len
  <2>1. i - 1 \in 1..Len(b) /\ i - 1 < i /\ i - 1 # i
    BY SMTT(30), <1>1, <1>6
  <2>2. /\ b[i].offset \in Nat /\ b[i].len \in Nat /\ b[i].len > 0
        /\ b[i - 1].offset \in Nat /\ b[i - 1].len \in Nat /\ e \in Nat
        /\ b[i - 1].offset < b[i].offset
        /\ Covered(b, i - 1) \cap Covered(b, i) = {}
    BY SMTT(30), <1>1, <1>2, <2>1
  <2>3. b[i].offset >= e
    <3> SUFFICES ASSUME b[i].offset < e PROVE FALSE
      BY SMTT(30), <2>2
    <3>1. b[i].offset \in Covered(b, i - 1) /\ b[i].offset \in Covered(b, i)
      BY SMTT(30), <2>2 DEF Covered
    <3> QED BY SMTT(30), <2>2, <3>1
  <2>4. ~(e < b[i].offset)
    <3> SUFFICES ASSUME e < b[i].offset PROVE FALSE
      BY SMTT(30)
    <3>1. e \in 0..(n - 1)
      BY SMTT(30), <1>4, <2>2
    <3>2. PICK j \in 1..Len(b) : e \in Covered(b, j)
      BY SMTT(30), <1>3, <3>1
    <3>3. ~(j <= i - 1)
      BY SMTT(30), <2>1, <3>2, TilesNext
    <3>4. j = i \/ i < j
      BY SMTT(30), <1>1, <3>3
    <3>5. b[i].offset <= b[j].offset
      BY SMTT(30), <1>1, <1>2, <3>4
    <3>6. b[j].offset <= e
      BY SMTT(30), <1>1, <3>2 DEF Covered
    <3> QED BY SMTT(30), <1>1, <2>2, <3>5, <3>6
  <2> QED BY SMTT(30), <2>2, <2>3, <2>4
<1>7. ASSUME Len(b) = 0 PROVE n = 0
  <2>1. 0..(n - 1) = {}
    BY SMTT(30), <1>3, <1>7
  <2> QED BY SMTT(30), <2>1
<1>8. ASSUME Len(b) # 0 PROVE b[Len(b)].offset + b[Len(b)].len = n
  <2> DEFINE m == Len(b)
             e == b[m].offset + b[m].len
  <2>1. m \in 1..Len(b) /\ e \in Nat /\ e <= n
    BY SMTT(30), <1>1, <1>4, <1>8
  <2>2. ASSUME e < n PROVE FALSE
    <3>1. e \in 0..(n - 1)
      BY SMTT(30), <2>1, <2>2
    <3>2. PICK j \in 1..Len(b) : e \in Covered(b, j)
      BY SMTT(30), <1>3, <3>1
    <3>3. j <= m
      BY SMTT(30), <1>1
    <3> QED BY SMTT(30), <2>1, <3>2, <3>3, TilesNext
  <2> QED BY SMTT(30), <2>1, <2>2
<1>9. \A i \in 1..Len(b) : b[i].len # 0
  BY SMTT(30), <1>1, <1>2
<1> QED
  BY SMTT(30), <1>2, <1>4, <1>5, <1>6, <1>7, <1>8, <1>9, ValidMeans

-----------------------------------------------------------------------------
(* Cutting a payload and putting it together *)

\* Block i of m, with m blocks of s bytes for n bytes, begins inside the payload;
\* all blocks but the last one are full, and the last one ends with the payload.
LEMMA PlacesSpan ==
  ASSUME NEW n \in Nat, NEW s \in Nat \ {0}, NEW m \in Nat, m = (n + s - 1) \div s
  PROVE  /\ \A i \in 1..m : (i - 1) * s \in Nat /\ (i - 1) * s < n /\ i * s = (i - 1) * s + s
         /\ \A i \in 1..m : i < m => i * s <= n
         /\ m = 0 => n = 0
         /\ m # 0 => n <= m * s
         /\ \A k \in Nat : n <= s * k => m <= k
<1>1. n + s - 1 \in Nat
  BY SMTT(30)
<1>2. m * s \in Nat /\ m * s <= n + s - 1 /\ n + s - 1 < m * s + s
  BY SMTT(30), <1>1, Quotient
<1>3. ASSUME NEW i \in 1..m
      PROVE  (i - 1) * s \in Nat /\ (i - 1) * s < n /\ i * s = (i - 1) * s + s
  <2>1. i - 1 \in Nat /\ i - 1 < m
    BY SMTT(30)
  <2>2. (i - 1) * s \in Nat /\ (i - 1) * s + s <= m * s
    BY SMTT(30), <2>1, Multiples
  <2>3. i * s = (i - 1) * s + s
    BY SMTT(30), <2>1
  <2> QED BY SMTT(30), <1>2, <2>2, <2>3
<1>4. ASSUME NEW i \in 1..m, i < m PROVE i * s <= n
  <2>1. i \in Nat /\ i * s \in Nat /\ i * s + s <= m * s
    BY SMTT(30), <1>4, Multiples
  <2> QED BY SMTT(30), <1>2, <2>1
<1>5. n <= m * s
  BY SMTT(30), <1>2
<1>6. m = 0 => m * s = 0
  BY SMTT(30)
<1>7. ASSUME NEW k \in Nat, n <= s * k PROVE m <= k
  <2>1. s * k = k * s /\ k * s \in Nat
    BY SMTT(30), Multiples
  <2>2. k < m => k * s + s <= m * s
    BY SMTT(30), Multiples
  <2>3. ~(k < m)
    BY SMTT(30), <1>2, <1>7, <2>1, <2>2
  <2> QED BY SMTT(30), <2>3
<1> QED
  BY SMTT(30), <1>3, <1>4, <1>5, <1>6, <1>7

\* The places chunk gives to the blocks of a payload are a list that is accepted.
LEMMA PlacesValid ==
  ASSUME NEW n \in Nat, NEW s \in Nat \ {0}, n <= s * MaxBlocks
  PROVE  ChunkPlaces(n, s) \in Seq(BlockPlace) /\ ValidateBlockList(ChunkPlaces(n, s), n)
<1> DEFINE m == (n + s - 1) \div s
           b == [i \in 1..m |-> [offset |-> (i - 1) * s,
                                 len |-> IF i * s <= n THEN s ELSE n - (i - 1) * s]]
<1>1. MaxBlocks \in Nat /\ s * MaxBlocks \in Nat
  BY SMTT(30), GeometryAssumption, Multiples
<1>2. ~(s = 0 \/ n > s * MaxBlocks)
  BY SMTT(30), <1>1
<1>3. ChunkPlaces(n, s) = b
  BY ZenonT(40), <1>2 DEF ChunkPlaces
<1>4. m \in Nat
  BY SMTT(30), Quotient
<1> HIDE DEF m
<1>5. /\ \A i \in 1..m : (i - 1) * s \in Nat /\ (i - 1) * s < n /\ i * s = (i - 1) * s + s
      /\ \A i \in 1..m : i < m => i * s <= n
      /\ m = 0 => n = 0
      /\ m # 0 => n <= m * s
      /\ m <= MaxBlocks
  BY SMTT(30), <1>1, <1>4, PlacesSpan DEF m
<1>6. ASSUME NEW i \in 1..m
      PROVE  /\ b[i] \in BlockPlace
             /\ b[i].offset = (i - 1) * s
             /\ b[i].len # 0
             /\ b[i].offset + b[i].len <= n
             /\ i < m => b[i].offset + b[i].len = i * s
             /\ i = m => b[i].offset + b[i].len = n
  <2> DEFINE x == (i - 1) * s
             y == i * s
  <2>1. b[i] = [offset |-> x, len |-> IF y <= n THEN s ELSE n - x]
    BY ZenonT(40)
  <2>2. x \in Nat /\ x < n /\ y = x + s /\ (i < m => y <= n) /\ (i = m => n <= y)
    <3>1. i = m => n <= m * s
      BY SMTT(30), <1>4, <1>5
    <3> QED BY ZenonT(40), <1>5, <3>1
  <2> HIDE DEF b, x, y
  <2>3. CASE y <= n
    <3>1. b[i] = [offset |-> x, len |-> s]
      BY SMTT(30), <2>1, <2>3
    <3>2. b[i] \in BlockPlace /\ b[i].offset = x /\ b[i].len = s
      BY SMTT(30), <2>2, <3>1 DEF BlockPlace
    <3>3. b[i].offset + b[i].len = y /\ (i = m => y = n)
      BY SMTT(30), <2>2, <2>3, <3>2
    <3> QED BY SMTT(30), <2>2, <2>3, <3>2, <3>3 DEF x, y
  <2>4. CASE ~(y <= n)
    <3>1. b[i] = [offset |-> x, len |-> n - x]
      BY SMTT(30), <2>1, <2>4
    <3>2. n - x \in Nat /\ n - x # 0 /\ x + (n - x) = n
      BY SMTT(30), <2>2
    <3>3. b[i] \in BlockPlace /\ b[i].offset = x /\ b[i].len = n - x
      BY SMTT(30), <2>2, <3>1, <3>2 DEF BlockPlace
    <3> QED BY SMTT(30), <2>2, <2>4, <3>2, <3>3 DEF x
  <2> QED BY SMTT(30), <2>3, <2>4
<1>7. b \in Seq(BlockPlace) /\ Len(b) = m
  <2>1. b = [i \in 1..m |-> b[i]]
    BY ZenonT(40)
  <2> HIDE DEF b
  <2>2. \A i \in 1..m : b[i] \in BlockPlace
    BY SMTT(30), <1>6
  <2>3. b \in [1..m -> BlockPlace]
    BY SMTT(30), <2>1, <2>2
  <2> QED BY SMTT(30), <1>4, <2>3
<1> HIDE DEF b
<1>8. ASSUME NEW i \in 1..m, i = 1 PROVE b[i].offset = 0
  BY SMTT(30), <1>6, <1>8
<1>9. ASSUME NEW i \in 1..m, i # 1 PROVE b[i].offset = b[i - 1].offset + b[i - 1].len
  <2>1. i - 1 \in 1..m /\ i - 1 < m
    BY SMTT(30), <1>4, <1>9
  <2> QED BY SMTT(30), <1>6, <2>1
<1>10. m # 0 => b[m].offset + b[m].len = n
  BY SMTT(30), <1>4, <1>6
<1>11. ValidateBlockList(b, n)
  BY ZenonT(40), <1>5, <1>6, <1>7, <1>8, <1>9, <1>10, ValidMeans
<1> QED
  BY SMTT(30), <1>3, <1>7, <1>11

\* A slice of a payload.
LEMMA SliceOf ==
  ASSUME NEW p \in Seq(Nat), NEW o \in Nat, NEW l \in Nat, o + l <= Len(p)
  PROVE  /\ Len(SubSeq(p, o + 1, o + l)) = l
         /\ \A j \in 1..l : SubSeq(p, o + 1, o + l)[j] = p[o + j]
<1>1. Len(p) \in Nat
  BY SMTT(30)
<1>2. SubSeq(p, o + 1, o + l) \in Seq(Nat) /\ Len(SubSeq(p, o + 1, o + l)) = l
  BY SMTT(30), <1>1
<1>3. \A j \in 1..l : SubSeq(p, o + 1, o + l)[j] = p[o + j]
  <2> TAKE j \in 1..l
  <2>1. j \in 1..(o + l - (o + 1) + 1) /\ o + 1 + j - 1 = o + j
    BY SMTT(30)
  <2>2. SubSeq(p, o + 1, o + l)[j] = p[o + 1 + j - 1]
    BY SMTT(30), <1>1, <2>1
  <2> QED BY SMTT(30), <2>1, <2>2
<1> QED
  BY SMTT(30), <1>2, <1>3

\* What chunk cuts off at the places of an accepted list, reconstruct puts together.
LEMMA Restored ==
  ASSUME NEW p \in Seq(Nat), NEW b \in Seq(BlockPlace), ValidateBlockList(b, Len(p))
  PROVE  Reconstruct(b, Len(p), [i \in DOMAIN b |->
                                   SubSeq(p, b[i].offset + 1, b[i].offset + b[i].len)]) = p
<1> DEFINE d == [i \in DOMAIN b |-> SubSeq(p, b[i].offset + 1, b[i].offset + b[i].len)]
           At(k) == CHOOSE j \in DOMAIN b :
                      k - 1 \in b[j].offset..(b[j].offset + b[j].len - 1)
<1>1. /\ Len(p) \in Nat /\ Len(b) \in Nat /\ DOMAIN b = 1..Len(b)
      /\ \A i \in 1..Len(b) : b[i].offset \in Nat /\ b[i].len \in Nat
  BY SMTT(30), ListTyped
<1>2. \A i \in 1..Len(b) : b[i].offset + b[i].len <= Len(p)
  BY SMTT(30), <1>1, ValidMeans
<1>3. ASSUME NEW i \in DOMAIN b
      PROVE  /\ Len(d[i]) = b[i].len
             /\ \A j \in 1..b[i].len : d[i][j] = p[b[i].offset + j]
  <2>1. d[i] = SubSeq(p, b[i].offset + 1, b[i].offset + b[i].len)
    BY ZenonT(40)
  <2>2. b[i].offset \in Nat /\ b[i].len \in Nat /\ b[i].offset + b[i].len <= Len(p)
    BY ZenonT(40), <1>1, <1>2
  <2> HIDE DEF d
  <2>3. \A o, l \in Nat : o + l <= Len(p) =>
          /\ Len(SubSeq(p, o + 1, o + l)) = l
          /\ \A j \in 1..l : SubSeq(p, o + 1, o + l)[j] = p[o + j]
    BY SMTT(30), SliceOf
  <2>4. /\ Len(SubSeq(p, b[i].offset + 1, b[i].offset + b[i].len)) = b[i].len
        /\ \A j \in 1..b[i].len :
             SubSeq(p, b[i].offset + 1, b[i].offset + b[i].len)[j] = p[b[i].offset + j]
    BY ZenonT(40), <2>2, <2>3
  <2> QED BY ZenonT(40), <2>1, <2>4
<1> HIDE DEF d
<1>4. ASSUME NEW k \in 1..Len(p) PROVE d[At(k)][k - b[At(k)].offset] = p[k]
  <2>1. k - 1 \in 0..(Len(p) - 1)
    BY SMTT(30), <1>1
  <2>2. \E j \in DOMAIN b : k - 1 \in b[j].offset..(b[j].offset + b[j].len - 1)
    BY ZenonT(40), <1>1, <2>1, ValidCovers DEF Covered
  <2>3. At(k) \in DOMAIN b /\ k - 1 \in b[At(k)].offset..(b[At(k)].offset + b[At(k)].len - 1)
    BY ZenonT(40), <2>2
  <2> HIDE DEF At
  <2>4. b[At(k)].offset \in Nat /\ b[At(k)].len \in Nat
    BY ZenonT(40), <1>1, <2>3
  <2>5. /\ k - b[At(k)].offset \in 1..b[At(k)].len
        /\ b[At(k)].offset + (k - b[At(k)].offset) = k
    BY SMTT(30), <2>3, <2>4
  <2> QED BY ZenonT(40), <1>3, <2>3, <2>5
<1>5. Reconstruct(b, Len(p), d) = [k \in 1..Len(p) |-> d[At(k)][k - b[At(k)].offset]]
  BY ZenonT(40), <1>3 DEF Reconstruct
<1> HIDE DEF At
<1>6. Reconstruct(b, Len(p), d) = [k \in 1..Len(p) |-> p[k]]
  BY ZenonT(40), <1>4, <1>5
<1>7. p = [k \in 1..Len(p) |-> p[k]]
  BY SMTT(30)
<1> QED
  BY ZenonT(40), <1>6, <1>7 DEF d

-----------------------------------------------------------------------------
(* Theorems *)

\* A task has the form of its kind.
TaskTyped ==
  /\ task.kind = "blocks" => task \in BlocksTask
  /\ task.kind = "payload" => task \in PayloadTask
  /\ task.kind = "shape" => task \in ShapeTask
  /\ task.kind = "eviction" => task \in EvictionTask
  /\ task.kind = "lookup" => task \in LookupTask
  /\ task.kind = "planner" => task \in PlannerTask
  /\ task.kind = "cost" => task \in CostTask
  /\ task.kind = "admission" => task \in AdmissionTask

\* A result is what the algorithm of its kind computes.
Computed ==
  /\ Done("blocks") => result = ValidateBlockList(task.blocks, task.byte_len)
  /\ Done("payload") => result = [places |-> ChunkPlaces(Len(task.payload), task.size)]
  /\ Done("shape") =>
       result = [numel |-> Numel(task.dims), bytes |-> ByteLen(task.dims, ByteSize[task.dtype]),
                 strides |-> ContiguousStrides(task.layout, task.dims)]
  /\ Done("eviction") =>
       result = EvictionPlan(task.policy, task.entries, task.used, task.capacity)
  /\ Done("lookup") => result = LookupPlan(task.cost, task.bytes, task.placements)
  /\ Done("planner") =>
       result = Decide(task.cost, task.bytes, task.dest, task.placements, task.reconstruct)
  /\ Done("cost") =>
       result = [transfer |-> TransferCost(task.cost, task.src, task.dst, task.bytes),
                 restore |-> RestoreCost(task.cost, task.dst, task.bytes),
                 reconstruct |-> ReconstructCost(task.cost, task.bytes)]
  /\ Done("admission") =>
       result = Evaluate(task.policy, Candidate(task.cost, task.bytes), task.objects, task.free)

Answered == TaskTyped /\ Computed

\* No task is of two kinds.
LEMMA TaskKinds ==
  /\ \A t \in MessageTask : t.kind = "message"
  /\ \A t \in AddressTask : t.kind = "addresses"
  /\ \A t \in CompatTask : t.kind = "compat"
  /\ \A t \in ManifestTask : t.kind = "manifest"
  /\ \A t \in BlocksTask : t.kind = "blocks"
  /\ \A t \in PayloadTask : t.kind = "payload"
  /\ \A t \in ShapeTask : t.kind = "shape"
  /\ \A t \in EvictionTask : t.kind = "eviction"
  /\ \A t \in LookupTask : t.kind = "lookup"
  /\ \A t \in PlannerTask : t.kind = "planner"
  /\ \A t \in CostTask : t.kind = "cost"
  /\ \A t \in AdmissionTask : t.kind = "admission"
<1>1. /\ \A t \in MessageTask : t.kind = "message"
      /\ \A t \in AddressTask : t.kind = "addresses"
      /\ \A t \in CompatTask : t.kind = "compat"
      /\ \A t \in ManifestTask : t.kind = "manifest"
  BY ZenonT(40), TaskAssumption
<1>2. ASSUME NEW t \in BlocksTask PROVE t.kind = "blocks"
  <2>1. t \in [kind : {"blocks"}, blocks : Seq(BlockPlace), byte_len : Nat]
    BY ZenonT(40), TaskAssumption
  <2> QED BY ONLY SMTT(30), <2>1
<1>3. ASSUME NEW t \in PayloadTask PROVE t.kind = "payload"
  <2>1. t \in [kind : {"payload"}, payload : Seq(Nat), size : Nat]
    BY ZenonT(40), TaskAssumption
  <2> QED BY ONLY SMTT(30), <2>1
<1>4. ASSUME NEW t \in ShapeTask PROVE t.kind = "shape"
  <2>1. t \in [kind : {"shape"}, dims : Seq(0..MaxDim), dtype : 1..14,
                          layout : {Layout("row", <<>>), Layout("col", <<>>)}]
    BY ZenonT(40), TaskAssumption
  <2> QED BY ONLY SMTT(30), <2>1
<1>5. ASSUME NEW t \in EvictionTask PROVE t.kind = "eviction"
  <2>1. t \in [kind : {"eviction"}, policy : EvictionPolicy,
                             entries : Seq(Evictable), used : Nat, capacity : Nat]
    BY ZenonT(40), TaskAssumption
  <2> QED BY ONLY SMTT(30), <2>1
<1>6. ASSUME NEW t \in LookupTask PROVE t.kind = "lookup"
  <2>1. t \in [kind : {"lookup"}, cost : CostModel, bytes : Nat,
                           placements : Seq(STRING \ {NoTier})]
    BY ZenonT(40), TaskAssumption
  <2> QED BY ONLY Zenon, <2>1
<1>7. ASSUME NEW t \in PlannerTask PROVE t.kind = "planner"
  <2>1. t \in [kind : {"planner"}, cost : CostModel, bytes : Nat, dest : STRING,
                            placements : Seq(STRING), reconstruct : BOOLEAN]
    BY ZenonT(40), TaskAssumption
  <2> QED BY ONLY SMTT(30), <2>1
<1>8. ASSUME NEW t \in CostTask PROVE t.kind = "cost"
  <2>1. t \in [kind : {"cost"}, cost : CostModel, src : STRING, dst : STRING, bytes : Nat]
    BY ZenonT(40), TaskAssumption
  <2> QED BY ONLY SMTT(30), <2>1
<1>9. ASSUME NEW t \in AdmissionTask PROVE t.kind = "admission"
  <2>1. t \in [kind : {"admission"}, policy : AdmissionPolicy, cost : CostModel,
                              bytes : Nat, objects : Nat, free : Nat]
    BY ZenonT(40), TaskAssumption
  <2> QED BY ONLY SMTT(30), <2>1
<1> QED
  BY ZenonT(40), <1>1, <1>2, <1>3, <1>4, <1>5, <1>6, <1>7, <1>8, <1>9

\* A task is chosen before anything is computed.
LEMMA InitAnswered == Init => Answered
<1> SUFFICES ASSUME Init PROVE Answered
  BY SMTT(30)
<1>1. \A k : ~Done(k)
  BY ZenonT(40) DEF Init, Done
<1>2. TaskTyped
  BY SMTT(30), TaskKinds DEF Init, TaskTyped
<1>3. Computed
  BY ZenonT(40), <1>1 DEF Computed
<1> QED
  BY ZenonT(40), <1>2, <1>3 DEF Answered

\* A call computes the result of its own kind, and there is only one call.
LEMMA NextAnswered == Answered /\ [Next]_vars => Answered'
<1> SUFFICES ASSUME Answered, [Next]_vars PROVE Answered'
  BY SMTT(30)
<1>1. CASE UNCHANGED vars
  <2>1. task' = task /\ result' = result
    BY ZenonT(40), <1>1 DEF vars
  <2>2. TaskTyped'
    BY ZenonT(40), <2>1 DEF Answered, TaskTyped
  <2>3. Computed'
    BY ZenonT(40), <2>1 DEF Answered, Computed, Done
  <2> QED BY ZenonT(40), <2>2, <2>3 DEF Answered
<1>2. CASE Next
  <2>1. /\ EncodeMessage => Call("message")
        /\ IdentifyAddresses => Call("addresses")
        /\ EncodeKey => Call("compat")
        /\ WriteManifestFile => Call("manifest")
        /\ CheckBlocks => Call("blocks")
        /\ StorePayload => Call("payload")
        /\ MeasureShape => Call("shape")
        /\ PlanEviction => Call("eviction")
        /\ ReportLookup => Call("lookup")
        /\ DecideAction => Call("planner")
        /\ Price => Call("cost")
        /\ Admit => Call("admission")
    BY ZenonT(40) DEF EncodeMessage, IdentifyAddresses, EncodeKey, WriteManifestFile, CheckBlocks,
       StorePayload, MeasureShape, PlanEviction, ReportLookup, DecideAction, Price, Admit
  <2>2. /\ task' = task
        /\ task.kind = "blocks" => CheckBlocks
        /\ task.kind = "payload" => StorePayload
        /\ task.kind = "shape" => MeasureShape
        /\ task.kind = "eviction" => PlanEviction
        /\ task.kind = "lookup" => ReportLookup
        /\ task.kind = "planner" => DecideAction
        /\ task.kind = "cost" => Price
        /\ task.kind = "admission" => Admit
    BY ZenonT(40), <1>2, <2>1 DEF Next, Call
  <2>3. /\ CheckBlocks => result' = ValidateBlockList(task.blocks, task.byte_len)
        /\ StorePayload => result' = [places |-> ChunkPlaces(Len(task.payload), task.size)]
        /\ MeasureShape =>
             result' = [numel |-> Numel(task.dims),
                        bytes |-> ByteLen(task.dims, ByteSize[task.dtype]),
                        strides |-> ContiguousStrides(task.layout, task.dims)]
        /\ PlanEviction =>
             result' = EvictionPlan(task.policy, task.entries, task.used, task.capacity)
        /\ ReportLookup => result' = LookupPlan(task.cost, task.bytes, task.placements)
        /\ DecideAction => result' = Decide(task.cost, task.bytes, task.dest, task.placements,
                                            task.reconstruct)
        /\ Price =>
             result' = [transfer |-> TransferCost(task.cost, task.src, task.dst, task.bytes),
                        restore |-> RestoreCost(task.cost, task.dst, task.bytes),
                        reconstruct |-> ReconstructCost(task.cost, task.bytes)]
        /\ Admit => result' = Evaluate(task.policy, Candidate(task.cost, task.bytes),
                                       task.objects, task.free)
    BY ZenonT(40) DEF CheckBlocks, StorePayload, MeasureShape, PlanEviction, ReportLookup,
       DecideAction, Price, Admit
  <2>4. TaskTyped'
    BY ZenonT(40), <2>2 DEF Answered, TaskTyped
  <2>5. Computed'
    BY ZenonT(60), <2>2, <2>3 DEF Computed, Done
  <2> QED BY Zenon, <2>4, <2>5 DEF Answered
<1> QED
  BY SMTT(30), <1>1, <1>2

\* validate_block_list accepts exactly the lists that cover every byte of a tensor
\* once, in order, for lists and tensors of any length.
THEOREM BlockListsTile == Spec => []BlocksTile
<1>1. Answered => BlocksTile
  <2> SUFFICES ASSUME Answered, Done("blocks")
               PROVE  result <=> Tiles(task.blocks, task.byte_len)
    BY SMTT(30) DEF BlocksTile, Tiles, Covered
  <2>1. task.blocks \in Seq(BlockPlace) /\ task.byte_len \in Nat
    <3>1. task \in [kind : {"blocks"}, blocks : Seq(BlockPlace), byte_len : Nat]
      BY ZenonT(40), TaskAssumption DEF Answered, TaskTyped, Done
    <3> QED BY ONLY SMTT(30), <3>1
  <2>2. result = ValidateBlockList(task.blocks, task.byte_len)
    BY ZenonT(40) DEF Answered, Computed
  <2>3. ValidateBlockList(task.blocks, task.byte_len) <=> Tiles(task.blocks, task.byte_len)
    BY SMTT(30), <2>1, ValidTiles, TilesValid
  <2> QED BY ZenonT(40), <2>2, <2>3
<1> QED
  BY ZenonT(40), <1>1, InitAnswered, NextAnswered, PTL DEF Spec

\* A payload of any length, cut into blocks of any size that does not need too many
\* of them, is put together again unchanged; chunk refuses every other size.
THEOREM PayloadsRestored == Spec => []PayloadRestored
<1>1. Answered => PayloadRestored
  <2> SUFFICES ASSUME Answered, Done("payload") PROVE PayloadRestored
    BY ZenonT(40) DEF PayloadRestored
  <2> DEFINE p == task.payload
             s == task.size
             b == ChunkPlaces(Len(p), s)
  <2>1. p \in Seq(Nat) /\ s \in Nat
    <3>1. task \in [kind : {"payload"}, payload : Seq(Nat), size : Nat]
      BY ZenonT(40), TaskAssumption DEF Answered, TaskTyped, Done
    <3> QED BY ONLY SMTT(30), <3>1
  <2>2. result = [places |-> b]
    BY ZenonT(40) DEF Answered, Computed
  <2>3. result.places = b
    BY ZenonT(40), <2>2
  <2>4. Len(p) \in Nat /\ MaxBlocks \in Nat /\ s * MaxBlocks \in Nat
    BY SMTT(30), <2>1, GeometryAssumption, Multiples
  <2>5. CASE s * MaxBlocks >= Len(p) /\ s > 0
    <3>1. s \in Nat \ {0} /\ Len(p) <= s * MaxBlocks
      BY SMTT(30), <2>1, <2>4, <2>5
    <3>2. b \in Seq(BlockPlace) /\ ValidateBlockList(b, Len(p))
      BY SMTT(30), <2>4, <3>1, PlacesValid
    <3> HIDE DEF b, p, s
    <3>3. Reconstruct(b, Len(p), [i \in DOMAIN b |->
            SubSeq(p, b[i].offset + 1, b[i].offset + b[i].len)]) = p
      BY SMTT(30), <2>1, <3>2, Restored
    <3> QED BY ZenonT(40), <2>3, <2>5, <3>3 DEF PayloadRestored, p, s
  <2>6. CASE ~(s * MaxBlocks >= Len(p) /\ s > 0)
    <3>1. s = 0 \/ Len(p) > s * MaxBlocks
      BY SMTT(30), <2>1, <2>4, <2>6
    <3>2. b = None
      BY ZenonT(40), <3>1 DEF ChunkPlaces
    <3> QED BY ZenonT(40), <2>3, <2>6, <3>2 DEF PayloadRestored
  <2> QED BY SMTT(30), <2>5, <2>6
<1> QED
  BY <1>1, InitAnswered, NextAnswered, PTL DEF Spec

\* For every cost model the costs of a transfer, of a restore and of recomputing
\* never fall when a tensor grows, up to and at the saturation of u64.
THEOREM CostsGrow == Spec => []CostsMonotone
<1>1. Answered => CostsMonotone
  <2> SUFFICES ASSUME Answered, Done("cost") PROVE CostsMonotone
    BY ZenonT(40) DEF CostsMonotone
  <2> DEFINE c == task.cost
             n == task.bytes
             w == Least(c.read_bw[Kind(task.src)], c.write_bw[Kind(task.dst)])
             v == Least(c.read_bw["persistent"], c.write_bw[Kind(task.dst)])
  <2>1. c \in CostModel /\ n \in Nat
    <3>1. task \in [kind : {"cost"}, cost : CostModel, src : STRING, dst : STRING, bytes : Nat]
      BY ZenonT(40), TaskAssumption DEF Answered, TaskTyped, Done
    <3> QED BY ONLY SMTT(30), <3>1
  <2>2. /\ result.transfer = TransferCost(c, task.src, task.dst, n)
        /\ result.restore = RestoreCost(c, task.dst, n)
        /\ result.reconstruct = ReconstructCost(c, n)
    BY SMTT(30) DEF Answered, Computed
  <2>3. w \in Nat /\ v \in Nat /\ c.transfer_latency_ns \in Nat /\ c.restore_latency_ns \in Nat
    BY SMTT(30), <2>1, Bandwidths
  <2>4. /\ TransferCost(c, task.src, task.dst, n) = SatAdd(c.transfer_latency_ns, TransferNs(n, w))
        /\ TransferCost(c, task.src, task.dst, n + 1)
             = SatAdd(c.transfer_latency_ns, TransferNs(n + 1, w))
        /\ RestoreCost(c, task.dst, n) = SatAdd(c.restore_latency_ns, TransferNs(n, v))
        /\ RestoreCost(c, task.dst, n + 1) = SatAdd(c.restore_latency_ns, TransferNs(n + 1, v))
    BY ZenonT(40) DEF TransferCost, RestoreCost
  <2> HIDE DEF c, n, w, v
  <2>5. /\ TransferNs(n, w) \in Nat /\ TransferNs(n + 1, w) \in Nat
        /\ TransferNs(n, w) <= TransferNs(n + 1, w)
        /\ TransferNs(n, v) \in Nat /\ TransferNs(n + 1, v) \in Nat
        /\ TransferNs(n, v) <= TransferNs(n + 1, v)
    <3>1. n + 1 \in Nat /\ Top \in Nat
      BY SMTT(30), <2>1, PolicyAssumption
    <3>2. /\ TransferNs(n, w) \in 0..Top /\ TransferNs(n + 1, w) \in 0..Top
          /\ TransferNs(n, v) \in 0..Top /\ TransferNs(n + 1, v) \in 0..Top
      BY ZenonT(40), <2>1, <2>3, <3>1, TransferGrows
    <3>3. TransferNs(n, w) <= TransferNs(n + 1, w) /\ TransferNs(n, v) <= TransferNs(n + 1, v)
      BY ZenonT(40), <2>1, <2>3, TransferGrows
    <3> QED BY SMTT(30), <3>1, <3>2, <3>3
  <2>6. TransferCost(c, task.src, task.dst, n) <= TransferCost(c, task.src, task.dst, n + 1)
    BY SMTT(30), <2>3, <2>4, <2>5, SumGrows
  <2>7. RestoreCost(c, task.dst, n) <= RestoreCost(c, task.dst, n + 1)
    BY SMTT(30), <2>3, <2>4, <2>5, SumGrows
  <2>8. ReconstructCost(c, n) <= ReconstructCost(c, n + 1)
    BY SMTT(30), <2>1, ReconstructGrows
  <2> QED BY ZenonT(40), <2>2, <2>6, <2>7, <2>8 DEF CostsMonotone, c, n
<1> QED
  BY <1>1, InitAnswered, NextAnswered, PTL DEF Spec

\* For every policy whose value criteria are no stricter than the cost model, they
\* refuse nothing that register asks for: the limits on size, objects and free
\* bytes decide.
THEOREM AdmittedBySize == Spec => []AdmissionBySize
<1>1. Answered => AdmissionBySize
  <2> SUFFICES ASSUME Answered, Done("admission"),
                      task.policy.min_reuse_value_ns <= task.cost.recompute_base_ns,
                      task.policy.min_reconstruction_cost_ns <= task.cost.recompute_base_ns,
                      task.policy.value_per_byte_ns <= task.cost.recompute_ns_per_byte
               PROVE  result <=>
                        /\ task.bytes <= task.policy.max_object_bytes
                        /\ task.bytes <= task.free
                        /\ task.policy.max_objects = -1 \/ task.objects < task.policy.max_objects
    BY ZenonT(40) DEF AdmissionBySize
  <2>1. task.policy \in AdmissionPolicy /\ task.cost \in CostModel /\ task.bytes \in Nat
    <3>1. task \in [kind : {"admission"}, policy : AdmissionPolicy, cost : CostModel,
                     bytes : Nat, objects : Nat, free : Nat]
      BY ZenonT(40), TaskAssumption DEF Answered, TaskTyped, Done
    <3> QED BY ONLY SMTT(30), <3>1
  <2> DEFINE k == Candidate(task.cost, task.bytes)
  <2>2. /\ k.bytes = task.bytes
        /\ k.reuse_value_ns = ReconstructCost(task.cost, task.bytes)
        /\ k.reconstruction_cost_ns = ReconstructCost(task.cost, task.bytes)
    BY SMTT(30) DEF Candidate
  <2>3. result = Evaluate(task.policy, k, task.objects, task.free)
    BY ZenonT(40) DEF Answered, Computed
  <2> HIDE DEF k
  <2>4. /\ k.reuse_value_ns >= task.policy.min_reuse_value_ns
        /\ k.reconstruction_cost_ns >= task.policy.min_reconstruction_cost_ns
        /\ k.reuse_value_ns >= RequiredValue(task.policy, k.bytes)
    BY SMTT(30), <2>1, <2>2, ValueEnough
  <2> QED BY ZenonT(40), <2>2, <2>3, <2>4 DEF Evaluate, EvaluateIgnoringCapacity
<1> QED
  BY <1>1, InitAnswered, NextAnswered, PTL DEF Spec

\* For every cost model and every list of placements the planner's choice has the
\* lowest cost of all that is possible; a lookup names a source that holds a copy
\* exactly when there is a plan.
THEOREM CheapestIsChosen == Spec => []CheapestChosen
<1>1. Answered => CheapestChosen
  <2>1. ASSUME Answered, Done("planner")
        PROVE  LET costs == {TransferCost(task.cost, t, task.dest, task.bytes) : t \in Tiers}
                            \cup (IF "persistent" \in Tiers
                                    THEN {RestoreCost(task.cost, task.dest, task.bytes)} ELSE {})
                            \cup (IF task.reconstruct
                                    THEN {ReconstructCost(task.cost, task.bytes)} ELSE {})
               IN  IF task.dest \in Tiers
                     THEN result = Plan("reuse", task.dest, 0)
                     ELSE /\ result.action = "reject" <=> costs = {}
                          /\ costs # {} => result.cost \in costs /\ \A c \in costs : result.cost <= c
                          /\ result.action = "restore"
                               => task.cost.restore_latency_ns < task.cost.transfer_latency_ns
    <3>1. /\ task.cost \in CostModel /\ task.bytes \in Nat /\ task.placements \in Seq(STRING)
          /\ task.reconstruct \in BOOLEAN
      <4>1. task \in [kind : {"planner"}, cost : CostModel, bytes : Nat, dest : STRING,
                      placements : Seq(STRING), reconstruct : BOOLEAN]
        BY ZenonT(40), <2>1, TaskAssumption DEF Answered, TaskTyped, Done
      <4> QED BY ONLY Zenon, <4>1
    <3>2. result = Decide(task.cost, task.bytes, task.dest, task.placements, task.reconstruct)
      BY ZenonT(40), <2>1 DEF Answered, Computed
    <3>3. PlannerChoice(task.cost, task.bytes, task.dest, Tiers, task.reconstruct, result)
      BY ZenonT(40), <3>1, <3>2, PlannerCheapest DEF Tiers
    <3> QED BY ZenonT(40), <3>3 DEF PlannerChoice
  <2>2. ASSUME Answered, Done("lookup")
        PROVE  /\ result.source = NoTier <=> result.plan.action = "reject"
               /\ result.source # NoTier => {result.source, result.plan.tier} \subseteq Tiers
               /\ "host" \in Tiers <=> result.plan.action = "reuse"
    <3>1. /\ task.cost \in CostModel /\ task.bytes \in Nat
          /\ task.placements \in Seq(STRING \ {NoTier})
      <4>1. task \in [kind : {"lookup"}, cost : CostModel, bytes : Nat,
                      placements : Seq(STRING \ {NoTier})]
        BY ZenonT(40), <2>2, TaskAssumption DEF Answered, TaskTyped, Done
      <4> QED BY ONLY Zenon, <4>1
    <3>2. result = LookupPlan(task.cost, task.bytes, task.placements)
      BY ZenonT(40), <2>2 DEF Answered, Computed
    <3> DEFINE cost == task.cost
               bytes == task.bytes
               p == task.placements
               tiers == {p[i] : i \in DOMAIN p}
    <3> HIDE DEF cost, bytes, p
    <3>3. /\ cost \in CostModel /\ bytes \in Nat /\ p \in Seq(STRING \ {NoTier})
          /\ result = LookupPlan(cost, bytes, p)
      BY ZenonT(40), <3>1, <3>2 DEF cost, bytes, p
    <3>4. /\ result.source = NoTier <=> result.plan.action = "reject"
          /\ result.source # NoTier => {result.source, result.plan.tier} \subseteq tiers
          /\ "host" \in tiers <=> result.plan.action = "reuse"
      BY ZenonT(40), <3>3, LookupSource
    <3>5. tiers = Tiers
      BY ZenonT(40) DEF Tiers, p
    <3> HIDE DEF tiers
    <3> QED BY ZenonT(40), <3>4, <3>5
  <2> QED BY ZenonT(40), <2>1, <2>2 DEF CheapestChosen
<1> QED
  BY <1>1, InitAnswered, NextAnswered, PTL DEF Spec

-----------------------------------------------------------------------------
(* Shapes *)

\* A dimension of a shape is a natural.
LEMMA Dimensions ==
  ASSUME NEW d \in Seq(0..MaxDim)
  PROVE  /\ Len(d) \in Nat /\ DOMAIN d = 1..Len(d)
         /\ \A i \in 1..Len(d) : d[i] \in 0..MaxDim
         /\ \A i \in 1..Len(d) : d[i] \in Nat
<1>1. MaxDim \in Nat
  BY ZenonT(40), GeometryAssumption
<1> QED
  BY SMTT(30), <1>1

\* The running products of a shape are those of the checked multiplication.
LEMMA ProductsChecked ==
  ASSUME NEW d, Len(d) \in Nat, \A i \in 1..Len(d) : d[i] \in Nat
  PROVE  /\ \A n \in 0..Len(d) : CheckedProducts(d)[n] \in {None, Products(d)[n]}
         /\ CheckedProducts(d)[Len(d)] # None =>
              \A n \in 0..Len(d) : CheckedProducts(d)[n] = Products(d)[n]
<1>1. None \notin Nat
  BY ZenonT(40), WireAssumption
<1>2. CheckedProducts(d) = CHOOSE c : CheckedRun(c, d, MaxWide, None)
  BY ZenonT(40) DEF CheckedProducts, CheckedMul, CheckedRun
<1>3. \E c : CheckedRun(c, d, MaxWide, None)
  BY ZenonT(40), <1>1, CheckedExists
<1>4. CheckedRun(CheckedProducts(d), d, MaxWide, None)
  BY ZenonT(40), <1>2, <1>3
<1>5. ExactRun(CheckedProducts(d), d, None)
  BY ZenonT(40), <1>1, <1>4, CheckedExact
<1> QED
  BY ZenonT(40), <1>5 DEF ExactRun

\* The running products of a loop, where there are any.
LEMMA RunningExact ==
  ASSUME NEW d, Len(d) \in Nat, DOMAIN d = 1..Len(d), \A i \in 1..Len(d) : d[i] \in Nat,
         RunningProducts(d) # None
  PROVE  /\ RunningProducts(d) = [i \in 1..Len(d) |-> CheckedProducts(d)[i - 1]]
         /\ \A i \in 1..Len(d) : RunningProducts(d)[i] = Products(d)[i - 1]
<1> DEFINE c == CheckedProducts(d)
<1>1. c[Len(d)] # None /\ RunningProducts(d) = [i \in 1..Len(d) |-> c[i - 1]]
  BY ZenonT(40) DEF RunningProducts
<1>2. \A n \in 0..Len(d) : c[n] = Products(d)[n]
  BY ZenonT(40), <1>1, ProductsChecked
<1> HIDE DEF c
<1>3. \A i \in 1..Len(d) : i - 1 \in 0..Len(d)
  BY ONLY SMTT(30), Len(d) \in Nat
<1>4. \A i \in 1..Len(d) : RunningProducts(d)[i] = c[i - 1]
  BY ZenonT(40), <1>1
<1> QED
  BY ZenonT(40), <1>1, <1>2, <1>3, <1>4 DEF c

\* The strides of a contiguous layout, where there are any, are dense.
LEMMA ContiguousDense ==
  ASSUME NEW d \in Seq(0..MaxDim), NEW layout \in {Layout("row", <<>>), Layout("col", <<>>)},
         NEW s, s = ContiguousStrides(layout, d), s # None, Product(d) > 0
  PROVE  Dense(d, s, MaxDim)
<1> DEFINE L == Len(d)
           r == Reverse(d)
<1>1. /\ L \in Nat /\ DOMAIN d = 1..L /\ (\A i \in 1..L : d[i] \in 0..MaxDim)
      /\ \A i \in 1..L : d[i] \in Nat
  BY ZenonT(40), Dimensions
<1>2. MaxDim \in Nat /\ Products(d)[L] > 0
  BY ZenonT(40), GeometryAssumption DEF Product
<1>3. layout.kind = "row" \/ layout.kind = "col"
  BY SMTT(30) DEF Layout
<1>4. CASE layout.kind = "col"
  <2>1. s = RunningProducts(d)
    BY ZenonT(40), <1>4 DEF ContiguousStrides, ColMajorStrides
  <2>2. \A i \in 1..L : s[i] = Products(d)[i - 1]
    BY ZenonT(40), <1>1, <2>1, RunningExact
  <2> QED BY ZenonT(40), <1>1, <1>2, <2>2, DenseStrides
<1>5. CASE layout.kind = "row"
  <2>1. s = RowMajorStrides(d)
    BY ZenonT(40), <1>5 DEF ContiguousStrides
  <2>2. RunningProducts(r) # None /\ s = Reverse(RunningProducts(r))
    BY ZenonT(40), <2>1 DEF RowMajorStrides
  <2>3. DOMAIN r = 1..L /\ Len(r) = L /\ \A i \in 1..L : r[i] = d[L - i + 1]
    BY SMTT(30), <1>1 DEF Reverse
  <2> HIDE DEF r, L
  <2>4. \A i \in 1..L : L - i + 1 \in 1..L /\ L - i + 1 - 1 = L - i
    BY ONLY SMTT(30), <1>1
  <2>5. \A i \in 1..L : r[i] \in Nat
    BY ZenonT(40), <1>1, <2>3, <2>4
  <2>6. /\ RunningProducts(r) = [i \in 1..L |-> CheckedProducts(r)[i - 1]]
        /\ \A i \in 1..L : RunningProducts(r)[i] = Products(r)[i - 1]
    <3>1. Len(r) \in Nat /\ DOMAIN r = 1..Len(r) /\ \A i \in 1..Len(r) : r[i] \in Nat
      BY ZenonT(40), <1>1, <2>3, <2>5
    <3>2. /\ RunningProducts(r) = [i \in 1..Len(r) |-> CheckedProducts(r)[i - 1]]
          /\ \A i \in 1..Len(r) : RunningProducts(r)[i] = Products(r)[i - 1]
      BY ONLY Zenon, <2>2, <3>1, RunningExact
    <3> QED BY ZenonT(40), <2>3, <3>2
  <2>7. Len(RunningProducts(r)) = L
    BY SMTT(30), <1>1, <2>6
  <2>8. s = [i \in 1..L |-> RunningProducts(r)[L - i + 1]]
    BY ZenonT(40), <2>2, <2>7 DEF Reverse
  <2>9. \A i \in 1..L : s[i] = Products(r)[L - i]
    <3>1. ASSUME NEW i \in 1..L PROVE s[i] = Products(r)[L - i]
      <4>1. PICK k \in 1..L : k = L - i + 1 /\ k - 1 = L - i
        BY SMTT(30), <1>1, <2>4
      <4>2. s[i] = RunningProducts(r)[k]
        BY ZenonT(40), <2>8, <4>1
      <4>3. RunningProducts(r)[k] = Products(r)[k - 1]
        BY ZenonT(40), <2>6
      <4> QED BY ZenonT(40), <4>1, <4>2, <4>3
    <3> QED BY ZenonT(40), <3>1
  <2> QED BY ZenonT(40), <1>1, <1>2, <2>3, <2>9, DenseReversed DEF L
<1> QED
  BY ZenonT(40), <1>3, <1>4, <1>5

\* The fields of a shape's task and of its result.
LEMMA ShapeAnswered ==
  ASSUME Answered, Done("shape")
  PROVE  /\ task.dims \in Seq(0..MaxDim)
         /\ task.layout \in {Layout("row", <<>>), Layout("col", <<>>)}
         /\ result.numel = Numel(task.dims)
         /\ result.bytes = ByteLen(task.dims, ByteSize[task.dtype])
         /\ result.strides = ContiguousStrides(task.layout, task.dims)
<1>1. task \in [kind : {"shape"}, dims : Seq(0..MaxDim), dtype : 1..14,
                layout : {Layout("row", <<>>), Layout("col", <<>>)}]
  BY ZenonT(40), TaskAssumption DEF Answered, TaskTyped, Done
<1>2. result = [numel |-> Numel(task.dims), bytes |-> ByteLen(task.dims, ByteSize[task.dtype]),
                strides |-> ContiguousStrides(task.layout, task.dims)]
  BY ZenonT(40) DEF Answered, Computed
<1>3. /\ task.dims \in Seq(0..MaxDim)
      /\ task.layout \in {Layout("row", <<>>), Layout("col", <<>>)}
  BY ONLY Zenon, <1>1
<1>4. /\ result.numel = Numel(task.dims)
      /\ result.bytes = ByteLen(task.dims, ByteSize[task.dtype])
      /\ result.strides = ContiguousStrides(task.layout, task.dims)
  BY ONLY Zenon, <1>2
<1> QED
  BY ZenonT(40), <1>3, <1>4

\* For shapes of any rank and any dimensions, a number of elements or bytes is the
\* unbounded product or is refused: no product wraps around to a small size.
THEOREM SizesAreExact == Spec => []SizesExact
<1>1. Answered => SizesExact
  <2> SUFFICES ASSUME Answered, Done("shape") PROVE SizesExact
    BY ZenonT(40) DEF SizesExact
  <2> DEFINE d == task.dims
             e == ByteSize[task.dtype]
             n == Numel(d)
             b == ByteLen(d, e)
  <2>1. d \in Seq(0..MaxDim) /\ result.numel = n /\ result.bytes = b
    BY ZenonT(40), ShapeAnswered
  <2>2. n = None \/ n = Product(d)
    <3>1. Len(d) \in Nat /\ \A i \in 1..Len(d) : d[i] \in Nat
      BY ZenonT(40), <2>1, Dimensions
    <3>2. Len(d) \in 0..Len(d)
      BY ONLY SMTT(30), <3>1
    <3>3. n \in {None, Products(d)[Len(d)]}
      BY ZenonT(40), <3>1, <3>2, ProductsChecked DEF Numel
    <3> QED BY ZenonT(40), <3>3 DEF Product
  <2>3. b = None \/ b = CheckedMul(n, e)
    BY ZenonT(40) DEF ByteLen
  <2> HIDE DEF d, e, n, b
  <2>4. CheckedMul(n, e) = None \/ (CheckedMul(n, e) = n * e /\ n # None /\ ~(n * e > MaxWide))
    <3>1. CASE n = None \/ e = None \/ n * e > MaxWide
      <4>1. CheckedMul(n, e) = None
        BY ZenonT(40), <3>1 DEF CheckedMul
      <4> QED BY SMTT(30), <4>1
    <3>2. CASE ~(n = None \/ e = None \/ n * e > MaxWide)
      <4>1. CheckedMul(n, e) = n * e
        BY ZenonT(40), <3>2 DEF CheckedMul
      <4> QED BY ZenonT(40), <3>2, <4>1
    <3> QED BY ZenonT(40), <3>1, <3>2
  <2>5. b # None => b = Product(d) * e /\ ~(Product(d) * e > MaxWide)
    BY ZenonT(40), <2>2, <2>3, <2>4
  <2> QED BY ZenonT(40), <2>1, <2>2, <2>5 DEF SizesExact, d, e
<1> QED
  BY <1>1, InitAnswered, NextAnswered, PTL DEF Spec

\* For shapes of any rank and any dimensions, the strides of a row-major or a
\* column-major layout give every element its own offset and leave no gap.
THEOREM StridesAreDense == Spec => []StridesDense
<1>1. Answered => StridesDense
  <2> SUFFICES ASSUME Answered, Done("shape"), result.strides # None, Product(task.dims) > 0
               PROVE  StridesDense
    BY ZenonT(40) DEF StridesDense
  <2> DEFINE d == task.dims
             s == result.strides
             indices == {x \in [DOMAIN d -> 0..(MaxDim - 1)] : \A i \in DOMAIN d : x[i] < d[i]}
             offset(x) == Totals([i \in DOMAIN d |-> x[i] * s[i]])[Len(d)]
  <2>1. /\ d \in Seq(0..MaxDim) /\ task.layout \in {Layout("row", <<>>), Layout("col", <<>>)}
        /\ s = ContiguousStrides(task.layout, d)
    BY ZenonT(40), ShapeAnswered
  <2>2. {OffsetOf(d, s, x) : x \in Indices(d, MaxDim)} = 0..(Product(d) - 1)
    <3>1. d \in Seq(0..MaxDim) /\ s # None /\ Product(d) > 0
      BY ZenonT(40), <2>1
    <3> HIDE DEF d, s
    <3>2. Dense(d, s, MaxDim)
      BY ZenonT(40), <2>1, <3>1, ContiguousDense
    <3> QED BY ZenonT(40), <3>2 DEF Dense, Product
  <2>3. DOMAIN d = 1..Len(d)
    BY ZenonT(40), <2>1, Dimensions
  <2>4. indices = Indices(d, MaxDim)
    BY ZenonT(40), <2>3 DEF Indices
  <2>5. \A x : offset(x) = OffsetOf(d, s, x)
    BY ZenonT(40), <2>3 DEF OffsetOf
  <2>6. {offset(x) : x \in indices} = 0..(Product(d) - 1)
    <3> HIDE DEF indices, offset, d, s
    <3> QED BY ZenonT(40), <2>2, <2>4, <2>5
  <2> QED BY ZenonT(40), <2>6 DEF StridesDense
<1> QED
  BY <1>1, InitAnswered, NextAnswered, PTL DEF Spec

-----------------------------------------------------------------------------
(* Eviction *)

\* The fields of an eviction's task and its result.
LEMMA EvictionAnswered ==
  ASSUME Answered, Done("eviction")
  PROVE  /\ task.policy \in EvictionPolicy /\ task.entries \in Seq(Evictable)
         /\ task.used \in Nat /\ task.capacity \in Nat /\ Distinct(task.entries)
         /\ result = EvictionPlan(task.policy, task.entries, task.used, task.capacity)
<1>1. task \in EvictionTask
  BY ZenonT(40) DEF Answered, TaskTyped, Done
<1>2. task \in [kind : {"eviction"}, policy : EvictionPolicy, entries : Seq(Evictable),
                used : Nat, capacity : Nat]
  BY ZenonT(40), <1>1, TaskAssumption
<1>3. /\ task.policy \in EvictionPolicy /\ task.entries \in Seq(Evictable)
      /\ task.used \in Nat /\ task.capacity \in Nat
  BY ONLY Zenon, <1>2
<1>4. DOMAIN task.entries = 1..Len(task.entries)
  BY ONLY SMTT(30), <1>3
<1>5. \A i, j \in DOMAIN task.entries :
        i # j => task.entries[i].object_id # task.entries[j].object_id
  BY ZenonT(40), <1>1, TaskAssumption
<1>6. Distinct(task.entries)
  BY ZenonT(40), <1>4, <1>5 DEF Distinct
<1>7. result = EvictionPlan(task.policy, task.entries, task.used, task.capacity)
  BY ZenonT(40) DEF Answered, Computed
<1> QED
  BY ZenonT(40), <1>3, <1>6, <1>7

\* For every policy, budget and set of entries the eviction plan makes enough room
\* or takes everything, stops as soon as there is enough, and does not depend on
\* the order in which the map yields the entries.
THEOREM PlansAreMinimal == Spec => []EvictionMinimal
<1>1. Answered => EvictionMinimal
  <2> SUFFICES ASSUME Answered, Done("eviction") PROVE EvictionMinimal
    BY ZenonT(40) DEF EvictionMinimal
  <2>1. PlanMinimal(task.policy, task.entries, task.used, task.capacity, result)
    BY ZenonT(40), EvictionAnswered, PlansMinimal
  <2> QED BY ZenonT(40), <2>1 DEF EvictionMinimal, PlanMinimal
<1> QED
  BY <1>1, InitAnswered, NextAnswered, PTL DEF Spec

\* For every policy in which use and age count, and entries whose scores fit, an
\* entry used more often or more recently than another of the same size is never
\* evicted before it.
THEOREM HotEntriesAreKept == Spec => []HotEntriesKept
<1>1. Answered => HotEntriesKept
  <2> SUFFICES ASSUME Answered, Done("eviction"),
                      task.policy.reuse_weight > 0, task.policy.age_weight > 0,
                      \A i \in DOMAIN task.entries : Fits(task.policy, task.entries[i])
               PROVE  HotEntriesKept
    BY ZenonT(40) DEF HotEntriesKept
  <2>1. HotKept(task.entries, result)
    BY ZenonT(40), EvictionAnswered, HotPlans
  <2> QED BY ZenonT(40), <2>1 DEF HotEntriesKept, HotKept, Hotter
<1> QED
  BY <1>1, InitAnswered, NextAnswered, PTL DEF Spec
=============================================================================
