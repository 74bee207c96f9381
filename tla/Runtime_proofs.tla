---------------------------- MODULE Runtime_proofs ----------------------------
(***************************************************************************)
(* Proofs about what the rest of the library runs on: coroutines, block    *)
(* pools, the file of the shaders, the watches of paths and the memory of  *)
(* objects.  They share nothing.                                           *)
(***************************************************************************)
EXTENDS Coroutines, BlockPool, ShaderStore, Watch, Ownership, SequenceTheorems,
  FiniteSetTheorems, TLAPS

-----------------------------------------------------------------------------
(***************************************************************************)
(* Coroutines.  Any number of coroutines may resume each other in any      *)
(* order: one that yields or finishes gives control back to the one whose  *)
(* call of resume is waiting for it.                                       *)
(***************************************************************************)

CosTypes ==
  /\ caller \in [Cos -> Contexts]
  /\ running \in Contexts
  /\ resuming \in [Contexts -> Contexts]
  /\ kept \in [Contexts -> Contexts]

Waits(c) == resuming[c] # c

\* Who runs waits for nobody; whoever waits will be given control by the
\* coroutine it resumed, which runs or waits itself, and finds in its call of
\* resume its own name for the local storage.
ChainInv ==
  /\ key = running
  /\ ~Waits(running)
  /\ \A c \in Contexts : Waits(c) =>
       /\ resuming[c] \in Cos /\ caller[resuming[c]] = c /\ kept[c] = c
       /\ resuming[c] = running \/ Waits(resuming[c])
  /\ \A c \in Cos : c = running \/ Waits(c) =>
       caller[c] # c /\ resuming[caller[c]] = c

LEMMA ChainInit == CosInit => CosTypes /\ ChainInv
BY MainAssumption DEF CosInit, CosTypes, ChainInv, Waits, Contexts

LEMMA ResumeStep ==
  ASSUME CosTypes, ChainInv, NEW c \in Cos, Resume(c)
  PROVE  CosTypes' /\ ChainInv'
<1>r. PICK r \in Contexts : r = running
  BY DEF CosTypes
<1>1. /\ c \in Contexts /\ c # r /\ resuming[c] = c /\ resuming[r] = r
      /\ caller' = [caller EXCEPT ![c] = r]
      /\ kept' = [kept EXCEPT ![r] = r]
      /\ resuming' = [resuming EXCEPT ![r] = c]
      /\ key' = c /\ running' = c
  BY <1>r DEF Resume, Resting, CallerOf, Waits, ChainInv, Contexts
<1>2. CosTypes'
  BY <1>1 DEF CosTypes
<1>3. /\ resuming'[r] = c /\ kept'[r] = r /\ caller'[c] = r
      /\ \A d \in Contexts \ {r} : resuming'[d] = resuming[d] /\ kept'[d] = kept[d]
      /\ \A e \in Cos \ {c} : caller'[e] = caller[e]
  BY <1>1 DEF CosTypes
<1>4. ASSUME NEW d \in Contexts, resuming'[d] # d
      PROVE  /\ resuming'[d] \in Cos /\ caller'[resuming'[d]] = d /\ kept'[d] = d
             /\ resuming'[d] = c \/ resuming'[resuming'[d]] # resuming'[d]
  <2>1. CASE d = r
    BY <1>3, <2>1
  <2>2. CASE d # r
    <3>1. /\ resuming'[d] = resuming[d] /\ resuming[d] \in Cos /\ kept'[d] = d
          /\ caller[resuming[d]] = d
          /\ resuming[d] = r \/ resuming[resuming[d]] # resuming[d]
      BY <1>r, <1>3, <1>4, <2>2 DEF ChainInv, Waits
    <3>2. resuming[d] # c
      BY <1>1, <3>1
    <3>3. resuming'[resuming[d]] # resuming[d]
      BY <1>1, <1>3, <3>1, <3>2 DEF CosTypes
    <3> QED
      BY <1>3, <3>1, <3>2, <3>3
  <2> QED
    BY <2>1, <2>2
<1>5. ASSUME NEW e \in Cos, e = c \/ resuming'[e] # e
      PROVE  caller'[e] # e /\ resuming'[caller'[e]] = e
  <2>1. CASE e = c
    BY <1>1, <1>3, <2>1
  <2>2. CASE e # c
    <3>1. e = r \/ resuming[e] # e
      BY <1>3, <1>5, <2>2 DEF Contexts
    <3>2. caller[e] # e /\ resuming[caller[e]] = e /\ caller[e] \in Contexts
      BY <1>r, <3>1 DEF ChainInv, Waits, CosTypes
    <3>3. caller[e] # r
      BY <1>1, <3>1, <3>2
    <3> QED
      BY <1>3, <2>2, <3>2, <3>3
  <2> QED
    BY <2>1, <2>2
<1>6. ChainInv'
  <2>1. key' = running' /\ ~Waits(running)'
    BY <1>1, <1>3 DEF Waits
  <2> QED
    BY <1>1, <1>4, <1>5, <2>1 DEF ChainInv, Waits
<1> QED
  BY <1>2, <1>6

LEMMA BackStep ==
  ASSUME CosTypes, ChainInv, running # Main, SwitchBack(caller[running])
  PROVE  CosTypes' /\ ChainInv'
<1>r. PICK r \in Cos : r = running
  BY DEF CosTypes, Contexts
<1>t. PICK t \in Contexts : t = caller[r]
  BY <1>r DEF CosTypes
<1>1. /\ t # r /\ resuming[t] = r /\ resuming[r] = r /\ kept[t] = t
      /\ running' = t /\ key' = t
      /\ resuming' = [resuming EXCEPT ![t] = t]
      /\ UNCHANGED <<caller, kept>>
  BY <1>r, <1>t DEF SwitchBack, ChainInv, Waits
<1>2. CosTypes'
  BY <1>1 DEF CosTypes
<1>3. resuming'[t] = t /\ \A d \in Contexts \ {t} : resuming'[d] = resuming[d]
  BY <1>1 DEF CosTypes
<1>4. ASSUME NEW d \in Contexts, resuming'[d] # d
      PROVE  /\ resuming'[d] \in Cos /\ caller'[resuming'[d]] = d /\ kept'[d] = d
             /\ resuming'[d] = t \/ resuming'[resuming'[d]] # resuming'[d]
  <2>1. d # t /\ resuming'[d] = resuming[d]
    BY <1>3, <1>4
  <2>2. /\ resuming[d] \in Cos /\ caller[resuming[d]] = d /\ kept[d] = d
        /\ resuming[d] = r \/ resuming[resuming[d]] # resuming[d]
    BY <1>r, <1>4, <2>1 DEF ChainInv, Waits
  <2>3. resuming[d] # r
    BY <1>t, <2>1, <2>2
  <2>4. resuming[d] = t \/ resuming'[resuming[d]] = resuming[resuming[d]]
    BY <1>3, <2>2 DEF Contexts
  <2> QED
    BY <1>1, <2>1, <2>2, <2>3, <2>4
<1>5. ASSUME NEW e \in Cos, e = t \/ resuming'[e] # e
      PROVE  caller'[e] # e /\ resuming'[caller'[e]] = e
  <2>1. resuming[e] # e
    BY <1>1, <1>3, <1>5 DEF Contexts
  <2>2. caller[e] # e /\ resuming[caller[e]] = e /\ caller[e] \in Contexts
    BY <2>1 DEF ChainInv, Waits, CosTypes
  <2>3. caller[e] # t
    BY <1>1, <2>1, <2>2
  <2> QED
    BY <1>1, <1>3, <2>2, <2>3
<1>6. ChainInv'
  <2>1. key' = running' /\ ~Waits(running)'
    BY <1>1, <1>3 DEF Waits
  <2> QED
    BY <1>1, <1>4, <1>5, <2>1 DEF ChainInv, Waits
<1> QED
  BY <1>2, <1>6

\* Coroutines may resume each other in any order and any number of times: one
\* that yields comes back to the call that resumed it last.
THEOREM ResumersAreReturnedTo == CosSpec => []ResumersWait
<1>1. CosTypes /\ ChainInv /\ [CosNext]_coVars => (CosTypes /\ ChainInv)'
  <2> SUFFICES ASSUME CosTypes, ChainInv, [CosNext]_coVars
               PROVE  CosTypes' /\ ChainInv'
    OBVIOUS
  <2>1. ASSUME NEW c \in Cos, Resume(c)
        PROVE  CosTypes' /\ ChainInv'
    BY <2>1, ResumeStep
  <2>2. CASE Yield \/ Finish
    BY <2>2, BackStep DEF Yield, Finish
  <2>3. CASE UNCHANGED <<caller, key, running, resuming, kept>>
    BY <2>3 DEF CosTypes, ChainInv, Waits
  <2> QED
    BY <2>1, <2>2, <2>3 DEF CosNext, CreateCo, DestroyCo, coVars
<1>2. CosTypes /\ ChainInv => ResumersWait
  <2> SUFFICES ASSUME CosTypes, ChainInv PROVE ResumersWait
    OBVIOUS
  <2>1. running # Main => resuming[caller[running]] = running
    BY DEF CosTypes, Contexts, ChainInv
  <2> QED
    BY <2>1 DEF ChainInv, Waits, ResumersWait
<1> QED
  BY <1>1, <1>2, ChainInit, PTL DEF CosSpec

-----------------------------------------------------------------------------
(***************************************************************************)
(* BlockPool.  A pool of any size hands out no block twice and loses none: *)
(* its free list goes through the blocks that nobody holds, each once.     *)
(***************************************************************************)

\* The free list is f, which has n elements: the blocks that are not held.
FreeListIs(f, n) ==
  /\ n \in Nat
  /\ f \in [1 .. n -> Blocks \ held]
  /\ \A i, j \in 1 .. n : f[i] = f[j] => i = j
  /\ \A b \in Blocks \ held : \E i \in 1 .. n : f[i] = b
  /\ Linked(f, n)

PoolInv ==
  /\ held \subseteq Blocks
  /\ next \in [Blocks -> Blocks \cup {Nowhere}]
  /\ \E n \in Nat : \E f \in [1 .. n -> Blocks] : FreeListIs(f, n)

LEMMA BlocksAreOffsets ==
  /\ Blocks \subseteq Int
  /\ \A p \in Int : IsBlock(p) => p \in Blocks
  /\ Nowhere \notin Blocks
<1>1. \A i \in 0 .. Capacity - 1 : i * BlockSize \in Int
  BY PoolAssumption
<1>2. Blocks \subseteq Int
  BY <1>1 DEF Blocks
<1>3. ASSUME NEW p \in Int, IsBlock(p) PROVE p \in Blocks
  <2>1. BlockSize \in Nat /\ BlockSize > 0 /\ Capacity \in Nat
    BY PoolAssumption
  <2>2. p = (BlockSize * (p \div BlockSize)) + (p % BlockSize)
        /\ p \div BlockSize \in Int
    BY <2>1
  <2>3. p = (p \div BlockSize) * BlockSize
    BY <1>3, <2>1, <2>2 DEF IsBlock
  <2>4. ASSUME NEW q \in Int, p = q * BlockSize PROVE q \in 0 .. Capacity - 1
    <3>1. 0 <= q * BlockSize /\ q * BlockSize < BlockSize * Capacity
      BY <1>3, <2>4 DEF IsBlock, Size
    <3>2. q >= 0
      BY <2>1, <3>1
    <3>3. q < Capacity
      BY <2>1, <3>1
    <3> QED
      BY <2>1, <3>2, <3>3
  <2>5. p \div BlockSize \in 0 .. Capacity - 1
    BY <2>2, <2>3, <2>4
  <2> QED
    BY <2>3, <2>5 DEF Blocks
<1> QED
  BY <1>2, <1>3, PoolAssumption

LEMMA PoolInvInit == PoolInit => PoolInv
<1> SUFFICES ASSUME PoolInit PROVE PoolInv
  OBVIOUS
<1> DEFINE f == [i \in 1 .. Capacity |-> (Capacity - i) * BlockSize]
<1>1. BlockSize \in Nat \ {0} /\ Capacity \in Nat /\ held = {}
  BY PoolAssumption DEF PoolInit
<1>2. f \in [1 .. Capacity -> Blocks]
  BY <1>1 DEF Blocks
<1>3. \A i, j \in 1 .. Capacity : f[i] = f[j] => i = j
  <2>1. \A a, b \in Int : a * BlockSize = b * BlockSize => a = b
    BY <1>1
  <2> QED
    BY <1>1, <2>1
<1>4. \A b \in Blocks : \E i \in 1 .. Capacity : f[i] = b
  <2> SUFFICES ASSUME NEW k \in 0 .. Capacity - 1
               PROVE  \E i \in 1 .. Capacity : f[i] = k * BlockSize
    BY DEF Blocks
  <2>1. Capacity - k \in 1 .. Capacity /\ f[Capacity - k] = k * BlockSize
    BY <1>1
  <2> QED
    BY <2>1
<1>5. Linked(f, Capacity)
  <2>1. freeList = IF Capacity = 0 THEN Nowhere ELSE f[1]
    BY <1>1 DEF PoolInit, Size
  <2>2. ASSUME NEW i \in 1 .. Capacity
        PROVE  next[f[i]] = IF i = Capacity THEN Nowhere ELSE f[i + 1]
    <3>1. next[f[i]] = IF f[i] = 0 THEN Nowhere ELSE f[i] - BlockSize
      BY <1>2 DEF PoolInit
    <3>2. CASE i = Capacity
      BY <1>1, <3>1, <3>2
    <3>3. CASE i # Capacity
      <4>1. f[i] # 0
        BY <1>1, <3>3
      <4>2. f[i + 1] = f[i] - BlockSize
        BY <1>1, <3>3
      <4> QED
        BY <3>1, <3>3, <4>1, <4>2
    <3> QED
      BY <3>2, <3>3
  <2> QED
    BY <2>1, <2>2 DEF Linked
<1>6. next \in [Blocks -> Blocks \cup {Nowhere}]
  <2>1. ASSUME NEW k \in 0 .. Capacity - 1, k * BlockSize # 0
        PROVE  k * BlockSize - BlockSize \in Blocks
    <3>1. k - 1 \in 0 .. Capacity - 1 /\ (k - 1) * BlockSize = k * BlockSize - BlockSize
      BY <1>1, <2>1
    <3> QED
      BY <3>1 DEF Blocks
  <2>2. \A b \in Blocks : b # 0 => b - BlockSize \in Blocks
    BY <2>1 DEF Blocks
  <2> QED
    BY <2>2 DEF PoolInit
<1>7. FreeListIs(f, Capacity)
  BY <1>1, <1>2, <1>3, <1>4, <1>5 DEF FreeListIs
<1> QED
  BY <1>1, <1>2, <1>6, <1>7 DEF PoolInv

\* One step: the head of the list goes to a caller.
LEMMA AllocKeepsPoolInv == PoolInv /\ AllocBlock => PoolInv'
<1> SUFFICES ASSUME PoolInv, AllocBlock PROVE PoolInv'
  OBVIOUS
<1>0. PICK n \in Nat : \E f \in [1 .. n -> Blocks] : FreeListIs(f, n)
  BY DEF PoolInv
<1>1. PICK f \in [1 .. n -> Blocks] : FreeListIs(f, n)
  BY <1>0
<1> DEFINE g == [i \in 1 .. n - 1 |-> f[i + 1]]
<1>2. /\ freeList # Nowhere /\ held' = held \cup {freeList}
      /\ freeList' = next[freeList] /\ next' = next
  BY DEF AllocBlock
<1>3. n # 0 /\ freeList = f[1] /\ n - 1 \in Nat /\ f[1] \in Blocks \ held
  BY <1>1, <1>2 DEF FreeListIs, Linked
<1>4. \A i \in 1 .. n - 1 : i + 1 \in 1 .. n /\ g[i] = f[i + 1] /\ g[i] # f[1]
  BY <1>1, <1>3 DEF FreeListIs
<1>5. g \in [1 .. n - 1 -> Blocks \ held']
  <2>1. \A i \in 1 .. n - 1 : g[i] \in Blocks \ held'
    BY <1>1, <1>2, <1>3, <1>4 DEF FreeListIs
  <2> QED
    BY <2>1
<1>6. \A i, j \in 1 .. n - 1 : g[i] = g[j] => i = j
  BY <1>1, <1>3, <1>4 DEF FreeListIs
<1>7. ASSUME NEW b \in Blocks \ held' PROVE \E i \in 1 .. n - 1 : g[i] = b
  <2>1. PICK k \in 1 .. n : f[k] = b
    BY <1>1, <1>2, <1>7 DEF FreeListIs
  <2>2. k # 1
    BY <1>2, <1>3, <1>7, <2>1
  <2>3. k - 1 \in 1 .. n - 1 /\ g[k - 1] = b
    BY <1>3, <2>1, <2>2
  <2> QED
    BY <2>3
<1>8. Linked(g, n - 1)'
  <2>1. next[f[1]] = IF 1 = n THEN Nowhere ELSE f[2]
    BY <1>1, <1>3 DEF FreeListIs, Linked
  <2>2. freeList' = IF n - 1 = 0 THEN Nowhere ELSE g[1]
    BY <1>2, <1>3, <2>1
  <2>3. ASSUME NEW i \in 1 .. n - 1
        PROVE  next'[g[i]] = IF i = n - 1 THEN Nowhere ELSE g[i + 1]
    <3>1. next[f[i + 1]] = IF i + 1 = n THEN Nowhere ELSE f[(i + 1) + 1]
      BY <1>1, <1>4 DEF FreeListIs, Linked
    <3> QED
      BY <1>2, <1>3, <1>4, <3>1
  <2> QED
    BY <2>2, <2>3 DEF Linked
<1>9. FreeListIs(g, n - 1)'
  BY <1>2, <1>3, <1>5, <1>6, <1>7, <1>8 DEF FreeListIs, Blocks
<1>10. held' \subseteq Blocks
  BY <1>2, <1>3 DEF PoolInv
<1>11. g \in [1 .. n - 1 -> Blocks]
  BY <1>5
<1> QED
  BY <1>2, <1>3, <1>9, <1>10, <1>11 DEF PoolInv, Blocks

\* The other: a block of a caller becomes the head of the list.
LEMMA FreeKeepsPoolInv ==
  ASSUME PoolInv, NEW p \in Pointers, FreePointer(p) PROVE PoolInv'
<1>0. PICK n \in Nat : \E f \in [1 .. n -> Blocks] : FreeListIs(f, n)
  BY DEF PoolInv
<1>1. PICK f \in [1 .. n -> Blocks] : FreeListIs(f, n)
  BY <1>0
<1>2. p \in Int
  BY PoolAssumption DEF Pointers, Size
<1>3. p \in Blocks /\ p \in held
  BY <1>2, BlocksAreOffsets DEF FreePointer
<1>4. /\ next' = [b \in Blocks |-> IF b = p THEN freeList ELSE next[b]]
      /\ freeList' = p /\ held' = held \ {p}
  <2>1. Blocks \cup {p} = Blocks
    BY <1>3
  <2> QED
    BY <2>1 DEF FreePointer
<1> DEFINE g == [i \in 1 .. n + 1 |-> IF i = 1 THEN p ELSE f[i - 1]]
<1>5. g[1] = p /\ \A i \in 1 .. n + 1 : i # 1 => i - 1 \in 1 .. n /\ g[i] = f[i - 1]
  OBVIOUS
<1>6. \A i \in 1 .. n : f[i] \in Blocks \ held /\ f[i] # p
  BY <1>1, <1>3 DEF FreeListIs
<1>7. g \in [1 .. n + 1 -> Blocks \ held']
  <2>1. \A i \in 1 .. n + 1 : g[i] \in Blocks \ held'
    BY <1>3, <1>4, <1>5, <1>6
  <2> QED
    BY <2>1
<1>8. \A i, j \in 1 .. n + 1 : g[i] = g[j] => i = j
  <2> SUFFICES ASSUME NEW i \in 1 .. n + 1, NEW j \in 1 .. n + 1, g[i] = g[j]
               PROVE  i = j
    OBVIOUS
  <2>1. CASE i = 1 \/ j = 1
    BY <1>5, <1>6, <2>1
  <2>2. CASE i # 1 /\ j # 1
    <3>1. f[i - 1] = f[j - 1] /\ i - 1 \in 1 .. n /\ j - 1 \in 1 .. n
      BY <1>5, <2>2
    <3>2. i - 1 = j - 1
      BY <1>1, <3>1 DEF FreeListIs
    <3> QED
      BY <3>2
  <2> QED
    BY <2>1, <2>2
<1>9. ASSUME NEW b \in Blocks \ held' PROVE \E i \in 1 .. n + 1 : g[i] = b
  <2>1. CASE b = p
    BY <1>5, <2>1
  <2>2. CASE b # p
    <3>1. PICK k \in 1 .. n : f[k] = b
      BY <1>1, <1>4, <1>9, <2>2 DEF FreeListIs
    <3>2. k + 1 \in 1 .. n + 1 /\ g[k + 1] = b
      BY <3>1
    <3> QED
      BY <3>2
  <2> QED
    BY <2>1, <2>2
<1>10. Linked(g, n + 1)'
  <2>1. freeList' = IF n + 1 = 0 THEN Nowhere ELSE g[1]
    BY <1>4, <1>5
  <2>2. ASSUME NEW i \in 1 .. n + 1
        PROVE  next'[g[i]] = IF i = n + 1 THEN Nowhere ELSE g[i + 1]
    <3>1. CASE i = 1
      <4>1. next'[g[1]] = freeList
        BY <1>3, <1>4, <1>5
      <4>2. freeList = IF n = 0 THEN Nowhere ELSE f[1]
        BY <1>1 DEF FreeListIs, Linked
      <4> QED
        BY <3>1, <4>1, <4>2
    <3>2. CASE i # 1
      <4>1. next'[g[i]] = next[f[i - 1]]
        BY <1>4, <1>5, <1>6, <3>2
      <4>2. next[f[i - 1]] = IF i - 1 = n THEN Nowhere ELSE f[(i - 1) + 1]
        BY <1>1, <1>5, <3>2 DEF FreeListIs, Linked
      <4>3. (i - 1 = n <=> i = n + 1) /\ (i - 1) + 1 = i /\ n \in Nat
        BY <1>1 DEF FreeListIs
      <4>4. i # n + 1 => g[i + 1] = f[i]
        BY <1>5, <3>2, <4>3
      <4> HIDE DEF g
      <4> QED
        BY <4>1, <4>2, <4>3, <4>4
    <3> QED
      BY <3>1, <3>2
  <2> QED
    BY <2>1, <2>2 DEF Linked
<1>11. FreeListIs(g, n + 1)'
  BY <1>4, <1>7, <1>8, <1>9, <1>10 DEF FreeListIs, Blocks
<1>12. freeList \in Blocks \cup {Nowhere}
  BY <1>1 DEF FreeListIs, Linked
<1>13. next' \in [Blocks -> Blocks \cup {Nowhere}]
  BY <1>4, <1>12 DEF PoolInv
<1>14. held' \subseteq Blocks /\ g \in [1 .. n + 1 -> Blocks] /\ n + 1 \in Nat
  BY <1>4, <1>7 DEF PoolInv
<1> QED
  BY <1>11, <1>13, <1>14 DEF PoolInv, Blocks

\* The list counts the blocks that are free.
LEMMA PoolInvImplies == PoolInv => BlocksAreConserved
<1> SUFFICES ASSUME PoolInv PROVE BlocksAreConserved
  OBVIOUS
<1>0. PICK n \in Nat : \E f \in [1 .. n -> Blocks] : FreeListIs(f, n)
  BY DEF PoolInv
<1>1. PICK f \in [1 .. n -> Blocks] : FreeListIs(f, n)
  BY <1>0
<1>2. f \in Bijection(1 .. n, Blocks \ held)
  BY <1>1 DEF FreeListIs, Bijection, Injection, Surjection, IsInjective
<1>3. ExistsBijection(1 .. n, Blocks \ held)
  BY <1>2 DEF ExistsBijection
<1>4. Cardinality(Blocks \ held) = n
  BY <1>3, FS_CountingElements
<1> QED
  BY <1>1, <1>4 DEF PoolInv, FreeListIs, BlocksAreConserved

(* In a pool of any number of blocks of any size, whatever the order in which *)
(* cmp_pool_alloc and cmp_pool_free are called, and whatever pointers that    *)
(* are no blocks are freed, the free list has each free block exactly once.   *)
THEOREM BlocksAreSharedByNobody == PoolSpec => []BlocksAreConserved
<1>1. PoolInv /\ [PoolNext]_poolVars => PoolInv'
  <2> SUFFICES ASSUME PoolInv, [PoolNext]_poolVars PROVE PoolInv'
    OBVIOUS
  <2>1. CASE AllocBlock
    BY <2>1, AllocKeepsPoolInv
  <2>2. CASE \E p \in Pointers : FreePointer(p)
    BY <2>2, FreeKeepsPoolInv
  <2>3. CASE UNCHANGED poolVars
    <3>0. freeList' = freeList /\ next' = next /\ held' = held
      BY <2>3 DEF poolVars
    <3>1. PICK n \in Nat : \E f \in [1 .. n -> Blocks] : FreeListIs(f, n)
      BY DEF PoolInv
    <3>2. PICK f \in [1 .. n -> Blocks] : FreeListIs(f, n)
      BY <3>1
    <3>3. Linked(f, n)'
      BY <3>0, <3>2 DEF FreeListIs, Linked
    <3>4. FreeListIs(f, n)'
      BY <3>0, <3>2, <3>3 DEF FreeListIs, Blocks
    <3> QED
      BY <3>0, <3>4 DEF PoolInv, Blocks
  <2> QED
    BY <2>1, <2>2, <2>3 DEF PoolNext
<1> QED
  BY <1>1, PoolInvInit, PoolInvImplies, PTL DEF PoolSpec

-----------------------------------------------------------------------------
(***************************************************************************)
(* ShaderStore.  The cache holds only what was stored, also after any      *)
(* number of files that were cut short.                                    *)
(***************************************************************************)

\* What may be in the list and in the whole entries of the file: what was stored,
\* and what a load has left of it.  Only a shader that has a type can lose it.
Known == stored \cup {Entry(k, NoType) : k \in starved}
OnlyStored ==
  /\ entries \in Seq(Known) /\ file \in Seq(Known)
  /\ \A k \in starved : \E e \in stored : e.key = k /\ e.type # NoType

LEMMA ReverseKeeps ==
  ASSUME NEW S, NEW s \in Seq(S)
  PROVE  Reverse(s) \in Seq(S) /\ Len(Reverse(s)) = Len(s)
<1>1. Len(s) \in Nat /\ \A i \in 1 .. Len(s) : s[i] \in S
  BY LenProperties, ElementOfSeq
<1>2. \A i \in 1 .. Len(s) : s[(Len(s) - i) + 1] \in S
  BY <1>1
<1>3. Reverse(s) = [i \in 1 .. Len(s) |-> s[(Len(s) - i) + 1]]
  BY DEF Reverse
<1>4. Reverse(s) \in Seq(S)
  BY <1>1, <1>2, <1>3, SeqDef
<1> QED
  BY <1>1, <1>3, <1>4, LenProperties

\* Entries that lose their handles go on to be known.
LEMMA WithoutHandlesKnown ==
  ASSUME NEW S, NEW T, NEW read \in Seq(S), NEW bare \in SUBSET DOMAIN read, S \subseteq T,
         \A i \in bare : Entry(read[i].key, NoType) \in T
  PROVE  WithoutHandles(read, bare) \in Seq(T)
<1>1. Len(read) \in Nat /\ DOMAIN read = 1 .. Len(read) /\ \A i \in 1 .. Len(read) : read[i] \in S
  BY LenProperties, ElementOfSeq
<1>2. WithoutHandles(read, bare) \in [1 .. Len(read) -> T]
  BY <1>1 DEF WithoutHandles
<1> QED
  BY <1>1, <1>2, SeqDef

LEMMA OnlyStoredStep ==
  ASSUME OnlyStored, [ShadersNext]_shaderVars
  PROVE  OnlyStored'
<1>1. CASE StoreEntry
  <2>1. PICK e : /\ entries' = <<e>> \o entries /\ stored' = stored \cup {e}
                 /\ file' = file /\ starved' = starved
    BY <1>1 DEF StoreEntry
  <2>2. Known \subseteq Known' /\ e \in Known'
    BY <2>1 DEF Known
  <2>3. <<e>> \in Seq(Known') /\ entries \in Seq(Known') /\ file' \in Seq(Known')
    BY <2>1, <2>2, SeqMonotonic DEF OnlyStored
  <2>4. entries' \in Seq(Known')
    BY <2>1, <2>3, ConcatProperties
  <2> QED
    BY <2>1, <2>3, <2>4 DEF OnlyStored
<1>2. CASE SaveEntries
  <2>1. PICK n \in 0 .. Len(entries) : file' = SubSeq(entries, 1, n)
    BY <1>2 DEF SaveEntries
  <2>2. UNCHANGED <<entries, stored, starved>>
    BY <1>2 DEF SaveEntries
  <2>3. SubSeq(entries, 1, n) \in Seq(Known)
    BY SubSeqProperties, LenProperties DEF OnlyStored
  <2> QED
    BY <2>1, <2>2, <2>3 DEF OnlyStored, Known
<1>3. CASE LoadEntries
  <2>1. PICK n \in 0 .. Len(Loaded) :
          \E bare \in SUBSET {i \in DOMAIN SubSeq(Loaded, Len(Loaded) - n + 1, Len(Loaded)) :
                     SubSeq(Loaded, Len(Loaded) - n + 1, Len(Loaded))[i].type # NoType} :
            /\ entries' = WithoutHandles(SubSeq(Loaded, Len(Loaded) - n + 1, Len(Loaded)), bare)
                           \o entries
            /\ starved' = starved \cup
                 {SubSeq(Loaded, Len(Loaded) - n + 1, Len(Loaded))[i].key : i \in bare}
    BY <1>3 DEF LoadEntries
  <2>2. file' = file /\ stored' = stored
    BY <1>3 DEF LoadEntries
  <2>3. Loaded \in Seq(Known) /\ Len(Loaded) \in Nat
    BY ReverseKeeps, LenProperties DEF Loaded, OnlyStored
  <2> DEFINE read == SubSeq(Loaded, Len(Loaded) - n + 1, Len(Loaded))
  <2>4. read \in Seq(Known)
    BY <2>3, SubSeqProperties
  <2>5. PICK bare \in SUBSET {i \in DOMAIN read : read[i].type # NoType} :
          /\ entries' = WithoutHandles(read, bare) \o entries
          /\ starved' = starved \cup {read[i].key : i \in bare}
    BY <2>1
  <2> HIDE DEF read
  <2>6. \A i \in bare : read[i] \in stored
    <3>1. \A k : Entry(k, NoType).type = NoType
      BY DEF Entry
    <3>2. \A i \in bare : read[i] \in Known
      BY <2>4, <2>5, ElementOfSeq, LenProperties
    <3> QED
      BY <2>5, <3>1, <3>2 DEF Known
  <2>7. Known \subseteq Known' /\ \A i \in bare : Entry(read[i].key, NoType) \in Known'
    BY <2>2, <2>5 DEF Known
  <2>8. WithoutHandles(read, bare) \in Seq(Known')
    BY <2>4, <2>5, <2>7, WithoutHandlesKnown
  <2>9. entries \in Seq(Known') /\ file' \in Seq(Known')
    BY <2>2, <2>7, SeqMonotonic DEF OnlyStored
  <2>10. entries' \in Seq(Known')
    BY <2>5, <2>8, <2>9, ConcatProperties
  <2>11. \A k \in starved' : \E e \in stored' : e.key = k /\ e.type # NoType
    BY <2>2, <2>5, <2>6 DEF OnlyStored
  <2> QED
    BY <2>9, <2>10, <2>11 DEF OnlyStored
<1>4. CASE Restart
  BY <1>4 DEF Restart, OnlyStored, Known
<1>5. CASE UNCHANGED shaderVars
  BY <1>5 DEF shaderVars, OnlyStored, Known
<1> QED
  BY <1>1, <1>2, <1>3, <1>4, <1>5 DEF ShadersNext

\* However often the file was cut short, written over and loaded again, it
\* brings back no shader that was not stored under its key, unless a load ran out
\* of memory for the handle of the shader that was: then it is one without a type.
THEOREM CacheReturnsWhatWasStored == ShadersSpec => []RetrievedWasStored
<1>1. ShadersInit => OnlyStored
  BY DEF ShadersInit, OnlyStored
<1>2. OnlyStored => RetrievedWasStored
  <2> SUFFICES ASSUME OnlyStored, NEW i \in DOMAIN entries
               PROVE  \/ entries[i] \in stored
                      \/ entries[i].type = NoType /\ entries[i].key \in starved
    BY DEF OnlyStored, RetrievedWasStored
  <2>1. entries[i] \in Known
    BY LenProperties, ElementOfSeq DEF OnlyStored
  <2> QED
    BY <2>1 DEF Known, Entry
<1> QED
  BY <1>1, <1>2, OnlyStoredStep, PTL DEF ShadersSpec

-----------------------------------------------------------------------------
(***************************************************************************)
(* Watch.  The threads of any number of watches outlive neither their      *)
(* watch nor its pipe, whichever callbacks unwatch which other watches: a  *)
(* watch is freed by the one thread that unwatches it, after its thread    *)
(* has exited.                                                             *)
(***************************************************************************)

\* A thread there is has a live watch until somebody who unwatches it has
\* joined it, and who unwatches is the only one.
WatchInv ==
  /\ block \in [Watches -> {"none", "live", "freed"}]
  /\ wpc \in [Watches -> {"none", "loop", "select", "events", "callback", "exited"}]
  /\ wanted \in [Watches -> BOOLEAN]
  /\ waiting \in [Callers -> Callers]
  /\ \A w \in Watches : block[w] = "none" <=> wpc[w] = "none"
  /\ \A w \in Watches : block[w] = "freed" => wpc[w] = "exited"
  /\ \A c \in Callers : waiting[c] # c => waiting[c] \in Watches

LEMMA WatchInvInit == WatchInit => WatchInv
  BY WatchesAssumption DEF WatchInit, WatchInv, Callers

LEMMA WatchInvNext == WatchInv /\ [WatchNext]_watchVars => WatchInv'
<1> SUFFICES ASSUME WatchInv, [WatchNext]_watchVars PROVE WatchInv'
  OBVIOUS
<1> USE WatchesAssumption DEF WatchInv, Callers
<1>1. ASSUME NEW w \in Watches, WatchPath(w) PROVE WatchInv'
  BY <1>1 DEF WatchPath
<1>2. ASSUME NEW w \in Watches, Change(w) PROVE WatchInv'
  BY <1>2 DEF Change
<1>3. ASSUME NEW c \in Callers, NEW w \in Watches, UnwatchBegin(c, w) PROVE WatchInv'
  BY <1>3 DEF UnwatchBegin, MayUnwatch
<1>4. ASSUME NEW c \in Callers, UnwatchSignal(c) PROVE WatchInv'
  BY <1>4 DEF UnwatchSignal
<1>5. ASSUME NEW c \in Callers, UnwatchEnd(c) PROVE WatchInv'
  <2>1. waiting[c] \in Watches /\ wpc[waiting[c]] = "exited"
    BY <1>5 DEF UnwatchEnd, Joined
  <2> QED
    BY <1>5, <2>1 DEF UnwatchEnd
<1>6. ASSUME NEW w \in Watches, WatchThread(w) PROVE WatchInv'
  <2>1. CASE WhileWanted(w)
    BY <2>1 DEF WhileWanted, WatchGoto
  <2>2. CASE SelectReturns(w)
    BY <2>2 DEF SelectReturns, WatchGoto
  <2>3. CASE NextEvent(w)
    BY <2>3 DEF NextEvent, WatchGoto
  <2>4. CASE WatchCallbackReturns(w)
    BY <2>4 DEF WatchCallbackReturns, WatchGoto
  <2> QED
    BY <1>6, <2>1, <2>2, <2>3, <2>4 DEF WatchThread
<1>7. CASE UNCHANGED watchVars
  BY <1>7 DEF watchVars
<1> QED
  BY <1>1, <1>2, <1>3, <1>4, <1>5, <1>6, <1>7 DEF WatchNext

(* No thread of a watch reads the watch or its pipe after cmp_vfs_unwatch    *)
(* has freed them.                                                           *)
THEOREM WatchesOutliveThreads == WatchSpec => []WatchOutlivesThread
<1>1. WatchInv => WatchOutlivesThread
  BY DEF WatchInv, WatchOutlivesThread
<1> QED
  BY <1>1, WatchInvInit, WatchInvNext, PTL DEF WatchSpec

-----------------------------------------------------------------------------
(***************************************************************************)
(* Objects.  A class that is tidy, however many calls and fields it has,   *)
(* frees no block twice and uses none that is gone, whichever allocations  *)
(* fail and in whatever order its calls are made.                          *)
(***************************************************************************)

ObjectTypes ==
  /\ class \in DOMAIN Classes
  /\ call \in DOMAIN Classes[class] \cup {"none"}
  /\ pc \in Nat /\ (call # "none" => pc >= 1)
  /\ field \in [Fields(class) -> {"null", "block", "freed"}]

\* Nothing from statement i of the call on mentions f, which ends with the call.
EndsUnmentioned(f, i) ==
  /\ call = "destroy" \/ f \in Locals
  /\ \A j \in i .. Len(Program) : ~Mentions(Program[j], f)

\* The statement that comes next gives f another block.
IsReplaced(f) ==
  Running /\ Here.op \in {"move", "take", "keep"} /\ Here.on = f /\ f \notin Here.with

\* Nothing was freed twice, and what points to a block that is gone is replaced
\* at once or left alone for as long as it is there.
TidySoFar ==
  /\ \A k \in DOMAIN Classes[class] : <<"freed twice", k>> \notin faults
  /\ \A f \in Fields(class) :
       field[f] = "freed" => call # "none" /\ (IsReplaced(f) \/ EndsUnmentioned(f, pc))

ObjectInv == ObjectTypes /\ (Tidy(Classes[class]) => TidySoFar)

LEMMA ObjectInit == Init => ObjectInv
<1> SUFFICES ASSUME Init PROVE ObjectInv
  OBVIOUS
<1>1. "create" \in DOMAIN Classes[class]
  BY ClassesAssumption DEF Init
<1>2. ObjectTypes
  BY <1>1 DEF Init, ObjectTypes
<1>3. TidySoFar
  BY DEF Init, TidySoFar
<1> QED
  BY <1>2, <1>3 DEF ObjectInv

\* What a statement of a call mentions is a field of the class.
LEMMA MentionedIsField ==
  ASSUME NEW c, NEW k \in DOMAIN Classes[c], NEW i \in 1 .. Len(Classes[c][k]),
         NEW f, Mentions(Classes[c][k][i], f), f # ""
  PROVE  f \in Fields(c)
<1> DEFINE Of(l, j) == {Classes[c][l][j].on} \cup Classes[c][l][j].with
           In(l) == UNION {Of(l, j) : j \in 1 .. Len(Classes[c][l])}
<1>1. f \in Of(k, i)
  BY DEF Mentions
<1>2. f \in In(k)
  <2> HIDE DEF Of
  <2> QED
    BY <1>1
<1>3. Fields(c) = {x \in UNION {In(l) : l \in DOMAIN Classes[c]} : x # ""}
  BY DEF Fields
<1> HIDE DEF Of, In
<1>4. f \in UNION {In(l) : l \in DOMAIN Classes[c]}
  BY <1>2
<1> QED
  BY <1>3, <1>4

\* What is known of the statement that comes next.
LEMMA HereIsStatement ==
  ASSUME ObjectTypes, Running
  PROVE  /\ call \in DOMAIN Classes[class] /\ Program \in Seq(StatementSet)
         /\ pc \in 1 .. Len(Program) /\ Len(Program) \in Nat
         /\ Here \in StatementSet
         /\ Here.on \in Fields(class) \/ Here.op \in {"maybe", "fails"}
         /\ Here.with \subseteq Fields(class)
<1>1. call \in DOMAIN Classes[class] /\ call # "none" /\ pc \in Nat /\ pc >= 1 /\ pc <= Len(Program)
  BY DEF ObjectTypes, Running
<1>2. Program \in Seq(StatementSet)
  BY <1>1, ClassesAssumption DEF ObjectTypes, Program
<1>3. Len(Program) \in Nat /\ pc \in 1 .. Len(Program)
  BY <1>1, <1>2, LenProperties
<1>4. Here \in StatementSet
  BY <1>2, <1>3, ElementOfSeq DEF Here
<1>5. ASSUME NEW f, Mentions(Here, f), f # ""
      PROVE  f \in Fields(class)
  <2>1. pc \in 1 .. Len(Classes[class][call]) /\ Here = Classes[class][call][pc]
    BY <1>3 DEF Program, Here
  <2> QED
    BY <1>1, <1>5, <2>1, MentionedIsField
<1>6. /\ Here.op \in {"maybe", "fails"} \/ Here.on # ""
      /\ Here.with \subseteq STRING \ {""}
  BY <1>4 DEF StatementSet
<1> QED
  BY <1>1, <1>2, <1>3, <1>4, <1>5, <1>6 DEF Mentions

\* The next statement replaces what is gone or does not mention it.
LEMMA GoneIsLeftAlone ==
  ASSUME ObjectTypes, TidySoFar, Running, NEW f \in Fields(class), field[f] = "freed"
  PROVE  \/ IsReplaced(f)
         \/ ~Mentions(Here, f) /\ EndsUnmentioned(f, pc + 1)
<1>1. CASE EndsUnmentioned(f, pc)
  <2>1. pc \in pc .. Len(Program) /\ \A j \in pc + 1 .. Len(Program) : j \in pc .. Len(Program)
    BY HereIsStatement
  <2> QED
    BY <1>1, <2>1 DEF EndsUnmentioned, Here
<1> QED
  BY <1>1 DEF TidySoFar

\* A statement that is not the last thing of the call: what it leaves alone stays
\* left alone.
LEMMA PastKeeps ==
  ASSUME ObjectTypes, Running, NEW n \in Nat, Past(n), NEW f, EndsUnmentioned(f, pc + 1)
  PROVE  EndsUnmentioned(f, pc)'
<1>1. Program' = Program /\ call' = call /\ pc' = pc + 1 + n /\ pc \in Nat
  BY DEF Past, Program, ObjectTypes
<1>2. Len(Program) \in Nat
  BY HereIsStatement
<1>3. \A j \in pc' .. Len(Program) : j \in pc + 1 .. Len(Program)
  BY <1>1, <1>2
<1> QED
  BY <1>1, <1>3 DEF EndsUnmentioned

LEMMA PastIsLater == \A a, b \in Nat : a + 1 + b \in Nat /\ a + 1 + b >= 1
OBVIOUS

\* A step inside a call keeps the invariant if it frees nothing a second time, and
\* what is gone after it is either what it has just freed or was gone before and
\* is not replaced by it.
LEMMA InsideCall ==
  ASSUME ObjectInv, Running, NEW n \in Nat, Past(n),
         field' \in [Fields(class) -> {"null", "block", "freed"}],
         Tidy(Classes[class]) /\ TidySoFar =>
           /\ \A k \in DOMAIN Classes[class] : <<"freed twice", k>> \notin faults'
           /\ \A f \in Fields(class) : field'[f] = "freed" =>
                \/ field[f] = "freed" /\ ~IsReplaced(f)
                \/ (IsReplaced(f) \/ EndsUnmentioned(f, pc))'
  PROVE  ObjectInv'
<1>1. class' = class /\ call' = call /\ pc' = pc + 1 + n /\ call # "none"
  BY DEF Past, Running
<1>2. ObjectTypes'
  <2>1. Fields(class)' = Fields(class)
    BY <1>1
  <2>2. class' \in DOMAIN Classes /\ call' \in DOMAIN Classes[class'] \cup {"none"}
    BY <1>1 DEF ObjectInv, ObjectTypes
  <2>3. pc \in Nat
    BY DEF ObjectInv, ObjectTypes
  <2>4. pc' \in Nat /\ pc' >= 1
    BY <1>1, <2>3, PastIsLater
  <2>5. field' \in [Fields(class)' -> {"null", "block", "freed"}]
    BY <2>1
  <2> QED
    BY <2>2, <2>4, <2>5 DEF ObjectTypes
<1>3. ASSUME Tidy(Classes[class])
      PROVE  TidySoFar'
  <2>1. TidySoFar
    BY <1>3 DEF ObjectInv
  <2>2. Fields(class)' = Fields(class)
    BY <1>1
  <2>3. ASSUME NEW f \in Fields(class), field'[f] = "freed"
        PROVE  (IsReplaced(f) \/ EndsUnmentioned(f, pc))'
    <3>1. CASE field[f] = "freed" /\ ~IsReplaced(f)
      <4>1. EndsUnmentioned(f, pc + 1)
        BY <2>1, <3>1, GoneIsLeftAlone DEF ObjectInv
      <4> QED
        BY <4>1, PastKeeps DEF ObjectInv
    <3> QED
      BY <1>3, <2>1, <2>3, <3>1
  <2> QED
    BY <1>1, <1>3, <2>1, <2>2, <2>3 DEF TidySoFar
<1> QED
  BY <1>1, <1>2, <1>3 DEF ObjectInv

LEMMA SucceedKeeps == ObjectInv /\ Succeed => ObjectInv'
<1> SUFFICES ASSUME ObjectInv, Succeed PROVE ObjectInv'
  OBVIOUS
<1> USE DEF ObjectInv
<1>1. Running /\ Past(0) /\ Here.on \in Fields(class)
  BY HereIsStatement DEF Succeed, At
<1>2. /\ field' = [field EXCEPT ![Here.on] = "block"]
      /\ faults' = faults \/ faults' = faults \cup {<<"leaked", call>>}
  BY DEF Succeed, Overwrites, Blame
<1>3. field' \in [Fields(class) -> {"null", "block", "freed"}]
  BY <1>1, <1>2 DEF ObjectTypes
<1>4. ASSUME TidySoFar
      PROVE  \A k \in DOMAIN Classes[class] : <<"freed twice", k>> \notin faults'
  <2> SUFFICES ASSUME NEW k \in DOMAIN Classes[class]
               PROVE  <<"freed twice", k>> \notin faults'
    OBVIOUS
  <2>1. <<"freed twice", k>> \notin faults /\ <<"freed twice", k>> # <<"leaked", call>>
    BY <1>4 DEF TidySoFar
  <2> QED
    BY <1>2, <2>1
<1>5. \A f \in Fields(class) : field'[f] = "freed" => field[f] = "freed" /\ ~IsReplaced(f)
  BY <1>1, <1>2 DEF ObjectTypes, IsReplaced
<1> QED
  BY <1>1, <1>3, <1>4, <1>5, InsideCall

LEMMA KeepBlockKeeps == ObjectInv /\ KeepBlock => ObjectInv'
<1> SUFFICES ASSUME ObjectInv, KeepBlock PROVE ObjectInv'
  OBVIOUS
<1> USE DEF ObjectInv
<1>1. Running /\ Past(0) /\ Here.on \in Fields(class)
  BY HereIsStatement DEF KeepBlock, At
<1>2. field' = [field EXCEPT ![Here.on] = "block"] /\ faults' = faults
  BY DEF KeepBlock
<1>3. field' \in [Fields(class) -> {"null", "block", "freed"}]
  BY <1>1, <1>2 DEF ObjectTypes
<1>4. ASSUME TidySoFar
      PROVE  \A k \in DOMAIN Classes[class] : <<"freed twice", k>> \notin faults'
  <2> SUFFICES ASSUME NEW k \in DOMAIN Classes[class]
               PROVE  <<"freed twice", k>> \notin faults'
    OBVIOUS
  <2>1. <<"freed twice", k>> \notin faults /\ <<"freed twice", k>> # <<"leaked", call>>
    BY <1>4 DEF TidySoFar
  <2> QED
    BY <1>2, <2>1
<1>5. \A f \in Fields(class) : field'[f] = "freed" => field[f] = "freed" /\ ~IsReplaced(f)
  BY <1>1, <1>2 DEF ObjectTypes, IsReplaced
<1> QED
  BY <1>1, <1>3, <1>4, <1>5, InsideCall

\* What passes over statements, goes on to the next, or uses a field.
LEMMA QuietKeeps == ObjectInv /\ (PassOver \/ GoOn \/ UseField) => ObjectInv'
<1> SUFFICES ASSUME ObjectInv, PassOver \/ GoOn \/ UseField PROVE ObjectInv'
  OBVIOUS
<1> USE DEF ObjectInv
<1>1. Running /\ field' = field /\ Here \in StatementSet
  BY HereIsStatement DEF PassOver, GoOn, UseField, At
<1>2. PICK n \in Nat : Past(n)
  <2>1. Here.governs \in Nat
    BY <1>1 DEF StatementSet
  <2> QED
    BY <2>1 DEF PassOver, GoOn, UseField
<1>3. Here.op \notin {"move", "take", "keep"} /\ (faults' = faults \/ faults' = Blame("misused"))
  BY DEF PassOver, GoOn, UseField, At
<1>4. ASSUME TidySoFar
      PROVE  \A k \in DOMAIN Classes[class] : <<"freed twice", k>> \notin faults'
  <2> SUFFICES ASSUME NEW k \in DOMAIN Classes[class]
               PROVE  <<"freed twice", k>> \notin faults'
    OBVIOUS
  <2>1. <<"freed twice", k>> \notin faults /\ <<"freed twice", k>> # <<"misused", call>>
    BY <1>4 DEF TidySoFar
  <2> QED
    BY <1>3, <2>1 DEF Blame
<1>5. \A f \in Fields(class) : field'[f] = "freed" => field[f] = "freed" /\ ~IsReplaced(f)
  BY <1>1, <1>3 DEF IsReplaced
<1>6. field' \in [Fields(class) -> {"null", "block", "freed"}]
  BY <1>1 DEF ObjectTypes
<1> QED
  BY <1>1, <1>2, <1>4, <1>5, <1>6, InsideCall

LEMMA FreeFieldKeeps == ObjectInv /\ FreeField => ObjectInv'
<1> SUFFICES ASSUME ObjectInv, FreeField PROVE ObjectInv'
  OBVIOUS
<1> USE DEF ObjectInv
<1>1. /\ Running /\ Past(0) /\ Here.on \in Fields(class) /\ pc \in 1 .. Len(Program)
      /\ Here.op \in {"free", "drop"} /\ call \in DOMAIN Classes[class] /\ Len(Program) \in Nat
  BY HereIsStatement DEF FreeField, At
<1>2. /\ field' \in [Fields(class) -> {"null", "block", "freed"}]
      /\ \A f \in Fields(class) \ {Here.on} : field'[f] = field[f]
      /\ Here.op = "drop" => field'[Here.on] = "null"
  BY <1>1 DEF FreeField, Freed, ObjectTypes, At
<1>3. ASSUME Tidy(Classes[class]), TidySoFar
      PROVE  /\ \A k \in DOMAIN Classes[class] : <<"freed twice", k>> \notin faults'
             /\ \A f \in Fields(class) : field'[f] = "freed" =>
                  \/ field[f] = "freed" /\ ~IsReplaced(f)
                  \/ (IsReplaced(f) \/ EndsUnmentioned(f, pc))'
  <2>1. field[Here.on] # "freed"
    BY <1>1, <1>3, GoneIsLeftAlone DEF IsReplaced, Mentions
  <2>2. faults' = faults
    BY <2>1 DEF FreeField, FreeFault
  <2> PICK f : f = Here.on
    OBVIOUS
  <2>3. ASSUME Here.op = "free"
        PROVE  (IsReplaced(f) \/ EndsUnmentioned(f, pc))'
    <3>1. \/ ReplacedAtOnce(Program, pc)
          \/ (call = "destroy" \/ f \in Locals) /\ ForgottenAfter(Program, pc)
      BY <1>1, <1>3, <2>3 DEF Tidy, Program, Here
    <3>2. CASE ReplacedAtOnce(Program, pc)
      <4>1. Program' = Program /\ call' = call /\ pc' = pc + 1 /\ call # "none" /\ pc \in Nat
        BY <1>1 DEF Past, Program, Running
      <4>2. /\ pc' <= Len(Program) /\ Program[pc'].op \in {"move", "take", "keep"}
            /\ Program[pc'].on = f /\ f \notin Program[pc'].with
        BY <1>1, <3>2, <4>1 DEF ReplacedAtOnce, Here
      <4> QED
        BY <4>1, <4>2 DEF IsReplaced, Running, Here
    <3>3. CASE (call = "destroy" \/ f \in Locals) /\ ForgottenAfter(Program, pc)
      <4>1. EndsUnmentioned(f, pc + 1)
        BY <3>3 DEF ForgottenAfter, EndsUnmentioned, Here
      <4>2. EndsUnmentioned(f, pc)'
        BY <1>1, <4>1, PastKeeps
      <4> QED
        BY <4>2
    <3> QED
      BY <3>1, <3>2, <3>3
  <2>4. \A g \in Fields(class) : ~IsReplaced(g)
    BY <1>1 DEF IsReplaced
  <2>5. \A k \in DOMAIN Classes[class] : <<"freed twice", k>> \notin faults'
    BY <1>3, <2>2 DEF TidySoFar
  <2>6. ASSUME NEW g \in Fields(class), field'[g] = "freed"
        PROVE  \/ field[g] = "freed" /\ ~IsReplaced(g)
               \/ (IsReplaced(g) \/ EndsUnmentioned(g, pc))'
    BY <1>1, <1>2, <2>3, <2>4, <2>6
  <2> QED
    BY <2>5, <2>6
<1> QED
  BY <1>1, <1>2, <1>3, InsideCall

\* g is forgotten and f has what g pointed to, which is not gone.
LEMMA MoveFieldKeeps == ObjectInv /\ MoveField => ObjectInv'
<1> SUFFICES ASSUME ObjectInv, MoveField PROVE ObjectInv'
  OBVIOUS
<1> USE DEF ObjectInv
<1>1. /\ Running /\ Past(0) /\ Here.on \in Fields(class) /\ Here.with \subseteq Fields(class)
      /\ Here.op \in {"move", "add"}
  BY HereIsStatement DEF MoveField, At
<1>2. PICK g \in Here.with :
        field' = [field EXCEPT ![Here.on] = IF At({"add"}) /\ @ = "block" THEN @ ELSE field[g],
                               ![g] = "null"]
  BY DEF MoveField
<1>3. faults' = faults \/ faults' = faults \cup {<<"leaked", call>>}
  BY DEF MoveField, Overwrites, Blame
<1>4. field' \in [Fields(class) -> {"null", "block", "freed"}]
  BY <1>1, <1>2 DEF ObjectTypes
<1>5. ASSUME TidySoFar
      PROVE  \A k \in DOMAIN Classes[class] : <<"freed twice", k>> \notin faults'
  <2> SUFFICES ASSUME NEW k \in DOMAIN Classes[class]
               PROVE  <<"freed twice", k>> \notin faults'
    OBVIOUS
  <2>1. <<"freed twice", k>> \notin faults /\ <<"freed twice", k>> # <<"leaked", call>>
    BY <1>5 DEF TidySoFar
  <2> QED
    BY <1>3, <2>1
<1>6. ASSUME TidySoFar, NEW f \in Fields(class), field'[f] = "freed"
      PROVE  field[f] = "freed" /\ ~IsReplaced(f)
  <2>1. field[g] # "freed"
    <3> SUFFICES ASSUME field[g] = "freed" PROVE FALSE
      OBVIOUS
    <3>1. g \in Fields(class)
      BY <1>1
    <3> QED
      BY <1>1, <1>6, <3>1, GoneIsLeftAlone DEF IsReplaced, Mentions
  <2>2. f # g /\ (f = Here.on => At({"add"}) /\ field[f] = "block")
    BY <1>1, <1>2, <1>6, <2>1 DEF ObjectTypes
  <2> QED
    BY <1>1, <1>2, <1>6, <2>2 DEF ObjectTypes, IsReplaced
<1> QED
  BY <1>1, <1>4, <1>5, <1>6, InsideCall

\* The call ends: what is gone ends with it.
LEMMA ReturnsKeeps ==
  ASSUME ObjectInv, call # "none", NEW fs, NEW ok \in BOOLEAN, NEW wrong,
         Returns(fs, ok, wrong),
         fs \in [Fields(class) -> {"null", "block", "freed"}],
         Tidy(Classes[class]) /\ TidySoFar =>
           /\ \A k \in DOMAIN Classes[class] : <<"freed twice", k>> \notin wrong
           /\ \A f \in Fields(class) : fs[f] = "freed" =>
                call = "destroy" \/ (call = "create" /\ ~ok) \/ f \in Locals
  PROVE  ObjectInv'
<1>1. class' = class /\ call' = "none" /\ pc' = 0
  BY DEF Returns
<1>2. Fields(class)' = Fields(class) /\ Tidy(Classes[class])' = Tidy(Classes[class])
  BY <1>1
<1>3. field' = [f \in Fields(class) |->
        IF f \in Locals \/ call = "destroy" \/ (call = "create" /\ ~ok) THEN "null" ELSE fs[f]]
  BY DEF Returns
<1>4. faults' = wrong \/ faults' = wrong \cup {<<"leaked", call>>}
  BY DEF Returns
<1>5. field' \in [Fields(class) -> {"null", "block", "freed"}]
  BY <1>3
<1>6. ObjectTypes'
  BY <1>1, <1>2, <1>5 DEF ObjectInv, ObjectTypes
<1>7. ASSUME Tidy(Classes[class])
      PROVE  TidySoFar'
  <2>1. \A f \in Fields(class) : field'[f] # "freed"
    BY <1>3, <1>5, <1>7 DEF ObjectInv
  <2>2. ASSUME NEW k \in DOMAIN Classes[class]
        PROVE  <<"freed twice", k>> \notin faults'
    <3>1. <<"freed twice", k>> \notin wrong /\ <<"freed twice", k>> # <<"leaked", call>>
      BY <1>7, <2>2 DEF ObjectInv
    <3> QED
      BY <1>4, <3>1
  <2> QED
    BY <1>1, <1>2, <2>1, <2>2 DEF TidySoFar
<1> QED
  BY <1>2, <1>6, <1>7 DEF ObjectInv

LEMMA FailKeeps == ObjectInv /\ Fail => ObjectInv'
<1> SUFFICES ASSUME ObjectInv, Fail PROVE ObjectInv'
  OBVIOUS
<1> USE DEF ObjectInv
<1>1. /\ Running /\ Here.with \subseteq Fields(class) /\ pc \in 1 .. Len(Program)
      /\ Here.op \in {"new", "fails"} /\ call \in DOMAIN Classes[class] /\ call # "none"
      /\ Returns(Freed(Here.with), FALSE, FreeFault(Here.with))
  BY HereIsStatement DEF Fail, At, Running
<1>2. /\ Freed(Here.with) \in [Fields(class) -> {"null", "block", "freed"}]
      /\ \A f \in Fields(class) \ Here.with : Freed(Here.with)[f] = field[f]
  BY DEF Freed, ObjectTypes
<1>3. ASSUME Tidy(Classes[class]), TidySoFar
      PROVE  /\ \A k \in DOMAIN Classes[class] : <<"freed twice", k>> \notin FreeFault(Here.with)
             /\ \A f \in Fields(class) : Freed(Here.with)[f] = "freed" =>
                  call = "destroy" \/ (call = "create" /\ ~FALSE) \/ f \in Locals
  <2>1. \A f \in Fields(class) : field[f] = "freed" =>
          f \notin Here.with /\ (call = "destroy" \/ f \in Locals)
    BY <1>1, <1>3, GoneIsLeftAlone DEF IsReplaced, Mentions, EndsUnmentioned
  <2>2. FreeFault(Here.with) = faults
    BY <1>1, <2>1 DEF FreeFault
  <2>3. call \in {"create", "destroy"} \/ Here.with \subseteq Locals
    BY <1>1, <1>3 DEF Tidy, Program, Here
  <2>4. \A k \in DOMAIN Classes[class] : <<"freed twice", k>> \notin FreeFault(Here.with)
    BY <1>3, <2>2 DEF TidySoFar
  <2>5. ASSUME NEW f \in Fields(class), Freed(Here.with)[f] = "freed"
        PROVE  call = "destroy" \/ (call = "create" /\ ~FALSE) \/ f \in Locals
    BY <1>2, <2>1, <2>3, <2>5
  <2> QED
    BY <2>4, <2>5
<1> QED
  BY <1>1, <1>2, <1>3, ReturnsKeeps

LEMMA ReturnKeeps == ObjectInv /\ Return => ObjectInv'
<1> SUFFICES ASSUME ObjectInv, Return PROVE ObjectInv'
  OBVIOUS
<1> USE DEF ObjectInv
<1>1. call # "none" /\ ~Running /\ Returns(field, TRUE, faults)
  BY DEF Return
<1>2. \A f \in Fields(class) : ~IsReplaced(f)
  BY <1>1 DEF IsReplaced
<1>3. ASSUME TidySoFar
      PROVE  /\ \A k \in DOMAIN Classes[class] : <<"freed twice", k>> \notin faults
             /\ \A f \in Fields(class) : field[f] = "freed" =>
                  call = "destroy" \/ (call = "create" /\ ~TRUE) \/ f \in Locals
  BY <1>2, <1>3 DEF TidySoFar, EndsUnmentioned
<1>4. field \in [Fields(class) -> {"null", "block", "freed"}]
  BY DEF ObjectTypes
<1> QED
  BY <1>1, <1>3, <1>4, ReturnsKeeps

LEMMA CallNextKeeps == ObjectInv /\ CallNext => ObjectInv'
<1> SUFFICES ASSUME ObjectInv, CallNext PROVE ObjectInv'
  OBVIOUS
<1>1. /\ class' = class /\ field' = field /\ faults' = faults /\ pc' = 1
      /\ call = "none" /\ call' \in DOMAIN Classes[class]
  BY DEF CallNext
<1>2. Fields(class)' = Fields(class) /\ Tidy(Classes[class])' = Tidy(Classes[class])
  BY <1>1
<1>3. ObjectTypes'
  BY <1>1, <1>2 DEF ObjectInv, ObjectTypes
<1>4. TidySoFar => TidySoFar'
  BY <1>1, <1>2 DEF TidySoFar
<1> QED
  BY <1>2, <1>3, <1>4 DEF ObjectInv

LEMMA ObjectStep == ObjectInv /\ [Next]_vars => ObjectInv'
<1> SUFFICES ASSUME ObjectInv, [Next]_vars PROVE ObjectInv'
  OBVIOUS
<1>1. CASE UNCHANGED vars
  <2>1. /\ class' = class /\ call' = call /\ pc' = pc /\ field' = field /\ faults' = faults
    BY <1>1 DEF vars
  <2>2. Fields(class)' = Fields(class) /\ Tidy(Classes[class])' = Tidy(Classes[class])
    BY <2>1
  <2>3. ObjectTypes'
    BY <2>1, <2>2 DEF ObjectInv, ObjectTypes
  <2>4. Program' = Program
    BY <2>1 DEF Program
  <2>5. TidySoFar => TidySoFar'
    BY <2>1, <2>2, <2>4 DEF TidySoFar, IsReplaced, EndsUnmentioned, Running, Here
  <2> QED
    BY <2>2, <2>3, <2>5 DEF ObjectInv
<1> QED
  BY <1>1, SucceedKeeps, FailKeeps, QuietKeeps, FreeFieldKeeps, MoveFieldKeeps,
     KeepBlockKeeps, ReturnKeeps, CallNextKeeps DEF Next

LEMMA ObjectsKeepInv == Spec => []ObjectInv
BY ObjectInit, ObjectStep, PTL DEF Spec

\* An object of a tidy class never frees a block a second time, by a destroy that
\* follows a setter which failed half-way least of all, whatever the class does
\* besides; all classes of the tables but those with a known fault are tidy.
THEOREM TidyClassesFreeOnce == Spec => [](Tidy(Classes[class]) => FreedOnce)
<1>1. ObjectInv => (Tidy(Classes[class]) => FreedOnce)
  BY DEF ObjectInv, TidySoFar, FreedOnce, Unexpected
<1> QED
  BY <1>1, ObjectsKeepInv, PTL

\* Nor does one of its calls follow a pointer whose block is gone.
THEOREM TidyClassesUseNothingFreed ==
  Spec => [](Tidy(Classes[class]) => UsesNothingFreed)
<1>1. ObjectInv => (Tidy(Classes[class]) => UsesNothingFreed)
  <2> SUFFICES ASSUME ObjectInv, Tidy(Classes[class]), At({"use"}), field[Here.on] = "freed"
               PROVE  FALSE
    BY DEF UsesNothingFreed
  <2>1. Running /\ Here.op = "use" /\ Here.on \in Fields(class)
    BY HereIsStatement DEF At, ObjectInv
  <2> QED
    BY <2>1, GoneIsLeftAlone DEF ObjectInv, IsReplaced, Mentions
<1> QED
  BY <1>1, ObjectsKeepInv, PTL
====
