----------------------------- MODULE SlabProofs -----------------------------
(* Theorems about the slab allocator, for pools and chunks of every size.    *)
EXTENDS Slab, SequenceTheorems, TLAPS

Block == [page : Nat, off : Nat, size : Nat]

\* Types, of the calls' arguments too
TypeOK ==
    /\ type \in [Pages -> Nat]
    /\ slab \in [Pages -> Nat]
    /\ busy \in [Pages -> SUBSET Nat]
    /\ prev \in [Pages -> Nat]
    /\ free \in Seq(Pages)
    /\ list \in [Slots -> Seq(Pages)]
    /\ held \in [Clients -> Block]
    /\ refused \in Requests \cup {0}
    /\ alert \in BOOLEAN

NoDup(l) == \A i, j \in DOMAIN l : l[i] = l[j] => i = j

\* The first pages of the free runs
Firsts == ToSet(free)

\* A page that is not free: cut into chunks, or of a block
Taken(q) == type[q] # PAGE \/ slab[q] >= START

\* The runs on the free list lie in the pool, hold the free pages and only
\* them, and never touch; the last page of a long one, unless it ends the pool,
\* points to the first.
RunInv ==
    /\ NoDup(free)
    /\ \A h \in Firsts :
          /\ type[h] = PAGE /\ slab[h] \in 1..N /\ h + slab[h] <= N + 1
          /\ \A q \in (h + 1)..(h + slab[h] - 1) : type[q] = PAGE /\ slab[q] = FREE
          /\ slab[h] > 1 /\ h + slab[h] <= N => prev[h + slab[h] - 1] = h
          /\ h + slab[h] \notin Firsts
    /\ \A q \in Pages : ~Taken(q) => \E h \in Firsts : q \in h..(h + slab[h] - 1)

FirstOfBlock(p) == type[p] = PAGE /\ slab[p] >= START /\ slab[p] # BUSY
Length(p) == slab[p] - START

\* A block's first page counts its pages, the others are marked as its own.
BlockInv ==
    /\ \A p \in Pages : FirstOfBlock(p) =>
          /\ Length(p) \in 1..N /\ p + Length(p) <= N + 1
          /\ \A q \in (p + 1)..(p + Length(p) - 1) : type[q] = PAGE /\ slab[q] = BUSY
    /\ \A q \in Pages : type[q] = PAGE /\ slab[q] = BUSY =>
          \E p \in Pages : FirstOfBlock(p) /\ q \in p..(p + Length(p) - 1)

\* A page that is cut has its bitmap's chunks marked, another one in use, and is
\* on its slot's list unless all are.
SlotInv ==
    /\ \A p \in Pages : type[p] # PAGE =>
          /\ type[p] \in Slots
          /\ busy[p] \subseteq 0..(Chunks(type[p]) - 1)
          /\ 0..(Reserved(type[p]) - 1) \subseteq busy[p]
          /\ ~IsUnused(busy[p], type[p])
          /\ p \in ToSet(list[type[p]]) <=> ~IsFull(busy[p], type[p])
    /\ \A s \in Slots :
          /\ NoDup(list[s])
          /\ \A p \in ToSet(list[s]) : type[p] = s

HoldsRun(c) ==
    LET b == held[c] IN
    /\ b.size > MaxSize /\ b.off = 0
    /\ FirstOfBlock(b.page) /\ Length(b.page) = PagesFor(b.size)

HoldsChunk(c) ==
    LET b == held[c] IN
    /\ b.size <= MaxSize
    /\ type[b.page] \in Slots /\ SlotFor(type[b.page], b.size)
    /\ \E n \in Reserved(type[b.page])..(Chunks(type[b.page]) - 1) :
          n \in busy[b.page] /\ b.off = n * type[b.page]

\* What is in use is what clients hold, each by one of them.
HeldInv ==
    /\ \A c \in Holders :
          /\ held[c].page \in Pages /\ held[c].size \in Requests
          /\ HoldsRun(c) \/ HoldsChunk(c)
    /\ \A c, d \in Holders :
          held[c].page = held[d].page /\ held[c].off = held[d].off => c = d
    /\ \A p \in Pages : FirstOfBlock(p) => \E c \in Holders : held[c].page = p
    /\ \A p \in Pages : type[p] # PAGE =>
          \A n \in busy[p] : n >= Reserved(type[p]) =>
             \E c \in Holders : held[c].page = p /\ held[c].off = n * type[p]

\* After a call that failed
RefusedInv ==
    refused # 0 =>
        /\ ~Available(IF refused > MaxSize THEN PagesFor(refused) ELSE 1)
        /\ refused <= MaxSize => \E s \in Slots : SlotFor(s, refused) /\ list[s] = <<>>

SlabInv == TypeOK /\ RunInv /\ BlockInv /\ SlotInv /\ HeldInv /\ RefusedInv /\ ~alert

-----------------------------------------------------------------------------
(* Arithmetic of chunks and pages *)

LEMMA ProductMonotone ==
    ASSUME NEW a \in Nat, NEW b \in Nat, NEW s \in Nat, a <= b
    PROVE  a * s \in Nat /\ a * s <= b * s
  BY SMTT(30)

LEMMA ProductOfNext ==
    ASSUME NEW a \in Nat, NEW s \in Nat
    PROVE  (a + 1) * s = a * s + s
  BY SMTT(30)

LEMMA DivisionOfProduct ==
    ASSUME NEW n \in Nat, NEW s \in Nat \ {0}
    PROVE  n * s \in Nat /\ (n * s) % s = 0 /\ (n * s) \div s = n
  BY SMTT(30)

LEMMA Division ==
    ASSUME NEW a \in Nat, NEW s \in Nat \ {0}
    PROVE  /\ a \div s \in Nat /\ a % s \in 0..(s - 1)
           /\ a = (a \div s) * s + (a % s)
  BY SMTT(30)

LEMMA PagesForBounds ==
    ASSUME NEW size \in Nat \ {0}
    PROVE  /\ PagesFor(size) \in Nat \ {0}
           /\ size <= PagesFor(size) * PageSize
           /\ (PagesFor(size) - 1) * PageSize < size
<1> DEFINE d == size \div PageSize
           m == size % PageSize
<1>1. PageSize \in Nat \ {0}
  BY SlabAssumption DEF SlabAssumption
<1>2. d \in Nat /\ m \in 0..(PageSize - 1) /\ size = d * PageSize + m
  BY <1>1, Division
<1>3. d * PageSize \in Nat
  BY <1>1, <1>2, ProductMonotone
<1>4. CASE m = 0
  <2>1. PagesFor(size) = d
    BY <1>2, <1>4 DEF PagesFor
  <2>2. d # 0
    BY <1>1, <1>2, <1>4, SMT
  <2>3. d - 1 \in Nat /\ d = (d - 1) + 1
    BY <1>2, <2>2
  <2>4. d * PageSize = (d - 1) * PageSize + PageSize
    BY <1>1, <2>3, ProductOfNext
  <2>5. (d - 1) * PageSize \in Nat
    BY <1>1, <2>3, ProductMonotone
  <2> HIDE DEF d, m
  <2> QED
    BY <1>1, <1>2, <1>3, <1>4, <2>1, <2>2, <2>4, <2>5
<1>5. CASE m # 0
  <2>1. PagesFor(size) = d + 1
    BY <1>2, <1>5 DEF PagesFor
  <2>2. (d + 1) * PageSize = d * PageSize + PageSize
    BY <1>1, <1>2, ProductOfNext
  <2> HIDE DEF d, m
  <2>3. (PagesFor(size) - 1) = d
    BY <1>2, <2>1
  <2> QED
    BY <1>1, <1>2, <1>3, <1>5, <2>1, <2>2, <2>3
<1> QED
  BY <1>4, <1>5

-----------------------------------------------------------------------------
(* Lists without repetitions *)

LEMMA InList ==
    ASSUME NEW S, NEW l \in Seq(S)
    PROVE  /\ DOMAIN l = 1..Len(l) /\ Len(l) \in Nat
           /\ ToSet(l) \subseteq S
           /\ \A i \in 1..Len(l) : l[i] \in ToSet(l)
           /\ \A p \in ToSet(l) : \E i \in 1..Len(l) : l[i] = p
  BY DEF ToSet

LEMMA RemovalFromList ==
    ASSUME NEW S, NEW l \in Seq(S), NoDup(l), NEW i \in DOMAIN l
    PROVE  /\ RemoveAt(l, i) \in Seq(S) /\ NoDup(RemoveAt(l, i))
           /\ ToSet(RemoveAt(l, i)) = ToSet(l) \ {l[i]}
<1> DEFINE r == RemoveAt(l, i)
           n == Len(l)
<1>1. n \in Nat /\ i \in 1..n /\ DOMAIN l = 1..n
  BY LenProperties
<1>2. /\ SubSeq(l, 1, i - 1) \in Seq(S) /\ Len(SubSeq(l, 1, i - 1)) = i - 1
      /\ \A k \in 1..(i - 1) : SubSeq(l, 1, i - 1)[k] = l[k]
  BY <1>1, SubSeqProperties
<1>3. /\ SubSeq(l, i + 1, n) \in Seq(S) /\ Len(SubSeq(l, i + 1, n)) = n - i
      /\ \A k \in 1..(n - i) : SubSeq(l, i + 1, n)[k] = l[k + i]
  BY <1>1, SubSeqProperties
<1>4. /\ r \in Seq(S) /\ Len(r) = n - 1 /\ DOMAIN r = 1..(n - 1)
      /\ \A k \in 1..(n - 1) : r[k] = IF k < i THEN l[k] ELSE l[k + 1]
  <2> DEFINE a == SubSeq(l, 1, i - 1)
             b == SubSeq(l, i + 1, n)
  <2>1. r = a \o b
    BY DEF RemoveAt
  <2>2. Len(a) = i - 1 /\ Len(b) = n - i /\ a \in Seq(S) /\ b \in Seq(S)
    BY <1>2, <1>3
  <2>3. /\ a \o b \in Seq(S) /\ Len(a \o b) = Len(a) + Len(b)
        /\ \A k \in 1..(Len(a) + Len(b)) :
              (a \o b)[k] = IF k <= Len(a) THEN a[k] ELSE b[k - Len(a)]
    BY <2>2, ConcatProperties
  <2>4. r \in Seq(S) /\ Len(r) = n - 1 /\ DOMAIN r = 1..(n - 1)
    <3>1. Len(a) + Len(b) = n - 1
      BY <1>1, <2>2
    <3>2. r \in Seq(S) /\ Len(r) = n - 1
      BY <2>1, <2>3, <3>1
    <3> QED
      BY <3>2, LenProperties
  <2>5. ASSUME NEW k \in 1..(n - 1)
        PROVE  r[k] = IF k < i THEN l[k] ELSE l[k + 1]
    <3>1. CASE k < i
      <4>1. k \in 1..(i - 1) /\ r[k] = a[k]
        BY <1>1, <2>1, <2>2, <2>3, <3>1
      <4> QED
        BY <1>2, <3>1, <4>1
    <3>2. CASE k >= i
      <4> HIDE DEF a, b, n
      <4>1. k - (i - 1) \in 1..(n - i) /\ r[k] = b[k - (i - 1)]
        BY <1>1, <2>1, <2>2, <2>3, <3>2
      <4> USE DEF b, n
      <4>2. b[k - (i - 1)] = l[k - (i - 1) + i]
        BY <1>3, <4>1
      <4>3. k - (i - 1) + i = k + 1
        BY <1>1
      <4> QED
        BY <1>1, <3>2, <4>1, <4>2, <4>3
    <3> QED
      BY <1>1, <3>1, <3>2
  <2> QED
    BY <2>4, <2>5
<1> HIDE DEF r, n
<1>5. NoDup(r)
  <2> SUFFICES ASSUME NEW a \in 1..(n - 1), NEW b \in 1..(n - 1), r[a] = r[b]
               PROVE  a = b
    BY <1>4 DEF NoDup
  <2>1. \A x, y \in 1..n : l[x] = l[y] => x = y
    BY <1>1 DEF NoDup
  <2>2. CASE a < i /\ b < i
    BY <1>1, <1>4, <2>1, <2>2
  <2>3. CASE a >= i /\ b >= i
    BY <1>1, <1>4, <2>1, <2>3
  <2>4. CASE a < i /\ b >= i
    BY <1>1, <1>4, <2>1, <2>4
  <2>5. CASE a >= i /\ b < i
    BY <1>1, <1>4, <2>1, <2>5
  <2> QED
    BY <1>1, <2>2, <2>3, <2>4, <2>5
<1>6. ASSUME NEW p \in ToSet(r) PROVE p \in ToSet(l) \ {l[i]}
  <2>1. PICK k \in 1..(n - 1) : r[k] = p
    BY <1>4, <1>6 DEF ToSet
  <2>2. PICK m \in 1..n : p = l[m] /\ m # i
    BY <1>1, <1>4, <2>1
  <2> QED
    BY <1>1, <2>2 DEF NoDup, ToSet
<1>7. ASSUME NEW p \in ToSet(l) \ {l[i]} PROVE p \in ToSet(r)
  <2>1. PICK k \in 1..n : l[k] = p /\ k # i
    BY <1>1, <1>7 DEF ToSet
  <2>2. CASE k < i
    BY <1>1, <1>4, <2>1, <2>2 DEF ToSet
  <2>3. CASE k > i
    <3>1. k - 1 \in 1..(n - 1) /\ r[k - 1] = p
      BY <1>1, <1>4, <2>1, <2>3
    <3> QED
      BY <1>4, <3>1 DEF ToSet
  <2> QED
    BY <1>1, <2>1, <2>2, <2>3
<1> QED
  BY <1>4, <1>5, <1>6, <1>7 DEF r

LEMMA UnlinkedFromList ==
    ASSUME NEW S, NEW l \in Seq(S), NoDup(l), NEW p \in ToSet(l)
    PROVE  /\ Unlink(l, p) \in Seq(S) /\ NoDup(Unlink(l, p))
           /\ ToSet(Unlink(l, p)) = ToSet(l) \ {p}
<1> DEFINE i == CHOOSE i \in DOMAIN l : l[i] = p
<1>1. \E k \in DOMAIN l : l[k] = p
  BY DEF ToSet
<1>2. i \in DOMAIN l /\ l[i] = p
  BY <1>1
<1>3. Unlink(l, p) = RemoveAt(l, i)
  BY DEF Unlink
<1> HIDE DEF i
<1> QED
  BY <1>2, <1>3, RemovalFromList

LEMMA ReplacementInList ==
    ASSUME NEW S, NEW l \in Seq(S), NoDup(l), NEW old \in ToSet(l),
           NEW p \in S, p \notin ToSet(l)
    PROVE  /\ ReplaceAll(l, old, p) \in Seq(S) /\ NoDup(ReplaceAll(l, old, p))
           /\ ToSet(ReplaceAll(l, old, p)) = (ToSet(l) \ {old}) \cup {p}
<1> DEFINE r == ReplaceAll(l, old, p)
           n == Len(l)
<1>1. n \in Nat /\ DOMAIN l = 1..n /\ \A k \in 1..n : l[k] \in S
  BY LenProperties
<1>2. /\ r \in [1..n -> S]
      /\ \A k \in 1..n : r[k] = IF l[k] = old THEN p ELSE l[k]
  BY <1>1 DEF ReplaceAll
<1>3. r \in Seq(S) /\ DOMAIN r = 1..n
  BY <1>1, <1>2, SeqDef
<1> HIDE DEF r, n
<1>4. NoDup(r)
  <2> SUFFICES ASSUME NEW a \in 1..n, NEW b \in 1..n, r[a] = r[b]
               PROVE  a = b
    BY <1>3 DEF NoDup
  <2>1. /\ \A x, y \in 1..n : l[x] = l[y] => x = y
        /\ \A x \in 1..n : l[x] # p
    BY <1>1 DEF NoDup, ToSet
  <2> QED
    BY <1>2, <2>1
<1>5. ASSUME NEW q PROVE q \in ToSet(r) <=> q = p \/ (q \in ToSet(l) /\ q # old)
  BY <1>1, <1>2, <1>3 DEF ToSet
<1> QED
  BY <1>3, <1>4, <1>5 DEF r, n

LEMMA FirstInList ==
    ASSUME NEW S, NEW l \in Seq(S), NoDup(l), NEW p \in S, p \notin ToSet(l)
    PROVE  /\ <<p>> \o l \in Seq(S) /\ NoDup(<<p>> \o l)
           /\ ToSet(<<p>> \o l) = ToSet(l) \cup {p}
<1> DEFINE r == <<p>> \o l
           n == Len(l)
<1>1. n \in Nat /\ DOMAIN l = 1..n
  BY LenProperties
<1>2. <<p>> \in Seq(S) /\ Len(<<p>>) = 1 /\ <<p>>[1] = p
  OBVIOUS
<1>3. /\ r \in Seq(S) /\ DOMAIN r = 1..(n + 1)
      /\ \A k \in 1..(n + 1) : r[k] = IF k = 1 THEN p ELSE l[k - 1]
  BY <1>1, <1>2, ConcatProperties, LenProperties
<1> HIDE DEF r, n
<1>4. NoDup(r)
  <2> SUFFICES ASSUME NEW a \in 1..(n + 1), NEW b \in 1..(n + 1), r[a] = r[b]
               PROVE  a = b
    BY <1>3 DEF NoDup
  <2>1. /\ \A x, y \in 1..n : l[x] = l[y] => x = y
        /\ \A x \in 1..n : l[x] # p
    BY <1>1 DEF NoDup, ToSet
  <2>2. CASE a = 1 \/ b = 1
    BY <1>1, <1>3, <2>1, <2>2
  <2>3. CASE a # 1 /\ b # 1
    <3>1. a - 1 \in 1..n /\ b - 1 \in 1..n /\ l[a - 1] = l[b - 1]
      BY <1>1, <1>3, <2>3
    <3>2. a - 1 = b - 1
      BY <2>1, <3>1
    <3> QED
      BY <1>1, <3>2
  <2> QED
    BY <2>2, <2>3
<1>5. ASSUME NEW q \in ToSet(r) PROVE q \in ToSet(l) \cup {p}
  <2>1. PICK k \in 1..(n + 1) : r[k] = q
    BY <1>3, <1>5 DEF ToSet
  <2>2. q = p \/ \E m \in 1..n : q = l[m]
    <3>1. CASE k = 1
      BY <1>3, <2>1, <3>1
    <3>2. CASE k # 1
      <4>1. k - 1 \in 1..n /\ q = l[k - 1]
        BY <1>1, <1>3, <2>1, <3>2
      <4> QED
        BY <4>1
    <3> QED
      BY <3>1, <3>2
  <2> QED
    BY <1>1, <2>2 DEF ToSet
<1>6. ASSUME NEW q \in ToSet(l) PROVE q \in ToSet(r)
  <2>1. PICK k \in 1..n : l[k] = q
    BY <1>1 DEF ToSet
  <2>2. k + 1 \in 1..(n + 1) /\ r[k + 1] = q
    BY <1>1, <1>3, <2>1
  <2> QED
    BY <1>3, <2>2 DEF ToSet
<1>7. p \in ToSet(r)
  BY <1>1, <1>3 DEF ToSet
<1> QED
  BY <1>3, <1>4, <1>5, <1>6, <1>7 DEF r

LEMMA RestOfList ==
    ASSUME NEW S, NEW l \in Seq(S), NoDup(l), l # <<>>
    PROVE  /\ Head(l) \in ToSet(l)
           /\ Tail(l) \in Seq(S) /\ NoDup(Tail(l))
           /\ ToSet(Tail(l)) = ToSet(l) \ {Head(l)}
<1> DEFINE r == Tail(l)
           n == Len(l)
<1>1. n \in Nat \ {0} /\ DOMAIN l = 1..n
  BY LenProperties, EmptySeq
<1>2. /\ Head(l) = l[1] /\ r \in Seq(S) /\ DOMAIN r = 1..(n - 1)
      /\ \A k \in 1..(n - 1) : r[k] = l[k + 1]
  BY <1>1, HeadTailProperties, LenProperties
<1> HIDE DEF r, n
<1>3. NoDup(r)
  <2> SUFFICES ASSUME NEW a \in 1..(n - 1), NEW b \in 1..(n - 1), r[a] = r[b]
               PROVE  a = b
    BY <1>2 DEF NoDup
  <2>1. \A x, y \in 1..n : l[x] = l[y] => x = y
    BY <1>1 DEF NoDup
  <2> QED
    BY <1>1, <1>2, <2>1
<1>4. ASSUME NEW q \in ToSet(r) PROVE q \in ToSet(l) \ {l[1]}
  BY <1>1, <1>2 DEF NoDup, ToSet
<1>5. ASSUME NEW q \in ToSet(l) \ {l[1]} PROVE q \in ToSet(r)
  <2>1. PICK k \in 1..n : l[k] = q /\ k # 1
    BY <1>1 DEF ToSet
  <2>2. k - 1 \in 1..(n - 1) /\ r[k - 1] = q
    BY <1>1, <1>2, <2>1
  <2> QED
    BY <1>2, <2>2 DEF ToSet
<1>6. l[1] \in ToSet(l)
  BY <1>1 DEF ToSet
<1> QED
  BY <1>2, <1>3, <1>4, <1>5, <1>6 DEF r

-----------------------------------------------------------------------------
(* Free runs *)

LEMMA Numbers ==
    /\ N \in Nat \ {0} /\ PageSize \in Nat \ {0} /\ ExactSize \in Nat
    /\ Slots \subseteq Nat \ {0} /\ Requests \subseteq Nat \ {0}
    /\ \A p \in Pages : p \in Nat /\ p >= 1 /\ p <= N
    /\ \A p \in Nat : p >= 1 /\ p <= N => p \in Pages
    /\ FREE = 0 /\ START = N + 1 /\ BUSY = 2 * N + 2 /\ PAGE = 0
  BY SlabAssumption DEF SlabAssumption, Pages, FREE, START, BUSY, PAGE

LEMMA RunOf ==
    ASSUME TypeOK, RunInv, NEW h \in Firsts
    PROVE  /\ h \in Pages /\ type[h] = PAGE /\ slab[h] \in Nat
           /\ slab[h] >= 1 /\ slab[h] <= N /\ h + slab[h] <= N + 1
           /\ \A q \in Pages : q > h /\ q < h + slab[h] => type[q] = PAGE /\ slab[q] = FREE
           /\ slab[h] > 1 /\ h + slab[h] <= N => prev[h + slab[h] - 1] = h
           /\ h + slab[h] \notin Firsts
           /\ \A q \in Pages : q >= h /\ q < h + slab[h] => ~Taken(q)
<1>1. h \in Pages
  BY InList DEF TypeOK, Firsts
<1>2. /\ type[h] = PAGE /\ slab[h] \in 1..N /\ h + slab[h] <= N + 1
      /\ \A q \in (h + 1)..(h + slab[h] - 1) : type[q] = PAGE /\ slab[q] = FREE
      /\ slab[h] > 1 /\ h + slab[h] <= N => prev[h + slab[h] - 1] = h
      /\ h + slab[h] \notin Firsts
  BY DEF RunInv
<1>3. ASSUME NEW q \in Pages, q > h, q < h + slab[h]
      PROVE  type[q] = PAGE /\ slab[q] = FREE
  BY <1>1, <1>2, <1>3, Numbers
<1>4. ASSUME NEW q \in Pages, q >= h, q < h + slab[h]
      PROVE  ~Taken(q)
  <2>1. CASE q = h
    BY <1>1, <1>2, <2>1, Numbers DEF Taken
  <2>2. CASE q # h
    BY <1>1, <1>3, <1>4, <2>2, Numbers DEF Taken
  <2> QED
    BY <2>1, <2>2
<1> QED
  BY <1>1, <1>2, <1>3, <1>4, Numbers

LEMMA RunsApart ==
    ASSUME TypeOK, RunInv, NEW g \in Firsts, NEW h \in Firsts, g < h
    PROVE  g + slab[g] < h
<1>1. g \in Pages /\ h \in Pages /\ slab[g] \in Nat /\ slab[h] >= 1
  BY RunOf
<1>2. g + slab[g] # h
  BY RunOf
<1>3. ~(h < g + slab[g])
  BY <1>1, RunOf, Numbers
<1> QED
  BY <1>1, <1>2, <1>3, Numbers

LEMMA RunAt ==
    ASSUME TypeOK, RunInv, NEW q \in Pages, ~Taken(q)
    PROVE  \E h \in Firsts : q >= h /\ q < h + slab[h]
<1>1. PICK h \in Firsts : q \in h..(h + slab[h] - 1)
  BY DEF RunInv
<1>2. h \in Nat /\ slab[h] \in Nat
  BY RunOf, Numbers
<1> QED
  BY <1>1, <1>2, Numbers

\* Taking pages from the front of a run leaves the other runs and all blocks
\* alone, whatever the pages become.
LEMMA AllocKeepsRuns ==
    ASSUME TypeOK, RunInv, NEW page \in Firsts, NEW n \in Nat \ {0},
           slab[page] >= n, AllocPages(page, n),
           type' \in [Pages -> Nat],
           \A q \in Pages : q # page => type'[q] = type[q]
    PROVE  /\ page \in Pages /\ page + n <= N + 1 /\ n <= N
           /\ \A q \in Pages : q >= page /\ q < page + n => ~Taken(q)
           /\ slab' \in [Pages -> Nat] /\ prev' \in [Pages -> Nat] /\ free' \in Seq(Pages)
           /\ slab'[page] = START + n
           /\ \A q \in Pages : q > page /\ q < page + n => slab'[q] = BUSY
           /\ \A q \in Pages : Taken(q) => slab'[q] = slab[q] /\ type'[q] = type[q]
           /\ \A q \in Pages : ~Taken(q) /\ ~(q >= page /\ q < page + n) => ~Taken(q)'
           /\ RunInv'
<1> DEFINE end  == page + slab[page]
           rest == slab[page] - n
<1>1. /\ page \in Firsts
      /\ free \in Seq(Pages) /\ NoDup(free)
      /\ type \in [Pages -> Nat] /\ slab \in [Pages -> Nat] /\ prev \in [Pages -> Nat]
  BY DEF TypeOK, RunInv
<1> HIDE DEF end, rest
<1>2. /\ page \in Pages /\ slab[page] \in Nat /\ slab[page] <= N /\ end <= N + 1
      /\ \A q \in Pages : q > page /\ q < end => type[q] = PAGE /\ slab[q] = FREE
      /\ slab[page] > 1 /\ end <= N => prev[end - 1] = page
      /\ end \notin Firsts
      /\ \A q \in Pages : q >= page /\ q < end => ~Taken(q)
  <2>1. page \in Firsts
    BY <1>1
  <2>2. /\ page \in Pages /\ type[page] = PAGE /\ slab[page] \in Nat
        /\ slab[page] >= 1 /\ slab[page] <= N /\ page + slab[page] <= N + 1
        /\ \A q \in Pages : q > page /\ q < page + slab[page] => type[q] = PAGE /\ slab[q] = FREE
        /\ slab[page] > 1 /\ page + slab[page] <= N => prev[page + slab[page] - 1] = page
        /\ page + slab[page] \notin Firsts
        /\ \A q \in Pages : q >= page /\ q < page + slab[page] => ~Taken(q)
    BY <2>1, RunOf, Zenon
  <2>3. end = page + slab[page]
    BY DEF end
  <2> QED
    BY <2>2, <2>3, Numbers
<1>11. end = page + slab[page] /\ rest = slab[page] - n /\ rest \in Nat
  BY <1>2 DEF end, rest
<1>3. \A h \in Firsts : h # page => h + slab[h] < page \/ end < h
  <2> TAKE h \in Firsts
  <2>1. h \in Nat /\ page \in Nat
    BY <1>2, RunOf, Numbers
  <2> QED
    BY <1>1, <2>1, RunsApart DEF end
<1>4. /\ slab' = [q \in Pages |->
                    IF q = page THEN START + n
                    ELSE IF q \in (page + 1)..(page + n - 1) THEN BUSY
                    ELSE IF q = page + n /\ rest > 0 THEN rest
                    ELSE slab[q]]
      /\ prev' = [prev EXCEPT ![page + slab[page] - 1] =
                                   IF slab[page] > n + 1 THEN page + n ELSE 0]
      /\ free' = IF rest > 0 THEN ReplaceAll(free, page, page + n) ELSE Unlink(free, page)
  <2>1. free' = IF slab[page] - n > 0 THEN ReplaceAll(free, page, page + n) ELSE Unlink(free, page)
    BY DEF AllocPages
  <2>2. prev' = [prev EXCEPT ![page + slab[page] - 1] =
                                   IF slab[page] > n + 1 THEN page + n ELSE 0]
    BY DEF AllocPages, SplitPrev
  <2>3. slab' = [q \in Pages |->
                    IF q = page THEN START + n
                    ELSE IF q \in (page + 1)..(page + n - 1) THEN BUSY
                    ELSE IF q = page + n /\ slab[page] - n > 0 THEN slab[page] - n
                    ELSE slab[q]]
    BY DEF AllocPages
  <2> QED
    BY <2>1, <2>2, <2>3 DEF end, rest
<1>5. page + n \notin Firsts
  <2>1. CASE rest > 0
    <3>1. page + n \in Pages /\ page + n > page /\ page + n < end
      BY <1>2, <1>11, <2>1, Numbers
    <3>2. slab[page + n] = FREE
      BY <1>2, <3>1
    <3> QED
      BY <3>2, RunOf, Numbers
  <2>2. CASE ~(rest > 0)
    <3>1. page + n = end
      BY <1>2, <1>11, <2>2, Numbers
    <3> QED
      BY <1>2, <3>1
  <2> QED
    BY <2>1, <2>2
<1>6. /\ free' \in Seq(Pages) /\ NoDup(free')
      /\ Firsts' = (Firsts \ {page}) \cup (IF rest > 0 THEN {page + n} ELSE {})
  <2>1. CASE rest > 0
    <3>1. page + n \in Pages
      BY <1>2, <1>11, <2>1, Numbers
    <3>2. free' = ReplaceAll(free, page, page + n)
      BY <1>4, <2>1
    <3> QED
      <4>1. /\ ReplaceAll(free, page, page + n) \in Seq(Pages)
            /\ NoDup(ReplaceAll(free, page, page + n))
            /\ ToSet(ReplaceAll(free, page, page + n)) = (ToSet(free) \ {page}) \cup {page + n}
        BY <1>1, <1>5, <3>1, ReplacementInList DEF Firsts
      <4> QED
        BY <2>1, <3>2, <4>1 DEF Firsts
  <2>2. CASE ~(rest > 0)
    BY <1>1, <1>4, <2>2, UnlinkedFromList DEF Firsts
  <2> QED
    BY <2>1, <2>2
<1>7. /\ slab' \in [Pages -> Nat] /\ slab'[page] = START + n
      /\ \A q \in Pages : q > page /\ q < page + n => slab'[q] = BUSY
      /\ \A q \in Pages : q < page \/ q > page + n => slab'[q] = slab[q]
      /\ rest > 0 => slab'[page + n] = rest
      /\ ~(rest > 0) /\ page + n \in Pages => slab'[page + n] = slab[page + n]
  <2>1. \A q \in Pages :
            slab'[q] = IF q = page THEN START + n
                       ELSE IF q \in (page + 1)..(page + n - 1) THEN BUSY
                       ELSE IF q = page + n /\ rest > 0 THEN rest
                       ELSE slab[q]
    BY <1>4
  <2>2. slab' \in [Pages -> Nat]
    <3>1. \A q \in Pages : slab'[q] \in Nat
      <4> TAKE q \in Pages
      <4>1. slab[q] \in Nat /\ START + n \in Nat /\ BUSY \in Nat /\ rest \in Nat
        BY <1>1, <1>11, Numbers
      <4> QED
        BY <2>1, <4>1
    <3>2. DOMAIN slab' = Pages
      BY <1>4
    <3> QED
      BY <1>4, <3>1, <3>2
  <2>3. rest > 0 => page + n \in Pages
    BY <1>2, <1>11, Numbers
  <2> QED
    BY <1>2, <1>11, <2>1, <2>2, <2>3, Numbers
<1>8. /\ prev' \in [Pages -> Nat]
      /\ \A q \in Pages : q # end - 1 => prev'[q] = prev[q]
      /\ slab[page] > n + 1 => prev'[end - 1] = page + n
  <2>1. end - 1 \in Pages /\ page + slab[page] - 1 = end - 1
    BY <1>2, <1>11, Numbers
  <2>2. (IF slab[page] > n + 1 THEN page + n ELSE 0) \in Nat
    BY <1>2, Numbers
  <2> QED
    BY <1>1, <1>4, <2>1, <2>2
<1>9. ASSUME NEW q \in Pages, Taken(q)
      PROVE  slab'[q] = slab[q] /\ type'[q] = type[q]
  <2>1. q < page \/ q >= end
    BY <1>2, <1>9, <1>11, Numbers
  <2> QED
    BY <1>2, <1>7, <1>11, <2>1, Numbers
<1>10. ASSUME NEW q \in Pages, ~Taken(q), ~(q >= page /\ q < page + n)
       PROVE  ~Taken(q)'
  <2>1. q # page /\ type'[q] = PAGE
    BY <1>2, <1>10, Numbers DEF Taken
  <2>2. slab'[q] < START
    <3>1. slab[q] < START
      BY <1>1, <1>10, Numbers DEF Taken
    <3>2. CASE q = page + n
      <4>1. CASE rest > 0
        BY <1>2, <1>7, <1>11, <3>2, <4>1, Numbers
      <4>2. CASE ~(rest > 0)
        BY <1>7, <3>1, <3>2, <4>2
      <4> QED
        BY <4>1, <4>2
    <3>3. CASE q # page + n
      BY <1>2, <1>7, <1>10, <3>1, <3>3, Numbers
    <3> QED
      BY <3>2, <3>3
  <2> QED
    BY <1>7, <2>1, <2>2, Numbers DEF Taken
<1>12. ASSUME NEW h \in Firsts'
       PROVE  /\ type'[h] = PAGE /\ slab'[h] \in 1..N /\ h + slab'[h] <= N + 1
              /\ \A q \in (h + 1)..(h + slab'[h] - 1) : type'[q] = PAGE /\ slab'[q] = FREE
              /\ slab'[h] > 1 /\ h + slab'[h] <= N => prev'[h + slab'[h] - 1] = h
              /\ h + slab'[h] \notin Firsts'
  <2>1. CASE h # page + n
    <3>1. h \in Firsts /\ h # page
      BY <1>6, <1>12, <2>1
    <3>2. /\ h \in Pages /\ type[h] = PAGE /\ slab[h] \in Nat
          /\ slab[h] >= 1 /\ slab[h] <= N /\ h + slab[h] <= N + 1
          /\ \A q \in Pages : q > h /\ q < h + slab[h] => type[q] = PAGE /\ slab[q] = FREE
          /\ slab[h] > 1 /\ h + slab[h] <= N => prev[h + slab[h] - 1] = h
          /\ h + slab[h] \notin Firsts
      BY <3>1, RunOf
    <3>3. h + slab[h] < page \/ end < h
      BY <1>3, <3>1
    <3>4. type'[h] = PAGE /\ slab'[h] = slab[h]
      BY <1>2, <1>7, <1>11, <3>1, <3>2, <3>3, Numbers
    <3>5. ASSUME NEW q \in (h + 1)..(h + slab[h] - 1)
          PROVE  type'[q] = PAGE /\ slab'[q] = FREE
      <4>1. q \in Pages /\ q > h /\ q < h + slab[h] /\ q # page
        BY <1>2, <1>11, <3>2, <3>3, Numbers
      <4>2. slab'[q] = slab[q]
        BY <1>2, <1>7, <1>11, <3>2, <3>3, <4>1, Numbers
      <4> QED
        BY <3>2, <4>1, <4>2
    <3>6. slab[h] > 1 /\ h + slab[h] <= N => prev'[h + slab[h] - 1] = h
      <4>1. slab[h] > 1 /\ h + slab[h] <= N =>
               h + slab[h] - 1 \in Pages /\ h + slab[h] - 1 # end - 1
        BY <1>2, <1>11, <3>2, <3>3, Numbers
      <4> QED
        BY <1>8, <3>2, <4>1
    <3>7. h + slab[h] # page + n
      BY <1>2, <1>11, <3>2, <3>3, Numbers
    <3>8. h + slab[h] \notin Firsts'
      BY <1>6, <3>2, <3>7
    <3> QED
      BY <3>2, <3>4, <3>5, <3>6, <3>8, Numbers
  <2>2. CASE h = page + n
    <3>1. rest > 0
      BY <1>5, <1>6, <1>12, <2>2
    <3>2. /\ h \in Pages /\ h > page /\ h < end /\ slab'[h] = rest /\ h + rest = end
      BY <1>2, <1>7, <1>11, <2>2, <3>1, Numbers
    <3>3. type'[h] = PAGE
      BY <1>2, <3>2, Numbers
    <3>4. ASSUME NEW q \in (h + 1)..(end - 1)
          PROVE  type'[q] = PAGE /\ slab'[q] = FREE
      <4>1. q \in Pages /\ q > page + n /\ q < end /\ q # page
        BY <1>2, <1>11, <2>2, <3>2, Numbers
      <4> QED
        BY <1>2, <1>7, <4>1, Numbers
    <3>5. rest > 1 => prev'[end - 1] = h
      BY <1>2, <1>8, <1>11, <2>2, Numbers
    <3>6. end \notin Firsts'
      BY <1>2, <1>6, <3>2, <2>2, Numbers
    <3> QED
      BY <1>2, <1>11, <3>1, <3>2, <3>3, <3>4, <3>5, <3>6, Numbers
  <2> QED
    BY <2>1, <2>2
<1>13. ASSUME NEW q \in Pages, ~Taken(q)'
       PROVE  \E h \in Firsts' : q \in h..(h + slab'[h] - 1)
  <2>1. ~(q >= page /\ q < page + n)
    BY <1>2, <1>7, <1>13, Numbers DEF Taken
  <2>2. ~Taken(q)
    BY <1>9, <1>13 DEF Taken
  <2>3. PICK h \in Firsts : q >= h /\ q < h + slab[h]
    BY <2>2, RunAt
  <2>4. h \in Pages /\ slab[h] \in Nat
    BY RunOf
  <2>5. CASE h = page
    <3>1. rest > 0 /\ q >= page + n /\ q < end
      BY <1>2, <1>11, <2>1, <2>3, <2>5, Numbers
    <3>2. page + n \in Firsts' /\ slab'[page + n] = rest
      BY <1>6, <1>7, <3>1
    <3>3. (page + n) + rest = end /\ page + n \in Nat
      BY <1>2, <1>11, Numbers
    <3> QED
      BY <1>2, <1>11, <3>1, <3>2, <3>3, Numbers
  <2>6. CASE h # page
    <3>1. h \in Firsts' /\ slab'[h] = slab[h]
      <4>1. h \in Firsts'
        BY <1>6, <2>6
      <4>2. h + slab[h] < page \/ end < h
        BY <1>3, <2>6
      <4>3. h < page \/ h > page + n
        BY <1>2, <1>11, <2>4, <4>2, Numbers
      <4> QED
        BY <1>7, <2>4, <4>1, <4>3
    <3> QED
      BY <2>3, <2>4, <3>1, Numbers
  <2> QED
    BY <2>5, <2>6
<1>14. RunInv'
  BY <1>6, <1>12, <1>13 DEF RunInv
<1>15. /\ page + n <= N + 1 /\ n <= N
       /\ \A q \in Pages : q >= page /\ q < page + n => ~Taken(q)
  BY <1>2, <1>11, Numbers
<1> QED
  BY <1>2, <1>6, <1>7, <1>8, <1>9, <1>10, <1>14, <1>15

\* What free_pages finds on both sides of the pages it is given: the run behind
\* them is on the list if its first page is; the run before them is found
\* whether it has one page or more.
LEMMA RunBehind ==
    ASSUME TypeOK, RunInv, NEW next
    PROVE  JoinsNext(next) <=> next \in Firsts
  BY RunOf DEF JoinsNext, Firsts

LEMMA RunBefore ==
    ASSUME TypeOK, RunInv, NEW page \in Pages, Taken(page)
    PROVE  /\ JoinsPrev(page) =>
                 Before(page) \in Firsts /\ Before(page) + slab[Before(page)] = page
           /\ ~JoinsPrev(page) => \A h \in Firsts : h + slab[h] # page
<1>1. \A h \in Firsts : h + slab[h] <= page \/ h > page
  <2> TAKE h \in Firsts
  <2>1. h \in Nat /\ slab[h] \in Nat /\ page \in Nat
    BY RunOf, Numbers
  <2>2. ~(page >= h /\ page < h + slab[h])
    BY RunOf
  <2> QED
    BY <2>1, <2>2
<1>2. ASSUME NEW h \in Firsts, h + slab[h] = page
      PROVE  page > 1 /\ page - 1 \in Pages /\ type[page - 1] = PAGE /\ Before(page) = h
  <2>1. /\ h \in Pages /\ type[h] = PAGE /\ slab[h] \in Nat
        /\ slab[h] >= 1 /\ slab[h] <= N /\ h + slab[h] <= N + 1
        /\ \A q \in Pages : q > h /\ q < h + slab[h] => type[q] = PAGE /\ slab[q] = FREE
        /\ slab[h] > 1 /\ h + slab[h] <= N => prev[h + slab[h] - 1] = h
    BY RunOf
  <2>2. page > 1 /\ page - 1 \in Pages
    BY <1>2, <2>1, Numbers
  <2>3. CASE slab[h] = 1
    <3>1. page - 1 = h
      BY <1>2, <2>1, <2>3, Numbers
    <3> QED
      BY <2>1, <2>2, <3>1, Numbers DEF Before
  <2>4. CASE slab[h] # 1
    <3>1. page - 1 > h /\ page - 1 < h + slab[h] /\ slab[h] > 1 /\ h + slab[h] <= N
      BY <1>2, <2>1, <2>4, Numbers
    <3>2. h + slab[h] - 1 = page - 1
      BY <1>2, <2>1, Numbers
    <3> QED
      BY <2>1, <2>2, <3>1, <3>2, Numbers DEF Before
  <2> QED
    BY <2>3, <2>4
<1>3. ASSUME JoinsPrev(page)
      PROVE  Before(page) \in Firsts /\ Before(page) + slab[Before(page)] = page
  <2>1. /\ page > 1 /\ page \in Nat /\ type[page - 1] = PAGE /\ Before(page) \in Firsts
        /\ page - 1 \in Pages
    BY <1>3, Numbers DEF JoinsPrev, Firsts
  <2>2. ~Taken(page - 1)
    <3>1. CASE slab[page - 1] = FREE
      BY <2>1, <3>1, Numbers DEF Taken
    <3>2. CASE slab[page - 1] # FREE
      <4>1. page - 1 \in Firsts
        BY <2>1, <3>2 DEF Before
      <4>2. slab[page - 1] \in Nat /\ slab[page - 1] <= N
        BY <4>1, RunOf
      <4> QED
        BY <2>1, <4>2, Numbers DEF Taken
    <3> QED
      BY <3>1, <3>2
  <2>3. PICK h \in Firsts : page - 1 >= h /\ page - 1 < h + slab[h]
    BY <2>1, <2>2, RunAt
  <2>4. h \in Nat /\ slab[h] \in Nat
    BY RunOf, Numbers
  <2>5. h + slab[h] = page
    BY <1>1, <2>1, <2>3, <2>4
  <2> QED
    BY <1>2, <2>3, <2>5
<1>4. ASSUME ~JoinsPrev(page), NEW h \in Firsts
      PROVE  h + slab[h] # page
  BY <1>2, <1>4 DEF JoinsPrev, Firsts
<1> QED
  BY <1>3, <1>4

\* Giving pages back leaves one run of them and the runs on both sides.
LEMMA FreeKeepsRuns ==
    ASSUME TypeOK, RunInv, NEW page \in Pages, NEW n \in Nat \ {0},
           page + n <= N + 1,
           \A q \in Pages : q >= page /\ q < page + n => Taken(q),
           FreePages(page, n),
           type' \in [Pages -> Nat],
           \A q \in Pages : type'[q] = IF q >= page /\ q < page + n THEN PAGE ELSE type[q]
    PROVE  /\ slab' \in [Pages -> Nat] /\ prev' \in [Pages -> Nat] /\ free' \in Seq(Pages)
           /\ \A q \in Pages : Taken(q) /\ ~(q >= page /\ q < page + n) =>
                 slab'[q] = slab[q] /\ type'[q] = type[q]
           /\ \A q \in Pages : ~Taken(q) \/ (q >= page /\ q < page + n) => ~Taken(q)'
           /\ RunInv'
<1> DEFINE next  == page + n
           right == IF JoinsNext(next) THEN slab[next] ELSE 0
           left  == IF JoinsPrev(page) THEN slab[Before(page)] ELSE 0
           head  == IF JoinsPrev(page) THEN Before(page) ELSE page
           len   == left + n + right
           rest  == IF JoinsNext(next) THEN Unlink(free, next) ELSE free
           Cleared(q) == (q >= page /\ q < next) \/ (q = next /\ next \in Firsts)
<1>1. /\ slab' = [q \in Pages |->
                       IF q = head THEN len
                       ELSE IF q \in page..(next - 1) \/ (q = next /\ JoinsNext(next))
                            THEN FREE
                       ELSE slab[q]]
      /\ prev' = [q \in Pages |->
                       IF q = head + len - 1 /\ len > 1 THEN head
                       ELSE IF q \in page..(page + (IF JoinsNext(next) THEN n ELSE n - 1))
                               \/ q = head
                            THEN 0 ELSE prev[q]]
      /\ free' = <<head>> \o (IF JoinsPrev(page) THEN Unlink(rest, head) ELSE rest)
  BY DEF FreePages, JoinedPrev
<1>2. page \in Nat /\ page >= 1 /\ next \in Nat /\ next > page /\ next <= N + 1
  BY Numbers
<1>3. Taken(page)
  BY <1>2
<1>4. /\ next \in Firsts => right = slab[next]
      /\ next \notin Firsts => right = 0
  BY RunBehind
<1>5. /\ right \in Nat /\ next + right <= N + 1
      /\ next \in Firsts => right >= 1 /\ next \in Pages
      /\ \A q \in Pages : q > next /\ q < next + right => type[q] = PAGE /\ slab[q] = FREE
      /\ next + right \notin Firsts
      /\ right > 1 /\ next + right <= N => prev[next + right - 1] = next
  BY <1>2, <1>4, RunOf
<1>6. /\ head \in Pages /\ left \in Nat /\ head + left = page
      /\ left > 0 => head \in Firsts /\ slab[head] = left
      /\ left = 0 => head = page /\ page \notin Firsts /\ \A h \in Firsts : h + slab[h] # page
      /\ \A q \in Pages : q > head /\ q < page => type[q] = PAGE /\ slab[q] = FREE
      /\ JoinsPrev(page) <=> left > 0
  <2>1. CASE JoinsPrev(page)
    <3>1. head \in Firsts /\ left = slab[head] /\ head + slab[head] = page
      BY <1>3, <2>1, RunBefore
    <3> HIDE DEF head, left
    <3>2. /\ head \in Pages /\ slab[head] \in Nat /\ slab[head] >= 1
          /\ \A q \in Pages : q > head /\ q < head + slab[head] => type[q] = PAGE /\ slab[q] = FREE
      BY <3>1, RunOf
    <3> QED
      BY <2>1, <3>1, <3>2, Numbers
  <2>2. CASE ~JoinsPrev(page)
    <3>1. head = page /\ left = 0 /\ \A h \in Firsts : h + slab[h] # page
      BY <1>3, <2>2, RunBefore
    <3>2. page \notin Firsts
      BY <1>2, <1>3, RunOf
    <3> HIDE DEF head, left
    <3> QED
      BY <1>2, <2>2, <3>1, <3>2, Numbers
  <2> QED
    BY <2>1, <2>2
<1>7. head # next /\ head \in Nat /\ head <= page
  <2> HIDE DEF head, left, next
  <2> QED
    BY <1>2, <1>6, Numbers
<1>8. /\ free' \in Seq(Pages) /\ NoDup(free')
      /\ Firsts' = (Firsts \ {next, head}) \cup {head}
  <2>1. /\ rest \in Seq(Pages) /\ NoDup(rest)
        /\ ToSet(rest) = Firsts \ {next}
    <3>1. free \in Seq(Pages) /\ NoDup(free)
      BY DEF TypeOK, RunInv
    <3>2. CASE next \in Firsts
      <4>1. rest = Unlink(free, next)
        BY <3>2, RunBehind
      <4> HIDE DEF rest, next
      <4> QED
        BY <3>1, <3>2, <4>1, UnlinkedFromList DEF Firsts
    <3>3. CASE next \notin Firsts
      <4>1. rest = free
        BY <3>3, RunBehind
      <4> HIDE DEF rest, next
      <4> QED
        BY <3>1, <3>3, <4>1 DEF Firsts
    <3> QED
      BY <3>2, <3>3
  <2> HIDE DEF rest, head, next, left
  <2>2. CASE JoinsPrev(page)
    <3>1. head \in ToSet(rest)
      BY <1>6, <1>7, <2>1, <2>2
    <3>2. /\ Unlink(rest, head) \in Seq(Pages) /\ NoDup(Unlink(rest, head))
          /\ ToSet(Unlink(rest, head)) = (Firsts \ {next}) \ {head}
      BY <2>1, <3>1, UnlinkedFromList
    <3>3. free' = <<head>> \o Unlink(rest, head)
      BY <1>1, <2>2
    <3>4. head \notin ToSet(Unlink(rest, head))
      BY <3>2
    <3>5. /\ free' \in Seq(Pages) /\ NoDup(free')
          /\ ToSet(free') = ToSet(Unlink(rest, head)) \cup {head}
      BY <1>6, <3>2, <3>3, <3>4, FirstInList
    <3> QED
      BY <3>2, <3>5 DEF Firsts
  <2>3. CASE ~JoinsPrev(page)
    <3>1. head \notin ToSet(rest)
      BY <1>6, <2>1, <2>3
    <3>2. free' = <<head>> \o rest
      BY <1>1, <2>3
    <3>3. /\ free' \in Seq(Pages) /\ NoDup(free')
          /\ ToSet(free') = ToSet(rest) \cup {head}
      BY <1>6, <2>1, <3>1, <3>2, FirstInList
    <3> QED
      BY <2>1, <3>1, <3>3 DEF Firsts
  <2> QED
    BY <2>2, <2>3
<1>9. \A q \in Pages :
         /\ slab'[q] = IF q = head THEN len ELSE IF Cleared(q) THEN FREE ELSE slab[q]
         /\ prev'[q] = IF q = head + len - 1 /\ len > 1 THEN head
                       ELSE IF Cleared(q) \/ q = head THEN 0 ELSE prev[q]
  <2> TAKE q \in Pages
  <2>1. q \in Nat
    BY Numbers
  <2>2. q \in page..(next - 1) <=> q >= page /\ q < next
    BY <1>2, <2>1
  <2>3. q \in page..(page + (IF JoinsNext(next) THEN n ELSE n - 1)) <=> Cleared(q)
    <3>1. CASE JoinsNext(next)
      BY <1>2, <2>1, <3>1, RunBehind
    <3>2. CASE ~JoinsNext(next)
      BY <1>2, <2>1, <3>2, RunBehind
    <3> QED
      BY <3>1, <3>2
  <2>4. JoinsNext(next) <=> next \in Firsts
    BY RunBehind
  <2> HIDE DEF head, len, next
  <2> QED
    BY <1>1, <2>2, <2>3, <2>4
<1>10. len \in Nat /\ len >= 1 /\ head + len = next + right /\ len <= N
  <2> HIDE DEF left, right, head
  <2>1. len = left + n + right /\ next = page + n
    OBVIOUS
  <2> HIDE DEF len, next
  <2> QED
    BY <1>2, <1>5, <1>6, <1>7, <2>1, Numbers
<1> HIDE DEF next, right, left, head, len, rest
<1>11. slab' \in [Pages -> Nat] /\ prev' \in [Pages -> Nat]
  <2>1. \A q \in Pages : slab'[q] \in Nat /\ prev'[q] \in Nat
    <3> TAKE q \in Pages
    <3>1. slab[q] \in Nat /\ prev[q] \in Nat /\ FREE \in Nat
      BY Numbers DEF TypeOK
    <3> HIDE DEF Cleared
    <3> QED
      BY <1>7, <1>9, <1>10, <3>1
  <2>2. slab' = [q \in Pages |-> slab'[q]] /\ prev' = [q \in Pages |-> prev'[q]]
    BY <1>1
  <2> QED
    BY <2>1, <2>2
\* Another run stays as it is, and apart from the new one.
<1>12. ASSUME NEW h \in Firsts, h # head, h # next
       PROVE  /\ h \in Pages /\ slab[h] \in Nat /\ slab[h] >= 1
              /\ h + slab[h] < head \/ next + right < h
  <2>1. h \in Pages /\ slab[h] \in Nat /\ slab[h] >= 1 /\ h \in Nat
    BY RunOf, Numbers
  <2>2. h < page => h + slab[h] < head
    <3>1. ASSUME h < page PROVE h + slab[h] < head
      <4>1. CASE left > 0
        <5>1. head \in Firsts /\ slab[head] = left /\ head + left = page
          BY <1>6, <4>1
        <5>2. ~(head < h)
          <6>1. head < h => head + slab[head] < h
            BY <5>1, RunsApart
          <6> QED
            BY <1>2, <1>6, <2>1, <3>1, <5>1, <6>1
        <5>3. h < head
          BY <1>7, <1>12, <2>1, <5>2
        <5> QED
          BY <5>1, <5>3, RunsApart
      <4>2. CASE ~(left > 0)
        <5>1. head = page /\ h + slab[h] # page
          BY <1>6, <4>2
        <5>2. ~(page >= h /\ page < h + slab[h])
          BY <1>3, RunOf
        <5> QED
          BY <1>2, <2>1, <3>1, <5>1, <5>2
      <4> QED
        BY <4>1, <4>2
    <3> QED
      BY <3>1
  <2>3. h >= page => next + right < h
    <3>1. ASSUME h >= page PROVE next + right < h
      <4>1. ~(h < page + n)
        <5>1. ~Taken(h)
          BY <2>1, RunOf, Numbers
        <5> QED
          BY <2>1, <3>1, <5>1
      <4>2. h > next
        BY <1>2, <1>12, <2>1, <4>1 DEF next
      <4>3. next + right # h
        BY <1>5
      <4>4. CASE next \in Firsts
        BY <1>4, <4>2, <4>4, RunsApart
      <4>5. CASE next \notin Firsts
        BY <1>2, <1>4, <2>1, <4>2, <4>5
      <4> QED
        BY <4>4, <4>5
    <3> QED
      BY <3>1
  <2> QED
    BY <1>2, <2>1, <2>2, <2>3
<1>13. ASSUME NEW q \in Pages, q < head \/ q >= next + right
       PROVE  ~Cleared(q) /\ q # head /\ slab'[q] = slab[q] /\ type'[q] = type[q]
  <2>1. q \in Nat /\ q # head /\ ~(q >= page /\ q < next) /\ (next \in Firsts => q # next)
    BY <1>2, <1>5, <1>6, <1>7, <1>13, Numbers
  <2>2. ~(q >= page /\ q < page + n)
    BY <2>1 DEF next
  <2> QED
    BY <1>9, <2>1, <2>2
<1>14. ASSUME NEW q \in Pages, q > head, q < next + right
       PROVE  type'[q] = PAGE /\ slab'[q] = FREE
  <2>1. q \in Nat
    BY Numbers
  <2>2. CASE q < page
    <3>1. ~(q >= page /\ q < page + n) /\ type[q] = PAGE /\ slab[q] = FREE
      BY <1>2, <1>6, <1>14, <2>1, <2>2
    <3>2. slab'[q] = FREE
      BY <1>7, <1>9, <1>14, <2>1, <3>1
    <3> QED
      BY <3>1, <3>2
  <2>3. CASE q >= page /\ q < next
    BY <1>7, <1>9, <1>14, <2>1, <2>3 DEF next
  <2>4. CASE q >= next
    <3>1. next \in Firsts
      BY <1>2, <1>4, <1>14, <2>1, <2>4
    <3>2. type[q] = PAGE /\ (q = next \/ slab[q] = FREE)
      BY <1>2, <1>5, <1>14, <2>1, <2>4, <3>1, RunOf
    <3>3. type'[q] = PAGE
      BY <1>2, <2>1, <2>4, <3>2 DEF next
    <3> QED
      BY <1>7, <1>9, <1>14, <2>1, <3>1, <3>2, <3>3
  <2> QED
    BY <1>2, <2>1, <2>2, <2>3, <2>4
<1>15. type'[head] = PAGE /\ slab'[head] = len
  <2>1. type'[head] = PAGE
    <3>1. CASE left > 0
      <4>1. type[head] = PAGE
        BY <1>6, <3>1, RunOf
      <4> QED
        BY <1>6, <4>1
    <3>2. CASE ~(left > 0)
      <4>1. head = page
        BY <1>6, <3>2
      <4> QED
        BY <1>2, <1>6, <4>1 DEF next
    <3> QED
      BY <3>1, <3>2
  <2> QED
    BY <1>6, <1>9, <2>1
<1>16. ASSUME NEW h \in Firsts'
       PROVE  /\ type'[h] = PAGE /\ slab'[h] \in 1..N /\ h + slab'[h] <= N + 1
              /\ \A q \in (h + 1)..(h + slab'[h] - 1) : type'[q] = PAGE /\ slab'[q] = FREE
              /\ slab'[h] > 1 /\ h + slab'[h] <= N => prev'[h + slab'[h] - 1] = h
              /\ h + slab'[h] \notin Firsts'
  <2>1. CASE h = head
    <3>1. ASSUME NEW q \in (head + 1)..(head + len - 1)
          PROVE  type'[q] = PAGE /\ slab'[q] = FREE
      <4>1. q \in Pages /\ q > head /\ q < next + right
        BY <1>5, <1>6, <1>7, <1>10, Numbers
      <4> QED
        BY <1>14, <4>1
    <3>2. len > 1 => prev'[head + len - 1] = head
      <4>1. head + len - 1 \in Pages
        BY <1>5, <1>6, <1>7, <1>10, Numbers
      <4> QED
        BY <1>9, <4>1
    <3>3. head + len \notin Firsts'
      BY <1>5, <1>7, <1>8, <1>10
    <3>4. len \in 1..N /\ head + len <= N + 1
      BY <1>5, <1>10, Numbers
    <3> QED
      BY <1>15, <2>1, <3>1, <3>2, <3>3, <3>4
  <2>2. CASE h # head
    <3>1. h \in Firsts /\ h # next
      BY <1>8, <1>16, <2>2
    <3>2. /\ h \in Pages /\ type[h] = PAGE /\ slab[h] \in Nat
          /\ slab[h] >= 1 /\ slab[h] <= N /\ h + slab[h] <= N + 1
          /\ \A q \in Pages : q > h /\ q < h + slab[h] => type[q] = PAGE /\ slab[q] = FREE
          /\ slab[h] > 1 /\ h + slab[h] <= N => prev[h + slab[h] - 1] = h
          /\ h + slab[h] \notin Firsts
      BY <3>1, RunOf
    <3>3. h + slab[h] < head \/ next + right < h
      BY <1>12, <2>2, <3>1
    <3>4. type'[h] = PAGE /\ slab'[h] = slab[h]
      <4>1. h < head \/ h >= next + right
        BY <1>2, <1>5, <1>7, <3>2, <3>3, Numbers
      <4> QED
        BY <1>13, <3>2, <4>1
    <3>5. ASSUME NEW q \in (h + 1)..(h + slab[h] - 1)
          PROVE  type'[q] = PAGE /\ slab'[q] = FREE
      <4>1. q \in Pages /\ q > h /\ q < h + slab[h]
        BY <3>2, Numbers
      <4>2. q < head \/ q >= next + right
        BY <1>2, <1>5, <1>7, <3>2, <3>3, <4>1, Numbers
      <4> QED
        BY <1>13, <3>2, <4>1, <4>2
    <3>6. slab[h] > 1 /\ h + slab[h] <= N => prev'[h + slab[h] - 1] = h
      <4>1. ASSUME slab[h] > 1, h + slab[h] <= N PROVE prev'[h + slab[h] - 1] = h
        <5> DEFINE q == h + slab[h] - 1
        <5>1. /\ q \in Pages /\ (q < head \/ q >= next + right) /\ q # head + len - 1
              /\ prev[q] = h
          BY <1>2, <1>5, <1>7, <1>10, <3>2, <3>3, <4>1, Numbers
        <5> HIDE DEF q
        <5>2. ~Cleared(q) /\ q # head
          BY <1>13, <5>1
        <5>3. prev'[q] = prev[q]
          BY <1>9, <5>1, <5>2
        <5> QED
          BY <5>1, <5>3 DEF q
      <4> QED
        BY <4>1
    <3>7. h + slab[h] # head
      BY <1>2, <1>5, <1>6, <1>7, <3>2, <3>3, Numbers
    <3>8. h + slab[h] \notin Firsts'
      BY <1>8, <3>2, <3>7
    <3> QED
      BY <3>2, <3>4, <3>5, <3>6, <3>8, Numbers
  <2> QED
    BY <2>1, <2>2
<1>17. ASSUME NEW q \in Pages, ~Taken(q)'
       PROVE  \E h \in Firsts' : q \in h..(h + slab'[h] - 1)
  <2>1. q \in Nat
    BY Numbers
  <2>2. CASE q >= head /\ q < next + right
    BY <1>7, <1>8, <1>10, <1>15, <2>1, <2>2
  <2>3. CASE ~(q >= head /\ q < next + right)
    <3>1. q < head \/ q >= next + right
      BY <1>2, <1>5, <1>7, <2>1, <2>3
    <3>2. ~Taken(q)
      BY <1>13, <1>17, <3>1 DEF Taken
    <3>3. PICK h \in Firsts : q >= h /\ q < h + slab[h]
      BY <3>2, RunAt
    <3>4. h \in Nat /\ slab[h] \in Nat
      BY RunOf, Numbers
    <3>5. h # head /\ h # next
      BY <1>2, <1>4, <1>5, <1>6, <1>7, <2>1, <3>1, <3>3, <3>4
    <3>6. h + slab[h] < head \/ next + right < h
      BY <1>12, <3>5
    <3>7. h \in Firsts' /\ slab'[h] = slab[h]
      <4>1. h \in Pages /\ (h < head \/ h >= next + right)
        BY <1>2, <1>5, <1>7, <3>4, <3>6, RunOf
      <4> QED
        BY <1>8, <1>13, <3>5, <4>1
    <3> QED
      BY <2>1, <3>3, <3>4, <3>7
  <2> QED
    BY <2>2, <2>3
<1>18. RunInv'
  BY <1>8, <1>16, <1>17 DEF RunInv
<1>19. ASSUME NEW q \in Pages, q >= head, q < next + right
       PROVE  ~Taken(q)'
  <2>1. q \in Nat
    BY Numbers
  <2>2. CASE q = head
    BY <1>10, <1>15, <2>2, Numbers DEF Taken
  <2>3. CASE q # head
    BY <1>7, <1>14, <1>19, <2>1, <2>3, Numbers DEF Taken
  <2> QED
    BY <2>2, <2>3
<1>20. ASSUME NEW q \in Pages, Taken(q), ~(q >= page /\ q < page + n)
       PROVE  slab'[q] = slab[q] /\ type'[q] = type[q]
  <2>1. q \in Nat
    BY Numbers
  <2>2. q < head \/ q >= next + right
    <3>1. ~(q >= next /\ q < next + right)
      <4>1. CASE next \in Firsts
        BY <1>4, <1>20, <4>1, RunOf
      <4>2. CASE next \notin Firsts
        BY <1>2, <1>4, <2>1, <4>2
      <4> QED
        BY <4>1, <4>2
    <3>2. ~(q >= head /\ q < page)
      <4>1. CASE left > 0
        BY <1>6, <1>20, <4>1, RunOf
      <4>2. CASE ~(left > 0)
        BY <1>2, <1>6, <2>1, <4>2
      <4> QED
        BY <4>1, <4>2
    <3> QED
      BY <1>2, <1>5, <1>7, <1>20, <2>1, <3>1, <3>2 DEF next
  <2> QED
    BY <1>13, <2>2
<1>21. ASSUME NEW q \in Pages, ~Taken(q) \/ (q >= page /\ q < page + n)
       PROVE  ~Taken(q)'
  <2>1. q \in Nat
    BY Numbers
  <2>2. CASE q >= head /\ q < next + right
    BY <1>19, <2>2
  <2>3. CASE ~(q >= head /\ q < next + right)
    <3>1. q < head \/ q >= next + right
      BY <1>2, <1>5, <1>7, <2>1, <2>3
    <3>2. ~(q >= page /\ q < page + n)
      BY <1>2, <1>5, <1>6, <1>7, <2>1, <3>1 DEF next
    <3> QED
      BY <1>13, <1>21, <3>1, <3>2 DEF Taken
  <2> QED
    BY <2>2, <2>3
<1> QED
  BY <1>8, <1>11, <1>18, <1>20, <1>21

-----------------------------------------------------------------------------
(* Blocks and chunks *)

\* What one page or block says, spelled out
LEMMA BlockAt ==
    ASSUME TypeOK, BlockInv, NEW p \in Pages, FirstOfBlock(p)
    PROVE  /\ Length(p) \in Nat /\ Length(p) >= 1 /\ Length(p) <= N
           /\ p + Length(p) <= N + 1 /\ slab[p] = START + Length(p)
           /\ \A q \in Pages : q > p /\ q < p + Length(p) => type[q] = PAGE /\ slab[q] = BUSY
           /\ \A q \in Pages : q >= p /\ q < p + Length(p) => type[q] = PAGE /\ Taken(q)
<1>1. /\ Length(p) \in 1..N /\ p + Length(p) <= N + 1
      /\ \A q \in (p + 1)..(p + Length(p) - 1) : type[q] = PAGE /\ slab[q] = BUSY
  BY DEF BlockInv
<1>2. slab[p] \in Nat /\ slab[p] = START + Length(p) /\ type[p] = PAGE
  BY Numbers DEF TypeOK, Length, FirstOfBlock
<1>3. ASSUME NEW q \in Pages, q > p, q < p + Length(p)
      PROVE  type[q] = PAGE /\ slab[q] = BUSY
  BY <1>1, <1>3, Numbers
<1>4. ASSUME NEW q \in Pages, q >= p, q < p + Length(p)
      PROVE  type[q] = PAGE /\ Taken(q)
  <2>1. CASE q = p
    BY <1>1, <1>2, <2>1, Numbers DEF Taken
  <2>2. CASE q # p
    BY <1>3, <1>4, <2>2, Numbers DEF Taken
  <2> QED
    BY <2>1, <2>2
<1> QED
  BY <1>1, <1>2, <1>3, <1>4, Numbers

LEMMA BlocksApart ==
    ASSUME TypeOK, BlockInv, NEW p \in Pages, NEW r \in Pages,
           FirstOfBlock(p), FirstOfBlock(r), p < r
    PROVE  p + Length(p) <= r
<1>1. Length(p) \in Nat /\ ~(r > p /\ r < p + Length(p))
  BY BlockAt DEF FirstOfBlock
<1> QED
  BY <1>1, Numbers

LEMMA SlotNumbers ==
    ASSUME NEW s \in Slots
    PROVE  /\ s \in Nat /\ s >= 1 /\ Chunks(s) \in Nat /\ Reserved(s) \in Nat
           /\ Chunks(s) * s = PageSize /\ Reserved(s) + 1 < Chunks(s)
<1>1. s \in Nat \ {0} /\ s * Chunks(s) = PageSize /\ Reserved(s) + 1 < Chunks(s)
  BY SlabAssumption DEF SlabAssumption
<1>2. Chunks(s) \in Nat
  BY <1>1, Numbers, Division DEF Chunks
<1>3. s * 8 \in Nat \ {0}
  BY <1>1
<1>4. Chunks(s) \div (s * 8) \in Nat
  BY <1>2, <1>3, Division
<1>5. Reserved(s) \in Nat
  BY <1>4 DEF Reserved
<1>6. Chunks(s) * s = PageSize
  BY <1>1, <1>2
<1> QED
  BY <1>1, <1>2, <1>5, <1>6

\* Chunks with the same offset are the same.
LEMMA SameChunk ==
    ASSUME NEW s \in Slots, NEW n \in Nat, NEW m \in Nat, n * s = m * s
    PROVE  n = m
<1>1. s \in Nat \ {0}
  BY Numbers
<1>2. (n * s) \div s = n
  BY <1>1, DivisionOfProduct
<1>3. (m * s) \div s = m
  BY <1>1, DivisionOfProduct
<1> QED
  BY <1>2, <1>3

LEMMA CutPage ==
    ASSUME TypeOK, SlotInv, NEW p \in Pages, type[p] # PAGE
    PROVE  /\ type[p] \in Slots
           /\ \A n \in busy[p] : n \in Nat /\ n < Chunks(type[p])
           /\ \A n \in Nat : n < Reserved(type[p]) => n \in busy[p]
           /\ \E n \in busy[p] : n >= Reserved(type[p])
           /\ p \in ToSet(list[type[p]]) <=> ~IsFull(busy[p], type[p])
<1>1. /\ type[p] \in Slots
      /\ busy[p] \subseteq 0..(Chunks(type[p]) - 1)
      /\ 0..(Reserved(type[p]) - 1) \subseteq busy[p]
      /\ ~IsUnused(busy[p], type[p])
      /\ p \in ToSet(list[type[p]]) <=> ~IsFull(busy[p], type[p])
  BY DEF SlotInv
<1>2. Chunks(type[p]) \in Nat /\ Reserved(type[p]) \in Nat
  BY <1>1, SlotNumbers
<1>3. ASSUME NEW n \in busy[p] PROVE n \in Nat /\ n < Chunks(type[p])
  BY <1>1, <1>2
<1>4. ASSUME NEW n \in Nat, n < Reserved(type[p]) PROVE n \in busy[p]
  BY <1>1, <1>2, <1>4
<1>5. \E n \in busy[p] : n >= Reserved(type[p])
  BY <1>1, <1>2, <1>3 DEF IsUnused
<1> QED
  BY <1>1, <1>3, <1>4, <1>5

\* A page on a slot's list has a free chunk.
LEMMA ListedPage ==
    ASSUME TypeOK, SlotInv, NEW s \in Slots, NEW p \in ToSet(list[s])
    PROVE  /\ p \in Pages /\ type[p] = s /\ s # PAGE
           /\ ~IsFull(busy[p], s)
           /\ \E n \in 0..(Chunks(s) - 1) : n \notin busy[p]
<1>1. p \in Pages
  BY InList DEF TypeOK
<1>2. type[p] = s /\ s # PAGE
  BY Numbers DEF SlotInv
<1>3. ~IsFull(busy[p], s) /\ busy[p] \subseteq 0..(Chunks(s) - 1)
  BY <1>1, <1>2 DEF SlotInv
<1> QED
  BY <1>1, <1>2, <1>3 DEF IsFull

LEMMA HolderOf ==
    ASSUME TypeOK, BlockInv, SlotInv, HeldInv, NEW c \in Holders
    PROVE  /\ c \in Clients /\ held[c].page \in Pages /\ held[c].off \in Nat
           /\ held[c].size \in Nat /\ held[c].size >= 1 /\ held[c].size \in Requests
           /\ Taken(held[c].page)
           /\ HoldsRun(c) \/ HoldsChunk(c)
           /\ HoldsRun(c) => type[held[c].page] = PAGE
           /\ HoldsChunk(c) => type[held[c].page] \in Slots /\ type[held[c].page] # PAGE
<1>1. c \in Clients /\ held[c] \in Block
  BY DEF TypeOK, Holders
<1>2. /\ held[c].page \in Pages /\ held[c].size \in Requests
      /\ HoldsRun(c) \/ HoldsChunk(c)
  BY DEF HeldInv
<1>3. HoldsRun(c) => type[held[c].page] = PAGE /\ Taken(held[c].page)
  BY DEF HoldsRun, FirstOfBlock, Taken
<1>4. HoldsChunk(c) => /\ type[held[c].page] \in Slots /\ type[held[c].page] # PAGE
                       /\ Taken(held[c].page)
  BY Numbers DEF HoldsChunk, Taken
<1> QED
  BY <1>1, <1>2, <1>3, <1>4, Numbers DEF Block
-----------------------------------------------------------------------------
(* Calls that hand out *)

LEMMA AfterGive ==
    ASSUME TypeOK, NEW c \in Clients, held[c] = Nothing,
           NEW page \in Pages, NEW off \in Nat, NEW size \in Requests,
           Give(c, page, off, size)
    PROVE  /\ held' \in [Clients -> Block] /\ refused' = 0
           /\ held'[c].page = page /\ held'[c].off = off /\ held'[c].size = size
           /\ \A d \in Clients : d # c => held'[d] = held[d]
           /\ \A d \in Holders' : d = c \/ d \in Holders
           /\ \A d \in Holders : d \in Holders' /\ d # c /\ d \in Clients
           /\ c \in Holders'
<1>1. /\ held \in [Clients -> Block] /\ page \in Nat /\ page >= 1 /\ size \in Nat
  BY Numbers DEF TypeOK
<1>2. /\ held' = [held EXCEPT ![c] = [page |-> page, off |-> off, size |-> size]]
      /\ refused' = 0
  BY DEF Give
<1>3. [page |-> page, off |-> off, size |-> size] \in Block
  BY <1>1 DEF Block
<1>4. /\ held' \in [Clients -> Block]
      /\ held'[c] = [page |-> page, off |-> off, size |-> size]
      /\ \A d \in Clients : d # c => held'[d] = held[d]
  BY <1>1, <1>2, <1>3
<1>5. held'[c].page = page /\ held'[c].off = off /\ held'[c].size = size
  BY <1>4
<1>6. held'[c] # Nothing
  BY <1>1, <1>5 DEF Nothing
<1>7. /\ \A d \in Holders' : d = c \/ d \in Holders
      /\ \A d \in Holders : d \in Holders' /\ d # c /\ d \in Clients
      /\ c \in Holders'
  BY <1>4, <1>6 DEF Holders
<1> QED
  BY <1>2, <1>4, <1>5, <1>7

LEMMA RunAllocated ==
    ASSUME SlabInv, NEW c \in Clients, held[c] = Nothing,
           NEW size \in Requests, size > MaxSize,
           NEW page \in ToSet(free), Fits(page, PagesFor(size)),
           AllocPages(page, PagesFor(size)), Give(c, page, 0, size),
           UNCHANGED <<type, busy, list, alert>>
    PROVE  SlabInv'
<1> DEFINE n == PagesFor(size)
<1>1. /\ TypeOK /\ RunInv /\ BlockInv /\ SlotInv /\ HeldInv
      /\ type' = type /\ busy' = busy /\ list' = list /\ alert' = alert /\ ~alert
      /\ type \in [Pages -> Nat]
  BY DEF SlabInv, TypeOK
<1>2. n \in Nat \ {0} /\ page \in Firsts /\ slab[page] >= n
  BY PagesForBounds, Numbers DEF Firsts, Fits
<1>3. /\ page \in Pages /\ page + n <= N + 1 /\ n <= N
      /\ \A q \in Pages : q >= page /\ q < page + n => ~Taken(q)
      /\ slab' \in [Pages -> Nat] /\ prev' \in [Pages -> Nat] /\ free' \in Seq(Pages)
      /\ slab'[page] = START + n
      /\ \A q \in Pages : q > page /\ q < page + n => slab'[q] = BUSY
      /\ \A q \in Pages : Taken(q) => slab'[q] = slab[q] /\ type'[q] = type[q]
      /\ \A q \in Pages : ~Taken(q) /\ ~(q >= page /\ q < page + n) => ~Taken(q)'
      /\ RunInv'
  <2> HIDE DEF n
  <2>1. /\ type' \in [Pages -> Nat] /\ \A q \in Pages : q # page => type'[q] = type[q]
        /\ AllocPages(page, n)
    BY <1>1 DEF n
  <2> QED
    BY <1>1, <1>2, <2>1, AllocKeepsRuns
<1> HIDE DEF n
<1>3a. page \in Nat /\ n \in Nat /\ n >= 1 /\ page >= 1 /\ page + n <= N + 1
  BY <1>2, <1>3, Numbers
<1>4. /\ held' \in [Clients -> Block] /\ refused' = 0
      /\ held'[c].page = page /\ held'[c].off = 0 /\ held'[c].size = size
      /\ \A d \in Clients : d # c => held'[d] = held[d]
      /\ \A d \in Holders' : d = c \/ d \in Holders
      /\ \A d \in Holders : d \in Holders' /\ d # c /\ d \in Clients
      /\ c \in Holders'
  <2>1. 0 \in Nat
    OBVIOUS
  <2> QED
    BY <1>1, <1>3, <2>1, AfterGive, Zenon
<1>5. TypeOK'
  BY <1>1, <1>3, <1>4 DEF TypeOK
<1>6. ~Taken(page) /\ type[page] = PAGE /\ FirstOfBlock(page)' /\ Length(page)' = n
  <2>0. page >= page /\ page < page + n
    BY <1>2, <1>3, Numbers
  <2>1. ~Taken(page)
    BY <1>3, <2>0
  <2>2. type[page] = PAGE
    BY <2>1 DEF Taken
  <2>3. slab'[page] = N + 1 + n
    BY <1>3, Numbers
  <2> QED
    BY <1>1, <1>2, <1>3, <2>1, <2>2, <2>3, Numbers DEF FirstOfBlock, Length
<1>7. ASSUME NEW p \in Pages, FirstOfBlock(p)', p # page
      PROVE  Taken(p) /\ FirstOfBlock(p) /\ Length(p)' = Length(p)
  <2>1. Taken(p)'
    BY <1>7 DEF FirstOfBlock, Taken
  <2>2. ~(p >= page /\ p < page + n)
    BY <1>3, <1>7, Numbers DEF FirstOfBlock
  <2>3. Taken(p)
    BY <1>3, <2>1, <2>2
  <2> QED
    BY <1>3, <1>7, <2>3 DEF FirstOfBlock, Length
<1>8. ASSUME NEW p \in Pages, FirstOfBlock(p)
      PROVE  FirstOfBlock(p)' /\ Length(p)' = Length(p) /\ p # page
  BY <1>3, <1>6, <1>8 DEF FirstOfBlock, Taken, Length
<1>9. BlockInv'
  <2>1. ASSUME NEW p \in Pages, FirstOfBlock(p)'
        PROVE  /\ Length(p)' \in 1..N /\ p + Length(p)' <= N + 1
               /\ \A q \in (p + 1)..(p + Length(p)' - 1) : type'[q] = PAGE /\ slab'[q] = BUSY
    <3>1. CASE p = page
      <4>1. ASSUME NEW q \in (page + 1)..(page + n - 1)
            PROVE  type'[q] = PAGE /\ slab'[q] = BUSY
        <5>1. q \in Pages /\ q > page /\ q < page + n
          BY <1>3a, Numbers
        <5>2. ~Taken(q)
          BY <1>3, <5>1, Numbers
        <5> QED
          BY <1>1, <1>3, <5>1, <5>2 DEF Taken
      <4> QED
        BY <1>2, <1>3, <1>6, <3>1, <4>1, Numbers
    <3>2. CASE p # page
      <4>1. FirstOfBlock(p) /\ Length(p)' = Length(p)
        BY <1>7, <2>1, <3>2
      <4>2. /\ Length(p) \in 1..N /\ p + Length(p) <= N + 1
            /\ \A q \in (p + 1)..(p + Length(p) - 1) : type[q] = PAGE /\ slab[q] = BUSY
        BY <1>1, <4>1 DEF BlockInv
      <4>3. ASSUME NEW q \in (p + 1)..(p + Length(p) - 1)
            PROVE  type'[q] = PAGE /\ slab'[q] = BUSY
        <5>1. q \in Pages /\ type[q] = PAGE /\ slab[q] = BUSY
          BY <4>2, Numbers
        <5>2. Taken(q)
          BY <5>1, Numbers DEF Taken
        <5> QED
          BY <1>3, <5>1, <5>2
      <4> QED
        BY <4>1, <4>2, <4>3
    <3> QED
      BY <3>1, <3>2
  <2>2. ASSUME NEW q \in Pages, type'[q] = PAGE, slab'[q] = BUSY
        PROVE  \E p \in Pages : FirstOfBlock(p)' /\ q \in p..(p + Length(p)' - 1)
    <3>1. CASE q >= page /\ q < page + n
      <4>1. q \in page..(page + n - 1)
        BY <1>3a, <3>1, Numbers
      <4> QED
        BY <1>3, <1>6, <4>1
    <3>2. CASE ~(q >= page /\ q < page + n)
      <4>1. Taken(q)'
        BY <2>2, Numbers DEF Taken
      <4>2. Taken(q)
        BY <1>3, <3>2, <4>1
      <4>3. type[q] = PAGE /\ slab[q] = BUSY
        BY <1>3, <2>2, <4>2
      <4>4. PICK p \in Pages : FirstOfBlock(p) /\ q \in p..(p + Length(p) - 1)
        BY <1>1, <4>3 DEF BlockInv
      <4> QED
        BY <1>8, <4>4
    <3> QED
      BY <3>1, <3>2
  <2> QED
    BY <2>1, <2>2 DEF BlockInv
<1>10. SlotInv'
  BY <1>1 DEF SlotInv
<1>11. ASSUME NEW d \in Holders
       PROVE  /\ held'[d] = held[d] /\ held[d].page # page
              /\ HoldsRun(d)' \/ HoldsChunk(d)'
  <2>1. held'[d] = held[d]
    BY <1>4
  <2>2. /\ held[d].page \in Pages /\ Taken(held[d].page)
        /\ HoldsRun(d) \/ HoldsChunk(d)
    BY <1>1, HolderOf
  <2>3. HoldsRun(d) => HoldsRun(d)'
    BY <1>8, <2>1, <2>2 DEF HoldsRun
  <2>4. HoldsChunk(d) => HoldsChunk(d)'
    BY <1>1, <2>1 DEF HoldsChunk
  <2> QED
    BY <1>6, <2>1, <2>2, <2>3, <2>4
<1>12. HeldInv'
  <2>1. ASSUME NEW d \in Holders'
        PROVE  /\ held'[d].page \in Pages /\ held'[d].size \in Requests
               /\ HoldsRun(d)' \/ HoldsChunk(d)'
    <3>1. CASE d = c
      <4>1. HoldsRun(c)'
        BY <1>4, <1>6 DEF HoldsRun, n
      <4> QED
        BY <1>3, <1>4, <3>1, <4>1
    <3>2. CASE d # c
      BY <1>1, <1>4, <1>11, <3>2, HolderOf
    <3> QED
      BY <3>1, <3>2
  <2>2. ASSUME NEW d \in Holders', NEW e \in Holders',
               held'[d].page = held'[e].page, held'[d].off = held'[e].off
        PROVE  d = e
    <3>1. CASE d \in Holders /\ e \in Holders
      BY <1>1, <1>11, <2>2, <3>1 DEF HeldInv
    <3>2. CASE d \notin Holders \/ e \notin Holders
      BY <1>4, <1>11, <2>2, <3>2
    <3> QED
      BY <3>1, <3>2
  <2>3. ASSUME NEW p \in Pages, FirstOfBlock(p)'
        PROVE  \E d \in Holders' : held'[d].page = p
    <3>1. CASE p = page
      BY <1>4, <3>1
    <3>2. CASE p # page
      <4>1. PICK d \in Holders : held[d].page = p
        BY <1>1, <1>7, <2>3, <3>2 DEF HeldInv
      <4> QED
        BY <1>4, <1>11, <4>1
    <3> QED
      BY <3>1, <3>2
  <2>4. ASSUME NEW p \in Pages, type'[p] # PAGE, NEW m \in busy'[p], m >= Reserved(type'[p])
        PROVE  \E d \in Holders' : held'[d].page = p /\ held'[d].off = m * type'[p]
    <3>1. PICK d \in Holders : held[d].page = p /\ held[d].off = m * type[p]
      BY <1>1, <2>4 DEF HeldInv
    <3> QED
      BY <1>1, <1>4, <1>11, <3>1
  <2> QED
    BY <2>1, <2>2, <2>3, <2>4 DEF HeldInv
<1>13. RefusedInv'
  BY <1>4 DEF RefusedInv
<1> QED
  BY <1>1, <1>3, <1>5, <1>9, <1>10, <1>12, <1>13 DEF SlabInv
\* A block's pages are used whole or not at all, so a step that leaves the taken
\* pages alone leaves blocks alone.
LEMMA BlocksStay ==
    ASSUME TypeOK, BlockInv,
           \A q \in Pages : Taken(q) => slab'[q] = slab[q] /\ type'[q] = type[q],
           \A q \in Pages : ~Taken(q) => ~FirstOfBlock(q)' /\ ~(type'[q] = PAGE /\ slab'[q] = BUSY)
    PROVE  /\ BlockInv'
           /\ \A p \in Pages : FirstOfBlock(p) <=> FirstOfBlock(p)'
           /\ \A p \in Pages : FirstOfBlock(p) => Length(p)' = Length(p)
<1>1. ASSUME NEW p \in Pages, FirstOfBlock(p)
      PROVE  FirstOfBlock(p)' /\ Length(p)' = Length(p)
  BY <1>1 DEF FirstOfBlock, Taken, Length
<1>2. ASSUME NEW p \in Pages, FirstOfBlock(p)'
      PROVE  FirstOfBlock(p)
  <2>1. Taken(p)
    BY <1>2
  <2> QED
    BY <1>2, <2>1 DEF FirstOfBlock
<1>3. ASSUME NEW q \in Pages, type[q] = PAGE, slab[q] = BUSY
      PROVE  type'[q] = PAGE /\ slab'[q] = BUSY
  <2>1. Taken(q)
    BY <1>3, Numbers DEF Taken
  <2> QED
    BY <1>3, <2>1
<1>4. ASSUME NEW q \in Pages, type'[q] = PAGE, slab'[q] = BUSY
      PROVE  type[q] = PAGE /\ slab[q] = BUSY
  <2>1. Taken(q)
    BY <1>4
  <2> QED
    BY <1>4, <2>1
<1>5. ASSUME NEW p \in Pages, FirstOfBlock(p)'
      PROVE  /\ Length(p)' \in 1..N /\ p + Length(p)' <= N + 1
             /\ \A q \in (p + 1)..(p + Length(p)' - 1) : type'[q] = PAGE /\ slab'[q] = BUSY
  <2>1. FirstOfBlock(p) /\ Length(p)' = Length(p)
    BY <1>1, <1>2, <1>5
  <2>2. /\ Length(p) \in 1..N /\ p + Length(p) <= N + 1
        /\ \A q \in (p + 1)..(p + Length(p) - 1) : type[q] = PAGE /\ slab[q] = BUSY
    BY <2>1 DEF BlockInv
  <2>3. ASSUME NEW q \in (p + 1)..(p + Length(p) - 1)
        PROVE  type'[q] = PAGE /\ slab'[q] = BUSY
    <3>1. q \in Pages
      BY <2>2, Numbers
    <3> QED
      BY <1>3, <2>2, <3>1
  <2> QED
    BY <2>1, <2>2, <2>3
<1>6. ASSUME NEW q \in Pages, type'[q] = PAGE, slab'[q] = BUSY
      PROVE  \E p \in Pages : FirstOfBlock(p)' /\ q \in p..(p + Length(p)' - 1)
  <2>1. PICK p \in Pages : FirstOfBlock(p) /\ q \in p..(p + Length(p) - 1)
    BY <1>4, <1>6 DEF BlockInv
  <2> QED
    BY <1>1, <2>1
<1>7. BlockInv'
  BY <1>5, <1>6 DEF BlockInv
<1> QED
  BY <1>1, <1>2, <1>7

LEMMA PageCut ==
    ASSUME SlabInv, NEW c \in Clients, held[c] = Nothing,
           NEW size \in Requests, size <= MaxSize,
           NEW s \in Slots, SlotFor(s, size), list[s] = <<>>,
           NEW page \in ToSet(free), Fits(page, 1), AllocPages(page, 1),
           type' = [type EXCEPT ![page] = s],
           busy' = [busy EXCEPT ![page] = FirstBusy(s)],
           list' = [list EXCEPT ![s] = <<page>>],
           Give(c, page, Reserved(s) * s, size), alert' = alert
    PROVE  SlabInv'
<1>1. /\ TypeOK /\ RunInv /\ BlockInv /\ SlotInv /\ HeldInv /\ ~alert
      /\ type \in [Pages -> Nat] /\ busy \in [Pages -> SUBSET Nat]
      /\ list \in [Slots -> Seq(Pages)]
  BY DEF SlabInv, TypeOK
<1>2. page \in Firsts /\ slab[page] >= 1 /\ page \in Pages
  <2>1. page \in Firsts /\ slab[page] >= 1
    BY DEF Firsts, Fits
  <2> QED
    BY <1>1, <2>1, RunOf
<1>3. /\ s \in Nat /\ s >= 1 /\ s # PAGE /\ Chunks(s) \in Nat /\ Reserved(s) \in Nat
      /\ Reserved(s) + 1 < Chunks(s) /\ Reserved(s) * s \in Nat
  <2>1. /\ s \in Nat /\ s >= 1 /\ Chunks(s) \in Nat /\ Reserved(s) \in Nat
        /\ Reserved(s) + 1 < Chunks(s)
    BY SlotNumbers
  <2>2. Reserved(s) * s \in Nat
    BY <2>1, ProductMonotone
  <2> QED
    BY <2>1, <2>2, Numbers
<1>4. /\ type' \in [Pages -> Nat] /\ type'[page] = s
      /\ \A q \in Pages : q # page => type'[q] = type[q]
      /\ busy'[page] = FirstBusy(s)
      /\ \A q \in Pages : q # page => busy'[q] = busy[q]
      /\ list' \in [Slots -> Seq(Pages)] /\ list'[s] = <<page>>
      /\ \A t \in Slots : t # s => list'[t] = list[t]
  BY <1>1, <1>2, <1>3
<1>5. /\ \A q \in Pages : q >= page /\ q < page + 1 => ~Taken(q)
      /\ slab' \in [Pages -> Nat] /\ prev' \in [Pages -> Nat] /\ free' \in Seq(Pages)
      /\ \A q \in Pages : Taken(q) => slab'[q] = slab[q] /\ type'[q] = type[q]
      /\ \A q \in Pages : ~Taken(q) /\ ~(q >= page /\ q < page + 1) => ~Taken(q)'
      /\ RunInv'
  <2>1. 1 \in Nat \ {0}
    OBVIOUS
  <2> QED
    BY <1>1, <1>2, <1>4, <2>1, AllocKeepsRuns
<1>6. /\ ~Taken(page) /\ type[page] = PAGE
      /\ \A q \in Pages : ~Taken(q) /\ q # page => ~Taken(q)'
  <2>1. /\ page >= page /\ page < page + 1
        /\ \A q \in Pages : q # page => ~(q >= page /\ q < page + 1)
    BY <1>2, Numbers
  <2>2. ~Taken(page)
    BY <1>2, <1>5, <2>1
  <2>3. type[page] = PAGE
    BY <2>2 DEF Taken
  <2> QED
    BY <1>5, <2>1, <2>2, <2>3
<1>7. FirstBusy(s) \in SUBSET Nat /\ \A n \in Nat : n \in FirstBusy(s) <=> n <= Reserved(s)
  BY <1>3 DEF FirstBusy
<1>8. /\ held' \in [Clients -> Block] /\ refused' = 0
      /\ held'[c].page = page /\ held'[c].off = Reserved(s) * s /\ held'[c].size = size
      /\ \A d \in Clients : d # c => held'[d] = held[d]
      /\ \A d \in Holders' : d = c \/ d \in Holders
      /\ \A d \in Holders : d \in Holders' /\ d # c /\ d \in Clients
      /\ c \in Holders'
  BY <1>1, <1>2, <1>3, AfterGive, Zenon
<1>9. TypeOK'
  <2>1. busy' \in [Pages -> SUBSET Nat]
    BY <1>1, <1>7
  <2> QED
    BY <1>1, <1>4, <1>5, <1>8, <2>1 DEF TypeOK
<1>10. /\ BlockInv'
       /\ \A p \in Pages : FirstOfBlock(p) <=> FirstOfBlock(p)'
       /\ \A p \in Pages : FirstOfBlock(p) => Length(p)' = Length(p)
  <2>1. ASSUME NEW q \in Pages, ~Taken(q)
        PROVE  ~FirstOfBlock(q)' /\ ~(type'[q] = PAGE /\ slab'[q] = BUSY)
    <3>1. CASE q = page
      BY <1>3, <1>4, <3>1 DEF FirstOfBlock
    <3>2. CASE q # page
      <4>1. ~Taken(q)' /\ BUSY >= START
        BY <1>6, <2>1, <3>2, Numbers
      <4> QED
        BY <4>1 DEF FirstOfBlock, Taken
    <3> QED
      BY <3>1, <3>2
  <2> QED
    BY <1>1, <1>5, <2>1, BlocksStay
<1>11. SlotInv'
  <2>1. ASSUME NEW p \in Pages, type'[p] # PAGE
        PROVE  /\ type'[p] \in Slots
               /\ busy'[p] \subseteq 0..(Chunks(type'[p]) - 1)
               /\ 0..(Reserved(type'[p]) - 1) \subseteq busy'[p]
               /\ ~IsUnused(busy'[p], type'[p])
               /\ p \in ToSet(list'[type'[p]]) <=> ~IsFull(busy'[p], type'[p])
    <3>1. CASE p = page
      <4>1. FirstBusy(s) \subseteq 0..(Chunks(s) - 1) /\ 0..(Reserved(s) - 1) \subseteq FirstBusy(s)
        BY <1>3 DEF FirstBusy
      <4>2. ~IsUnused(FirstBusy(s), s)
        BY <1>3 DEF FirstBusy, IsUnused
      <4>3. ~IsFull(FirstBusy(s), s)
        <5>1. Chunks(s) - 1 \in 0..(Chunks(s) - 1) /\ Chunks(s) - 1 \notin FirstBusy(s)
          BY <1>3 DEF FirstBusy
        <5> QED
          BY <5>1 DEF IsFull
      <4>4. page \in ToSet(<<page>>)
        BY DEF ToSet
      <4> QED
        BY <1>4, <3>1, <4>1, <4>2, <4>3, <4>4
    <3>2. CASE p # page
      <4>1. /\ type[p] \in Slots
            /\ busy[p] \subseteq 0..(Chunks(type[p]) - 1)
            /\ 0..(Reserved(type[p]) - 1) \subseteq busy[p]
            /\ ~IsUnused(busy[p], type[p])
            /\ p \in ToSet(list[type[p]]) <=> ~IsFull(busy[p], type[p])
        BY <1>1, <1>4, <2>1, <3>2 DEF SlotInv
      <4>2. p \notin ToSet(<<page>>) /\ p \notin ToSet(<<>>)
        BY <3>2 DEF ToSet
      <4>3. p \in ToSet(list'[type[p]]) <=> p \in ToSet(list[type[p]])
        BY <1>4, <4>1, <4>2
      <4> QED
        BY <1>4, <3>2, <4>1, <4>3
    <3> QED
      BY <3>1, <3>2
  <2>2. ASSUME NEW t \in Slots
        PROVE  NoDup(list'[t]) /\ \A p \in ToSet(list'[t]) : type'[p] = t
    <3>1. CASE t = s
      BY <1>4, <3>1 DEF NoDup, ToSet
    <3>2. CASE t # s
      <4>1. list'[t] = list[t] /\ NoDup(list[t])
        BY <1>1, <1>4, <3>2 DEF SlotInv
      <4>2. ASSUME NEW p \in ToSet(list[t]) PROVE type'[p] = t
        <5>1. p \in Pages /\ type[p] = t /\ t # PAGE
          BY <1>1, ListedPage
        <5> QED
          BY <1>4, <1>6, <5>1
      <4> QED
        BY <4>1, <4>2
    <3> QED
      BY <3>1, <3>2
  <2> QED
    BY <2>1, <2>2 DEF SlotInv
<1>12. ASSUME NEW d \in Holders
       PROVE  /\ held'[d] = held[d] /\ held[d].page # page
              /\ HoldsRun(d)' \/ HoldsChunk(d)'
  <2>1. held'[d] = held[d]
    BY <1>8
  <2>2. /\ held[d].page \in Pages /\ Taken(held[d].page)
        /\ HoldsRun(d) \/ HoldsChunk(d)
    BY <1>1, HolderOf
  <2>3. held[d].page # page
    BY <1>6, <2>2
  <2>4. HoldsRun(d) => HoldsRun(d)'
    BY <1>10, <2>1, <2>2 DEF HoldsRun
  <2>5. HoldsChunk(d) => HoldsChunk(d)'
    BY <1>4, <2>1, <2>2, <2>3 DEF HoldsChunk
  <2> QED
    BY <2>1, <2>2, <2>3, <2>4, <2>5
<1>13. HeldInv'
  <2>1. ASSUME NEW d \in Holders'
        PROVE  /\ held'[d].page \in Pages /\ held'[d].size \in Requests
               /\ HoldsRun(d)' \/ HoldsChunk(d)'
    <3>1. CASE d = c
      <4>1. Reserved(s) \in Reserved(s)..(Chunks(s) - 1) /\ Reserved(s) \in FirstBusy(s)
        BY <1>3, <1>7
      <4>2. HoldsChunk(c)'
        BY <1>4, <1>8, <4>1 DEF HoldsChunk
      <4> QED
        BY <1>2, <1>8, <3>1, <4>2
    <3>2. CASE d # c
      BY <1>1, <1>8, <1>12, <3>2, HolderOf
    <3> QED
      BY <3>1, <3>2
  <2>2. ASSUME NEW d \in Holders', NEW e \in Holders',
               held'[d].page = held'[e].page, held'[d].off = held'[e].off
        PROVE  d = e
    <3>1. CASE d \in Holders /\ e \in Holders
      BY <1>1, <1>12, <2>2, <3>1 DEF HeldInv
    <3>2. CASE d \notin Holders \/ e \notin Holders
      BY <1>8, <1>12, <2>2, <3>2
    <3> QED
      BY <3>1, <3>2
  <2>3. ASSUME NEW p \in Pages, FirstOfBlock(p)'
        PROVE  \E d \in Holders' : held'[d].page = p
    <3>1. PICK d \in Holders : held[d].page = p
      BY <1>1, <1>10, <2>3 DEF HeldInv
    <3> QED
      BY <1>8, <1>12, <3>1
  <2>4. ASSUME NEW p \in Pages, type'[p] # PAGE, NEW m \in busy'[p], m >= Reserved(type'[p])
        PROVE  \E d \in Holders' : held'[d].page = p /\ held'[d].off = m * type'[p]
    <3>1. CASE p = page
      <4>1. m \in Nat /\ m <= Reserved(s) /\ m >= Reserved(s)
        BY <1>4, <1>7, <2>4, <3>1
      <4>2. m = Reserved(s)
        BY <1>3, <4>1
      <4> QED
        BY <1>4, <1>8, <3>1, <4>2
    <3>2. CASE p # page
      <4>1. PICK d \in Holders : held[d].page = p /\ held[d].off = m * type[p]
        BY <1>1, <1>4, <2>4, <3>2 DEF HeldInv
      <4> QED
        BY <1>4, <1>8, <1>12, <3>2, <4>1
    <3> QED
      BY <3>1, <3>2
  <2> QED
    BY <2>1, <2>2, <2>3, <2>4 DEF HeldInv
<1>14. RefusedInv'
  BY <1>8 DEF RefusedInv
<1> QED
  BY <1>1, <1>5, <1>9, <1>10, <1>11, <1>13, <1>14 DEF SlabInv
LEMMA ChunkAllocated ==
    ASSUME SlabInv, NEW c \in Clients, held[c] = Nothing,
           NEW size \in Requests, size <= MaxSize,
           NEW s \in Slots, SlotFor(s, size), AllocChunk(c, s, size)
    PROVE  SlabInv'
<1> DEFINE page == Head(list[s])
<1>1. /\ TypeOK /\ RunInv /\ BlockInv /\ SlotInv /\ HeldInv /\ ~alert
      /\ busy \in [Pages -> SUBSET Nat] /\ list \in [Slots -> Seq(Pages)]
  BY DEF SlabInv, TypeOK
<1>2. PICK n \in 0..(Chunks(s) - 1) :
         /\ FreeChunk(page, s, n)
         /\ busy' = [busy EXCEPT ![page] = @ \cup {n}]
         /\ list' = [list EXCEPT ![s] = IF IsFull(busy'[page], s) THEN Tail(@) ELSE @]
         /\ Give(c, page, n * s, size)
  BY DEF AllocChunk
<1>3. /\ list[s] # <<>> /\ alert' = alert
      /\ type' = type /\ slab' = slab /\ prev' = prev /\ free' = free
  BY DEF AllocChunk
<1>4. /\ NoDup(list[s]) /\ page \in ToSet(list[s])
      /\ Tail(list[s]) \in Seq(Pages) /\ NoDup(Tail(list[s]))
      /\ ToSet(Tail(list[s])) = ToSet(list[s]) \ {page}
  <2>1. list[s] \in Seq(Pages) /\ NoDup(list[s])
    BY <1>1 DEF SlotInv
  <2> QED
    BY <1>3, <2>1, RestOfList
<1>5. page \in Pages /\ type[page] = s /\ s # PAGE /\ ~IsFull(busy[page], s)
  BY <1>1, <1>4, ListedPage
<1> HIDE DEF page
<1>6. /\ n \in Nat /\ n <= Chunks(s) - 1 /\ n \notin busy[page] /\ n * s \in Nat
      /\ Reserved(s) \in Nat /\ Reserved(s) <= n
  <2>1. Chunks(s) \in Nat /\ Reserved(s) \in Nat /\ s \in Nat
    BY SlotNumbers
  <2>2. n \in Nat /\ n <= Chunks(s) - 1
    BY <2>1
  <2>3. n \notin busy[page]
    BY <1>2 DEF FreeChunk
  <2>4. \A m \in Nat : m < Reserved(s) => m \in busy[page]
    BY <1>1, <1>5, CutPage
  <2> QED
    BY <2>1, <2>2, <2>3, <2>4, ProductMonotone
<1>7. /\ busy' \in [Pages -> SUBSET Nat] /\ busy'[page] = busy[page] \cup {n}
      /\ \A q \in Pages : q # page => busy'[q] = busy[q]
  BY <1>1, <1>2, <1>5, <1>6
<1>8. /\ list' \in [Slots -> Seq(Pages)]
      /\ list'[s] = IF IsFull(busy'[page], s) THEN Tail(list[s]) ELSE list[s]
      /\ \A t \in Slots : t # s => list'[t] = list[t]
  BY <1>1, <1>2, <1>4
<1>9. /\ held' \in [Clients -> Block] /\ refused' = 0
      /\ held'[c].page = page /\ held'[c].off = n * s /\ held'[c].size = size
      /\ \A d \in Clients : d # c => held'[d] = held[d]
      /\ \A d \in Holders' : d = c \/ d \in Holders
      /\ \A d \in Holders : d \in Holders' /\ d # c /\ d \in Clients
      /\ c \in Holders'
  BY <1>1, <1>2, <1>5, <1>6, AfterGive, Zenon
<1>10. TypeOK'
  BY <1>1, <1>3, <1>7, <1>8, <1>9 DEF TypeOK
<1>11. RunInv' /\ BlockInv'
  BY <1>1, <1>3 DEF RunInv, BlockInv, Firsts, Taken, FirstOfBlock, Length
<1>12. SlotInv'
  <2>1. ASSUME NEW p \in Pages, type[p] # PAGE
        PROVE  /\ type[p] \in Slots
               /\ busy'[p] \subseteq 0..(Chunks(type[p]) - 1)
               /\ 0..(Reserved(type[p]) - 1) \subseteq busy'[p]
               /\ ~IsUnused(busy'[p], type[p])
               /\ p \in ToSet(list'[type[p]]) <=> ~IsFull(busy'[p], type[p])
    <3>1. /\ type[p] \in Slots
          /\ busy[p] \subseteq 0..(Chunks(type[p]) - 1)
          /\ 0..(Reserved(type[p]) - 1) \subseteq busy[p]
          /\ ~IsUnused(busy[p], type[p])
          /\ p \in ToSet(list[type[p]]) <=> ~IsFull(busy[p], type[p])
      BY <1>1, <2>1 DEF SlotInv
    <3>2. CASE p = page
      <4>1. busy'[p] \subseteq 0..(Chunks(s) - 1) /\ ~IsUnused(busy'[p], s)
        BY <1>2, <1>5, <1>7, <3>1, <3>2 DEF IsUnused
      <4>2. p \in ToSet(list'[s]) <=> ~IsFull(busy'[p], s)
        BY <1>4, <1>8, <3>2
      <4> QED
        BY <1>5, <1>7, <3>1, <3>2, <4>1, <4>2
    <3>3. CASE p # page
      <4>1. p \in ToSet(list'[type[p]]) <=> p \in ToSet(list[type[p]])
        BY <1>4, <1>8, <3>1, <3>3
      <4> QED
        BY <1>7, <3>1, <3>3, <4>1
    <3> QED
      BY <3>2, <3>3
  <2>2. ASSUME NEW t \in Slots
        PROVE  NoDup(list'[t]) /\ \A p \in ToSet(list'[t]) : type[p] = t
    <3>1. NoDup(list[t]) /\ \A p \in ToSet(list[t]) : type[p] = t
      BY <1>1 DEF SlotInv
    <3> QED
      BY <1>4, <1>8, <3>1
  <2> QED
    BY <1>3, <2>1, <2>2 DEF SlotInv
<1>13. ASSUME NEW d \in Holders
       PROVE  /\ held'[d] = held[d]
              /\ ~(held[d].page = page /\ held[d].off = n * s)
              /\ HoldsRun(d)' \/ HoldsChunk(d)'
  <2>1. held'[d] = held[d]
    BY <1>9
  <2>2. /\ held[d].page \in Pages
        /\ HoldsRun(d) \/ HoldsChunk(d)
        /\ HoldsRun(d) => type[held[d].page] = PAGE
    BY <1>1, HolderOf
  <2>3. HoldsRun(d) => HoldsRun(d)'
    BY <1>3, <2>1 DEF HoldsRun, FirstOfBlock, Length
  <2>4. HoldsChunk(d) => HoldsChunk(d)'
    <3>1. \A m \in busy[held[d].page] : m \in busy'[held[d].page]
      BY <1>7, <2>2
    <3> QED
      BY <1>3, <2>1, <3>1 DEF HoldsChunk
  <2>5. ASSUME held[d].page = page, held[d].off = n * s PROVE FALSE
    <3>1. HoldsChunk(d)
      BY <1>5, <2>2, <2>5
    <3>2. PICK m \in Reserved(s)..(Chunks(s) - 1) : m \in busy[page] /\ n * s = m * s
      BY <1>5, <2>5, <3>1 DEF HoldsChunk
    <3>3. m \in Nat
      BY <1>1, <3>2, <1>5
    <3> QED
      BY <1>6, <3>2, <3>3, SameChunk
  <2> QED
    BY <2>1, <2>2, <2>3, <2>4, <2>5
<1>14. HeldInv'
  <2>1. ASSUME NEW d \in Holders'
        PROVE  /\ held'[d].page \in Pages /\ held'[d].size \in Requests
               /\ HoldsRun(d)' \/ HoldsChunk(d)'
    <3>1. CASE d = c
      <4>1. n \in Reserved(s)..(Chunks(s) - 1) /\ n \in busy'[page]
        BY <1>6, <1>7, SlotNumbers
      <4>2. HoldsChunk(c)'
        BY <1>3, <1>5, <1>9, <4>1 DEF HoldsChunk
      <4> QED
        BY <1>5, <1>9, <3>1, <4>2
    <3>2. CASE d # c
      BY <1>1, <1>9, <1>13, <3>2, HolderOf
    <3> QED
      BY <3>1, <3>2
  <2>2. ASSUME NEW d \in Holders', NEW e \in Holders',
               held'[d].page = held'[e].page, held'[d].off = held'[e].off
        PROVE  d = e
    <3>1. CASE d \in Holders /\ e \in Holders
      BY <1>1, <1>13, <2>2, <3>1 DEF HeldInv
    <3>2. CASE d \notin Holders \/ e \notin Holders
      BY <1>9, <1>13, <2>2, <3>2
    <3> QED
      BY <3>1, <3>2
  <2>3. ASSUME NEW p \in Pages, FirstOfBlock(p)'
        PROVE  \E d \in Holders' : held'[d].page = p
    <3>1. FirstOfBlock(p)
      BY <1>3, <2>3 DEF FirstOfBlock
    <3>2. PICK d \in Holders : held[d].page = p
      BY <1>1, <3>1 DEF HeldInv
    <3> QED
      BY <1>9, <1>13, <3>2
  <2>4. ASSUME NEW p \in Pages, type[p] # PAGE, NEW m \in busy'[p], m >= Reserved(type[p])
        PROVE  \E d \in Holders' : held'[d].page = p /\ held'[d].off = m * type[p]
    <3>1. CASE p = page /\ m = n
      BY <1>5, <1>9, <3>1
    <3>2. CASE ~(p = page /\ m = n)
      <4>1. m \in busy[p]
        BY <1>7, <2>4, <3>2
      <4>2. PICK d \in Holders : held[d].page = p /\ held[d].off = m * type[p]
        BY <1>1, <2>4, <4>1 DEF HeldInv
      <4> QED
        BY <1>9, <1>13, <4>2
    <3> QED
      BY <3>1, <3>2
  <2> QED
    BY <1>3, <2>1, <2>2, <2>3, <2>4 DEF HeldInv
<1>15. RefusedInv'
  BY <1>9 DEF RefusedInv
<1> QED
  BY <1>1, <1>3, <1>10, <1>11, <1>12, <1>14, <1>15 DEF SlabInv

\* A page that the new call would cut is missing, and the slot's list is empty.
LEMMA CallRefused ==
    ASSUME SlabInv, NEW size \in Requests, Refuse(size), alert' = alert,
           size <= MaxSize => \E s \in Slots : SlotFor(s, size) /\ list[s] = <<>>
    PROVE  SlabInv'
<1>1. /\ type' = type /\ slab' = slab /\ busy' = busy /\ prev' = prev
      /\ free' = free /\ list' = list /\ held' = held /\ refused' = size
      /\ ~Available(IF size > MaxSize THEN PagesFor(size) ELSE 1)
  BY DEF Refuse
<1>2. TypeOK'
  BY <1>1 DEF SlabInv, TypeOK
<1>3. RunInv' /\ BlockInv' /\ SlotInv'
  BY <1>1 DEF SlabInv, RunInv, BlockInv, SlotInv, Firsts, Taken, FirstOfBlock, Length
<1>4. HeldInv'
  BY <1>1 DEF SlabInv, HeldInv, Holders, HoldsRun, HoldsChunk, FirstOfBlock, Length
<1>5. RefusedInv'
  BY <1>1 DEF RefusedInv, Available
<1> QED
  BY <1>2, <1>3, <1>4, <1>5 DEF SlabInv

LEMMA AllocKeepsInv ==
    ASSUME SlabInv, NEW c \in Clients, NEW size \in Requests, Alloc(c, size)
    PROVE  SlabInv'
<1>1. TypeOK /\ SlotInv /\ size \in Nat /\ MaxSize \in Nat
  BY Numbers, Division DEF SlabInv, MaxSize
<1>2. CASE AllocRun(c, size)
  <2>1. CASE Refuse(size)
    BY <1>1, <1>2, <2>1, CallRefused DEF AllocRun
  <2>2. CASE ~Refuse(size)
    <3>1. PICK page \in ToSet(free) :
             /\ Fits(page, PagesFor(size))
             /\ AllocPages(page, PagesFor(size))
             /\ Give(c, page, 0, size)
      BY <1>2, <2>2 DEF AllocRun
    <3>2. UNCHANGED <<type, busy, list, alert>> /\ size > MaxSize /\ held[c] = Nothing
      BY <1>2, <2>2 DEF AllocRun, Alloc
    <3> QED
      BY <3>1, <3>2, RunAllocated
  <2> QED
    BY <2>1, <2>2
<1>3. CASE ~AllocRun(c, size)
  <2>1. PICK s \in Slots :
           /\ size <= MaxSize /\ SlotFor(s, size)
           /\ AllocChunk(c, s, size) \/ AllocCut(c, s, size)
    BY <1>3 DEF Alloc
  <2>2. held[c] = Nothing
    BY DEF Alloc
  <2>3. CASE AllocChunk(c, s, size)
    BY <2>1, <2>2, <2>3, ChunkAllocated
  <2>4. CASE AllocCut(c, s, size)
    <3>1. list[s] = <<>>
      <4>1. SUFFICES ASSUME list[s] # <<>> PROVE FALSE
        OBVIOUS
      <4>2. list[s] \in Seq(Pages) /\ NoDup(list[s])
        BY <1>1 DEF TypeOK, SlotInv
      <4>3. Head(list[s]) \in ToSet(list[s])
        BY <4>1, <4>2, RestOfList
      <4>4. \E n \in 0..(Chunks(s) - 1) : n \notin busy[Head(list[s])]
        BY <1>1, <4>3, ListedPage
      <4> QED
        BY <2>4, <4>1, <4>4 DEF AllocCut
    <3>2. alert' = alert
      BY <2>4, <3>1 DEF AllocCut, SlabInv, TypeOK
    <3>3. CASE Refuse(size)
      BY <2>1, <3>1, <3>2, <3>3, CallRefused
    <3>4. CASE ~Refuse(size)
      <4>1. PICK page \in ToSet(free) :
               /\ Fits(page, 1)
               /\ AllocPages(page, 1)
               /\ type' = [type EXCEPT ![page] = s]
               /\ busy' = [busy EXCEPT ![page] = FirstBusy(s)]
               /\ list' = [list EXCEPT ![s] = <<page>>]
               /\ Give(c, page, Reserved(s) * s, size)
        BY <2>4, <3>4 DEF AllocCut
      <4> QED
        BY <2>1, <2>2, <3>1, <3>2, <4>1, PageCut
    <3> QED
      BY <3>3, <3>4
  <2> QED
    BY <2>1, <2>3, <2>4
<1> QED
  BY <1>2, <1>3
-----------------------------------------------------------------------------
(* Calls that take back *)

LEMMA AfterFree ==
    ASSUME TypeOK, NEW c \in Holders, held' = [held EXCEPT ![c] = Nothing]
    PROVE  /\ held' \in [Clients -> Block]
           /\ \A d \in Holders' : d # c /\ d \in Holders /\ held'[d] = held[d]
           /\ \A d \in Holders : d # c => d \in Holders' /\ held'[d] = held[d]
<1>1. c \in Clients /\ held \in [Clients -> Block] /\ Nothing \in Block
  BY DEF TypeOK, Holders, Nothing, Block
<1>2. /\ held' \in [Clients -> Block] /\ held'[c] = Nothing
      /\ \A d \in Clients : d # c => held'[d] = held[d]
  BY <1>1
<1> QED
  BY <1>2 DEF Holders

LEMMA RunFreed ==
    ASSUME SlabInv, NEW c \in Holders, HoldsRun(c),
           held' = [held EXCEPT ![c] = Nothing], refused' = 0, alert' = alert,
           FreePages(held[c].page, slab[held[c].page] - START),
           UNCHANGED <<type, busy, list>>
    PROVE  SlabInv'
<1> DEFINE page == held[c].page
           n == Length(page)
           In(q) == q >= page /\ q < page + n
<1>1. /\ TypeOK /\ RunInv /\ BlockInv /\ SlotInv /\ HeldInv /\ ~alert
      /\ type' = type /\ busy' = busy /\ list' = list
      /\ type \in [Pages -> Nat]
  BY DEF SlabInv, TypeOK
<1>2. /\ page \in Pages /\ FirstOfBlock(page) /\ held[c].off = 0
      /\ FreePages(page, n)
  BY <1>1, HolderOf DEF HoldsRun, Length
<1> HIDE DEF page
<1>3. /\ n \in Nat /\ n >= 1 /\ page + n <= N + 1
      /\ \A q \in Pages : q > page /\ q < page + n => type[q] = PAGE /\ slab[q] = BUSY
      /\ \A q \in Pages : q >= page /\ q < page + n => type[q] = PAGE /\ Taken(q)
  BY <1>1, <1>2, BlockAt
<1> HIDE DEF n
<1>4. /\ slab' \in [Pages -> Nat] /\ prev' \in [Pages -> Nat] /\ free' \in Seq(Pages)
      /\ \A q \in Pages : Taken(q) /\ ~(q >= page /\ q < page + n) =>
            slab'[q] = slab[q] /\ type'[q] = type[q]
      /\ \A q \in Pages : ~Taken(q) \/ (q >= page /\ q < page + n) => ~Taken(q)'
      /\ RunInv'
  <2>1. \A q \in Pages : type'[q] = IF q >= page /\ q < page + n THEN PAGE ELSE type[q]
    BY <1>1, <1>3
  <2>2. n \in Nat \ {0} /\ type' \in [Pages -> Nat]
    BY <1>1, <1>3
  <2> QED
    BY <1>1, <1>2, <1>3, <2>1, <2>2, FreeKeepsRuns
<1>5. ASSUME NEW p \in Pages, FirstOfBlock(p), p # page
      PROVE  /\ FirstOfBlock(p)' /\ Length(p)' = Length(p)
             /\ \A q \in Pages : q >= p /\ q < p + Length(p) => ~In(q)
  <2>1. /\ Length(p) \in Nat /\ Length(p) >= 1 /\ Taken(p)
    BY <1>1, <1>5, BlockAt DEF FirstOfBlock, Taken
  <2>2. p + Length(p) <= page \/ page + n <= p
    BY <1>1, <1>2, <1>5, BlocksApart, Numbers DEF n
  <2>3. \A q \in Pages : q >= p /\ q < p + Length(p) => ~In(q)
    BY <1>2, <1>3, <2>1, <2>2, Numbers
  <2>4. ~In(p)
    BY <2>1, <2>3, Numbers
  <2>5. slab'[p] = slab[p] /\ type'[p] = type[p]
    BY <1>4, <2>1, <2>4
  <2> QED
    BY <1>5, <2>3, <2>5 DEF FirstOfBlock, Length
<1>6. ASSUME NEW q \in Pages, Taken(q)'
      PROVE  /\ Taken(q) /\ ~In(q) /\ slab'[q] = slab[q]
             /\ FirstOfBlock(q)' => FirstOfBlock(q) /\ q # page
  <2>1. Taken(q) /\ ~In(q)
    BY <1>4, <1>6
  <2>2. slab'[q] = slab[q] /\ type'[q] = type[q]
    BY <1>4, <2>1
  <2>3. q # page
    BY <1>2, <1>3, <2>1, Numbers
  <2> QED
    BY <2>1, <2>2, <2>3 DEF FirstOfBlock
<1>7. BlockInv'
  <2>1. ASSUME NEW p \in Pages, FirstOfBlock(p)'
        PROVE  /\ Length(p)' \in 1..N /\ p + Length(p)' <= N + 1
               /\ \A q \in (p + 1)..(p + Length(p)' - 1) : type'[q] = PAGE /\ slab'[q] = BUSY
    <3>1. FirstOfBlock(p) /\ p # page
      BY <1>6, <2>1 DEF FirstOfBlock, Taken
    <3>2. /\ Length(p)' = Length(p)
          /\ \A q \in Pages : q >= p /\ q < p + Length(p) => ~In(q)
      BY <1>5, <3>1
    <3>3. /\ Length(p) \in Nat /\ Length(p) >= 1 /\ Length(p) <= N /\ p + Length(p) <= N + 1
          /\ \A q \in Pages : q > p /\ q < p + Length(p) => type[q] = PAGE /\ slab[q] = BUSY
          /\ \A q \in Pages : q >= p /\ q < p + Length(p) => type[q] = PAGE /\ Taken(q)
      BY <1>1, <3>1, BlockAt
    <3>4. ASSUME NEW q \in (p + 1)..(p + Length(p) - 1)
          PROVE  type'[q] = PAGE /\ slab'[q] = BUSY
      <4>1. q \in Pages /\ q > p /\ q >= p /\ q < p + Length(p)
        BY <3>3, Numbers
      <4> QED
        BY <1>4, <3>2, <3>3, <4>1
    <3> QED
      BY <3>2, <3>3, <3>4, Numbers
  <2>2. ASSUME NEW q \in Pages, type'[q] = PAGE, slab'[q] = BUSY
        PROVE  \E p \in Pages : FirstOfBlock(p)' /\ q \in p..(p + Length(p)' - 1)
    <3>1. Taken(q)'
      BY <2>2, Numbers DEF Taken
    <3>2. ~In(q) /\ type[q] = PAGE /\ slab[q] = BUSY
      BY <1>1, <1>6, <2>2, <3>1
    <3>3. PICK p \in Pages : FirstOfBlock(p) /\ q \in p..(p + Length(p) - 1)
      BY <1>1, <3>2 DEF BlockInv
    <3>4. p # page
      <4>1. q \in page..(page + n - 1) => In(q)
        BY <1>2, <1>3, Numbers
      <4> QED
        BY <3>2, <3>3, <4>1 DEF n
    <3> QED
      BY <1>5, <3>3, <3>4
  <2> QED
    BY <2>1, <2>2 DEF BlockInv
<1>8. SlotInv'
  BY <1>1 DEF SlotInv
<1>9. /\ held' \in [Clients -> Block]
      /\ \A d \in Holders' : d # c /\ d \in Holders /\ held'[d] = held[d]
      /\ \A d \in Holders : d # c => d \in Holders' /\ held'[d] = held[d]
  BY <1>1, AfterFree
<1>10. TypeOK'
  BY <1>1, <1>4, <1>9 DEF TypeOK
<1>11. ASSUME NEW d \in Holders'
       PROVE  HoldsRun(d)' \/ HoldsChunk(d)'
  <2>1. d # c /\ d \in Holders /\ held'[d] = held[d]
    BY <1>9
  <2>2. /\ held[d].page \in Pages
        /\ HoldsRun(d) \/ HoldsChunk(d)
    BY <1>1, <2>1, HolderOf
  <2>3. HoldsRun(d) => HoldsRun(d)'
    <3>1. ASSUME HoldsRun(d) PROVE held[d].page # page
      BY <1>1, <1>2, <2>1, <3>1 DEF HoldsRun, HeldInv, page
    <3> QED
      BY <1>5, <2>1, <2>2, <3>1 DEF HoldsRun
  <2>4. HoldsChunk(d) => HoldsChunk(d)'
    BY <1>1, <2>1 DEF HoldsChunk
  <2> QED
    BY <2>2, <2>3, <2>4
<1>12. HeldInv'
  <2>1. ASSUME NEW d \in Holders'
        PROVE  held'[d].page \in Pages /\ held'[d].size \in Requests
    BY <1>1, <1>9, HolderOf
  <2>2. ASSUME NEW d \in Holders', NEW e \in Holders',
               held'[d].page = held'[e].page, held'[d].off = held'[e].off
        PROVE  d = e
    BY <1>1, <1>9, <2>2 DEF HeldInv
  <2>3. ASSUME NEW p \in Pages, FirstOfBlock(p)'
        PROVE  \E d \in Holders' : held'[d].page = p
    <3>1. FirstOfBlock(p) /\ p # page
      BY <1>6, <2>3 DEF FirstOfBlock, Taken
    <3>2. PICK d \in Holders : held[d].page = p
      BY <1>1, <3>1 DEF HeldInv
    <3> QED
      BY <1>9, <3>1, <3>2 DEF page
  <2>4. ASSUME NEW p \in Pages, type[p] # PAGE, NEW m \in busy[p], m >= Reserved(type[p])
        PROVE  \E d \in Holders' : held'[d].page = p /\ held'[d].off = m * type[p]
    <3>1. PICK d \in Holders : held[d].page = p /\ held[d].off = m * type[p]
      BY <1>1, <2>4 DEF HeldInv
    <3>2. p # page
      BY <1>2, <2>4 DEF FirstOfBlock
    <3> QED
      BY <1>9, <3>1, <3>2 DEF page
  <2> QED
    BY <1>1, <1>11, <2>1, <2>2, <2>3, <2>4 DEF HeldInv
<1>13. RefusedInv'
  BY DEF RefusedInv
<1> QED
  BY <1>1, <1>4, <1>7, <1>8, <1>10, <1>12, <1>13 DEF SlabInv
\* The chunk that a client frees, and its page's place on the slot's list
PageOf(c)  == held[c].page
SizeOf(c)  == type[PageOf(c)]
ChunkNo(c) == held[c].off \div SizeOf(c)
Listed(c)  == IF WasFull(PageOf(c), SizeOf(c))
              THEN <<PageOf(c)>> \o list[SizeOf(c)] ELSE list[SizeOf(c)]

LEMMA ChunkOf ==
    ASSUME TypeOK, BlockInv, SlotInv, HeldInv, NEW c \in Holders, HoldsChunk(c)
    PROVE  LET page   == PageOf(c)
               s      == SizeOf(c)
               n      == ChunkNo(c)
               listed == Listed(c)
           IN
           /\ page \in Pages /\ s \in Slots /\ s # PAGE
           /\ n \in Nat /\ n >= Reserved(s) /\ n < Chunks(s) /\ n \in busy[page]
           /\ held[c].off = n * s /\ held[c].off % s = 0
           /\ listed \in Seq(Pages) /\ NoDup(listed)
           /\ ToSet(listed) = ToSet(list[s]) \cup {page}
<1> DEFINE page   == PageOf(c)
           s      == SizeOf(c)
           n      == ChunkNo(c)
           listed == Listed(c)
<1>1. page \in Pages /\ s \in Slots /\ s # PAGE
  BY HolderOf DEF PageOf, SizeOf
<1>2. PICK m \in Reserved(s)..(Chunks(s) - 1) : m \in busy[page] /\ held[c].off = m * s
  BY DEF HoldsChunk, PageOf, SizeOf
<1> HIDE DEF page, s
<1>3. m \in Nat /\ m >= Reserved(s) /\ m < Chunks(s)
  BY <1>1, <1>2, SlotNumbers
<1>4. held[c].off \div s = m /\ held[c].off % s = 0
  <2>1. s \in Nat \ {0}
    BY <1>1, SlotNumbers
  <2> QED
    BY <1>2, <1>3, <2>1, DivisionOfProduct
<1>5. n = m
  BY <1>4 DEF ChunkNo, s
<1> HIDE DEF n
<1>6. page \in ToSet(list[s]) <=> ~IsFull(busy[page], s)
  <2>1. type[page] = s
    BY DEF s, SizeOf, page
  <2> QED
    BY <1>1, <2>1, CutPage
<1>7. WasFull(page, s) <=> page \notin ToSet(list[s])
  BY <1>6 DEF WasFull
<1>8. list[s] \in Seq(Pages) /\ NoDup(list[s])
  BY <1>1 DEF TypeOK, SlotInv
<1>9. /\ listed \in Seq(Pages) /\ NoDup(listed)
      /\ ToSet(listed) = ToSet(list[s]) \cup {page}
  <2>1. CASE page \in ToSet(list[s])
    <3>1. listed = list[s]
      BY <1>7, <2>1 DEF Listed, page, s
    <3> HIDE DEF listed
    <3> QED
      BY <1>8, <2>1, <3>1
  <2>2. CASE page \notin ToSet(list[s])
    <3>1. listed = <<page>> \o list[s]
      BY <1>7, <2>2 DEF Listed, page, s
    <3> HIDE DEF listed
    <3> QED
      BY <1>1, <1>8, <2>2, <3>1, FirstInList
  <2> QED
    BY <2>1, <2>2
<1> HIDE DEF listed
<1> QED
  BY <1>1, <1>2, <1>3, <1>4, <1>5, <1>9 DEF page, s, n, listed

LEMMA ChunkFreed ==
    ASSUME SlabInv, NEW c \in Holders, HoldsChunk(c),
           held' = [held EXCEPT ![c] = Nothing], refused' = 0, alert' = alert,
           FreeOfChunk(PageOf(c), ChunkNo(c)),
           ~IsUnused(busy[PageOf(c)] \ {ChunkNo(c)}, SizeOf(c))
    PROVE  SlabInv'
<1> DEFINE page   == PageOf(c)
           s      == SizeOf(c)
           n      == ChunkNo(c)
           listed == Listed(c)
<1>0. /\ type' = type /\ slab' = slab /\ prev' = prev /\ free' = free
      /\ list' = [list EXCEPT ![s] = listed]
      /\ busy' = [busy EXCEPT ![page] = busy[page] \ {n}]
      /\ ~IsUnused(busy[page] \ {n}, s)
  BY DEF FreeOfChunk, Listed, SizeOf
<1> HIDE DEF page, s, n, listed
<1>1. /\ TypeOK /\ RunInv /\ BlockInv /\ SlotInv /\ HeldInv /\ ~alert
      /\ type' = type /\ slab' = slab /\ prev' = prev /\ free' = free
      /\ busy \in [Pages -> SUBSET Nat] /\ list \in [Slots -> Seq(Pages)]
  BY <1>0 DEF SlabInv, TypeOK
<1>2. /\ page \in Pages /\ s \in Slots /\ s # PAGE
      /\ n \in Nat /\ n >= Reserved(s) /\ n < Chunks(s) /\ n \in busy[page]
      /\ held[c].off = n * s
      /\ listed \in Seq(Pages) /\ NoDup(listed)
      /\ ToSet(listed) = ToSet(list[s]) \cup {page}
  BY <1>1, ChunkOf DEF page, s, n, listed
<1>3. /\ busy' \in [Pages -> SUBSET Nat] /\ busy'[page] = busy[page] \ {n}
      /\ \A q \in Pages : q # page => busy'[q] = busy[q]
      /\ list' \in [Slots -> Seq(Pages)] /\ list'[s] = listed
      /\ \A t \in Slots : t # s => list'[t] = list[t]
  BY <1>0, <1>1, <1>2
<1>4. /\ held' \in [Clients -> Block]
      /\ \A d \in Holders' : d # c /\ d \in Holders /\ held'[d] = held[d]
      /\ \A d \in Holders : d # c => d \in Holders' /\ held'[d] = held[d]
  BY <1>1, AfterFree
<1>5. TypeOK'
  BY <1>1, <1>3, <1>4 DEF TypeOK
<1>6. RunInv' /\ BlockInv'
  BY <1>1 DEF RunInv, BlockInv, Firsts, Taken, FirstOfBlock, Length
<1>7. SlotInv'
  <2>1. ASSUME NEW p \in Pages, type[p] # PAGE
        PROVE  /\ type[p] \in Slots
               /\ busy'[p] \subseteq 0..(Chunks(type[p]) - 1)
               /\ 0..(Reserved(type[p]) - 1) \subseteq busy'[p]
               /\ ~IsUnused(busy'[p], type[p])
               /\ p \in ToSet(list'[type[p]]) <=> ~IsFull(busy'[p], type[p])
    <3>1. /\ type[p] \in Slots
          /\ busy[p] \subseteq 0..(Chunks(type[p]) - 1)
          /\ 0..(Reserved(type[p]) - 1) \subseteq busy[p]
          /\ ~IsUnused(busy[p], type[p])
          /\ p \in ToSet(list[type[p]]) <=> ~IsFull(busy[p], type[p])
      BY <1>1, <2>1 DEF SlotInv
    <3>2. CASE p = page
      <4>0. type[p] = s
        BY <3>2 DEF page, s, SizeOf
      <4>1. busy'[p] \subseteq 0..(Chunks(s) - 1) /\ 0..(Reserved(s) - 1) \subseteq busy'[p]
        BY <1>2, <1>3, <3>1, <3>2, <4>0, SlotNumbers
      <4>2. n \in 0..(Chunks(s) - 1)
        BY <1>2, SlotNumbers
      <4>3. ~IsFull(busy'[p], s)
        BY <1>3, <3>2, <4>2 DEF IsFull
      <4> QED
        BY <1>0, <1>2, <1>3, <3>1, <3>2, <4>0, <4>1, <4>3
    <3>3. CASE p # page
      <4>1. p \in ToSet(list'[type[p]]) <=> p \in ToSet(list[type[p]])
        BY <1>2, <1>3, <3>1, <3>3
      <4> QED
        BY <1>3, <3>1, <3>3, <4>1
    <3> QED
      BY <3>2, <3>3
  <2>2. ASSUME NEW t \in Slots
        PROVE  NoDup(list'[t]) /\ \A p \in ToSet(list'[t]) : type[p] = t
    <3>1. NoDup(list[t]) /\ \A p \in ToSet(list[t]) : type[p] = t
      BY <1>1 DEF SlotInv
    <3>2. type[page] = s
      BY DEF page, s, SizeOf
    <3> QED
      BY <1>2, <1>3, <3>1, <3>2
  <2> QED
    BY <1>1, <2>1, <2>2 DEF SlotInv
<1>8. ASSUME NEW d \in Holders'
      PROVE  HoldsRun(d)' \/ HoldsChunk(d)'
  <2>1. d # c /\ d \in Holders /\ held'[d] = held[d]
    BY <1>4
  <2>2. /\ held[d].page \in Pages
        /\ HoldsRun(d) \/ HoldsChunk(d)
    BY <1>1, <2>1, HolderOf
  <2>3. HoldsRun(d) => HoldsRun(d)'
    BY <1>1, <2>1 DEF HoldsRun, FirstOfBlock, Length
  <2>4. ASSUME HoldsChunk(d) PROVE HoldsChunk(d)'
    <3>1. PICK m \in Reserved(type[held[d].page])..(Chunks(type[held[d].page]) - 1) :
             m \in busy[held[d].page] /\ held[d].off = m * type[held[d].page]
      BY <2>4 DEF HoldsChunk
    <3>2. ~(held[d].page = page /\ m = n)
      BY <1>1, <1>2, <2>1, <3>1 DEF HeldInv, page, PageOf, s, SizeOf
    <3>3. m \in busy'[held[d].page]
      BY <1>3, <2>2, <3>1, <3>2
    <3> QED
      BY <1>1, <2>1, <2>4, <3>1, <3>3 DEF HoldsChunk
  <2> QED
    BY <2>2, <2>3, <2>4
<1>9. HeldInv'
  <2>1. ASSUME NEW d \in Holders'
        PROVE  held'[d].page \in Pages /\ held'[d].size \in Requests
    BY <1>1, <1>4, HolderOf
  <2>2. ASSUME NEW d \in Holders', NEW e \in Holders',
               held'[d].page = held'[e].page, held'[d].off = held'[e].off
        PROVE  d = e
    BY <1>1, <1>4, <2>2 DEF HeldInv
  <2>3. ASSUME NEW p \in Pages, FirstOfBlock(p)'
        PROVE  \E d \in Holders' : held'[d].page = p
    <3>1. FirstOfBlock(p) /\ p # page
      BY <1>1, <1>2, <2>3 DEF FirstOfBlock, s, SizeOf, page
    <3>2. PICK d \in Holders : held[d].page = p
      BY <1>1, <3>1 DEF HeldInv
    <3> QED
      BY <1>4, <3>1, <3>2 DEF page, PageOf
  <2>4. ASSUME NEW p \in Pages, type[p] # PAGE, NEW m \in busy'[p], m >= Reserved(type[p])
        PROVE  \E d \in Holders' : held'[d].page = p /\ held'[d].off = m * type[p]
    <3>1. m \in busy[p] /\ ~(p = page /\ m = n)
      BY <1>3, <2>4
    <3>2. PICK d \in Holders : held[d].page = p /\ held[d].off = m * type[p]
      BY <1>1, <2>4, <3>1 DEF HeldInv
    <3>3. d # c
      <4>1. ASSUME d = c PROVE FALSE
        <5>1. p = page /\ m * s = n * s
          BY <1>2, <3>2, <4>1 DEF page, PageOf, s, SizeOf
        <5>2. m \in Nat
          BY <1>1, <2>4, <3>1
        <5> QED
          BY <1>2, <3>1, <5>1, <5>2, SameChunk
      <4> QED
        BY <4>1
    <3> QED
      BY <1>4, <3>2, <3>3
  <2> QED
    BY <1>1, <1>8, <2>1, <2>2, <2>3, <2>4 DEF HeldInv
<1>10. RefusedInv'
  BY DEF RefusedInv
<1> QED
  BY <1>1, <1>5, <1>6, <1>7, <1>9, <1>10 DEF SlabInv

LEMMA PageGivenBack ==
    ASSUME SlabInv, NEW c \in Holders, HoldsChunk(c),
           held' = [held EXCEPT ![c] = Nothing], refused' = 0, alert' = alert,
           FreeOfChunk(PageOf(c), ChunkNo(c)),
           IsUnused(busy[PageOf(c)] \ {ChunkNo(c)}, SizeOf(c))
    PROVE  SlabInv'
<1> DEFINE page   == PageOf(c)
           s      == SizeOf(c)
           n      == ChunkNo(c)
           listed == Listed(c)
<1>0. /\ list' = [list EXCEPT ![s] = Unlink(listed, page)]
      /\ type' = [type EXCEPT ![page] = PAGE]
      /\ busy' = [busy EXCEPT ![page] = {}]
      /\ FreePages(page, 1)
      /\ IsUnused(busy[page] \ {n}, s)
  BY DEF FreeOfChunk, Listed, SizeOf
<1> HIDE DEF page, s, n, listed
<1>1. /\ TypeOK /\ RunInv /\ BlockInv /\ SlotInv /\ HeldInv /\ ~alert
      /\ type \in [Pages -> Nat] /\ busy \in [Pages -> SUBSET Nat]
      /\ list \in [Slots -> Seq(Pages)]
  BY DEF SlabInv, TypeOK
<1>2. /\ page \in Pages /\ s \in Slots /\ s # PAGE
      /\ n \in Nat /\ n \in busy[page]
      /\ held[c].off = n * s
      /\ listed \in Seq(Pages) /\ NoDup(listed)
      /\ ToSet(listed) = ToSet(list[s]) \cup {page}
  BY <1>1, ChunkOf DEF page, s, n, listed
<1>3. /\ type' \in [Pages -> Nat] /\ type'[page] = PAGE
      /\ \A q \in Pages : q # page => type'[q] = type[q]
      /\ busy' \in [Pages -> SUBSET Nat]
      /\ \A q \in Pages : q # page => busy'[q] = busy[q]
  BY <1>0, <1>1, <1>2, Numbers
<1>4. /\ list' \in [Slots -> Seq(Pages)] /\ NoDup(list'[s])
      /\ ToSet(list'[s]) = ToSet(list[s]) \ {page}
      /\ \A t \in Slots : t # s => list'[t] = list[t]
  <2>1. /\ Unlink(listed, page) \in Seq(Pages) /\ NoDup(Unlink(listed, page))
        /\ ToSet(Unlink(listed, page)) = ToSet(listed) \ {page}
    BY <1>2, UnlinkedFromList
  <2>2. ToSet(listed) \ {page} = ToSet(list[s]) \ {page}
    BY <1>2
  <2>3. list'[s] = Unlink(listed, page)
    BY <1>0, <1>1, <1>2
  <2>4. list' \in [Slots -> Seq(Pages)] /\ \A t \in Slots : t # s => list'[t] = list[t]
    BY <1>0, <1>1, <2>1
  <2> QED
    BY <2>1, <2>2, <2>3, <2>4
<1>5. \A q \in Pages : (q >= page /\ q < page + 1) <=> q = page
  <2>1. page \in Nat /\ \A q \in Pages : q \in Nat
    BY <1>2, Numbers
  <2> QED
    BY <2>1
<1>6. Taken(page) /\ type[page] = s
  BY <1>2 DEF Taken, page, s, SizeOf
<1>7. /\ slab' \in [Pages -> Nat] /\ prev' \in [Pages -> Nat] /\ free' \in Seq(Pages)
      /\ \A q \in Pages : Taken(q) /\ q # page => slab'[q] = slab[q] /\ type'[q] = type[q]
      /\ \A q \in Pages : ~Taken(q) \/ q = page => ~Taken(q)'
      /\ RunInv'
  <2>1. \A q \in Pages : type'[q] = IF q >= page /\ q < page + 1 THEN PAGE ELSE type[q]
    BY <1>3, <1>5
  <2>2. 1 \in Nat \ {0} /\ page + 1 <= N + 1
    BY <1>2, Numbers
  <2>3. \A q \in Pages : q >= page /\ q < page + 1 => Taken(q)
    BY <1>5, <1>6
  <2>4. /\ slab' \in [Pages -> Nat] /\ prev' \in [Pages -> Nat] /\ free' \in Seq(Pages)
        /\ \A q \in Pages : Taken(q) /\ ~(q >= page /\ q < page + 1) =>
              slab'[q] = slab[q] /\ type'[q] = type[q]
        /\ \A q \in Pages : ~Taken(q) \/ (q >= page /\ q < page + 1) => ~Taken(q)'
        /\ RunInv'
    BY <1>0, <1>1, <1>2, <1>3, <2>1, <2>2, <2>3, FreeKeepsRuns
  <2> QED
    BY <1>5, <2>4
<1>8. /\ held' \in [Clients -> Block]
      /\ \A d \in Holders' : d # c /\ d \in Holders /\ held'[d] = held[d]
      /\ \A d \in Holders : d # c => d \in Holders' /\ held'[d] = held[d]
  BY <1>1, AfterFree
<1>9. TypeOK'
  BY <1>1, <1>3, <1>4, <1>7, <1>8 DEF TypeOK
\* The page was not of a block.
<1>10. /\ \A p \in Pages : FirstOfBlock(p) <=> FirstOfBlock(p)'
       /\ \A p \in Pages : FirstOfBlock(p) =>
             Length(p)' = Length(p) /\ slab'[p] = slab[p] /\ p # page
       /\ \A q \in Pages : type[q] = PAGE /\ slab[q] = BUSY
                              <=> type'[q] = PAGE /\ slab'[q] = BUSY
  <2>1. ASSUME NEW p \in Pages
        PROVE  /\ FirstOfBlock(p) => /\ FirstOfBlock(p)' /\ Length(p)' = Length(p)
                                     /\ slab'[p] = slab[p] /\ p # page
               /\ FirstOfBlock(p)' => FirstOfBlock(p)
               /\ type[p] = PAGE /\ slab[p] = BUSY <=> type'[p] = PAGE /\ slab'[p] = BUSY
    <3>1. BUSY >= START
      BY Numbers
    <3>2. CASE Taken(p) /\ p # page
      <4>1. slab'[p] = slab[p] /\ type'[p] = type[p]
        BY <1>7, <3>2
      <4> QED
        BY <3>2, <4>1 DEF FirstOfBlock, Length
    <3>3. CASE ~Taken(p)
      <4>1. ~Taken(p)'
        BY <1>7, <3>3
      <4> QED
        BY <3>1, <3>3, <4>1 DEF FirstOfBlock, Taken
    <3>4. CASE p = page
      <4>1. ~Taken(p)' /\ type[p] # PAGE
        BY <1>2, <1>6, <1>7, <3>4
      <4> QED
        BY <3>1, <4>1 DEF FirstOfBlock, Taken
    <3> QED
      BY <3>2, <3>3, <3>4
  <2> QED
    BY <2>1
<1>11. BlockInv'
  <2>1. ASSUME NEW p \in Pages, FirstOfBlock(p)'
        PROVE  /\ Length(p)' \in 1..N /\ p + Length(p)' <= N + 1
               /\ \A q \in (p + 1)..(p + Length(p)' - 1) : type'[q] = PAGE /\ slab'[q] = BUSY
    <3>1. FirstOfBlock(p) /\ Length(p)' = Length(p)
      BY <1>10, <2>1
    <3>2. /\ Length(p) \in 1..N /\ p + Length(p) <= N + 1
          /\ \A q \in (p + 1)..(p + Length(p) - 1) : type[q] = PAGE /\ slab[q] = BUSY
      BY <1>1, <3>1 DEF BlockInv
    <3>3. \A q \in (p + 1)..(p + Length(p) - 1) : q \in Pages
      BY <3>2, Numbers
    <3> QED
      BY <1>10, <3>1, <3>2, <3>3
  <2>2. ASSUME NEW q \in Pages, type'[q] = PAGE, slab'[q] = BUSY
        PROVE  \E p \in Pages : FirstOfBlock(p)' /\ q \in p..(p + Length(p)' - 1)
    <3>1. type[q] = PAGE /\ slab[q] = BUSY
      BY <1>10, <2>2
    <3>2. PICK p \in Pages : FirstOfBlock(p) /\ q \in p..(p + Length(p) - 1)
      BY <1>1, <3>1 DEF BlockInv
    <3> QED
      BY <1>10, <3>2
  <2> QED
    BY <2>1, <2>2 DEF BlockInv
<1>12. SlotInv'
  <2>1. ASSUME NEW p \in Pages, type'[p] # PAGE
        PROVE  /\ type'[p] \in Slots
               /\ busy'[p] \subseteq 0..(Chunks(type'[p]) - 1)
               /\ 0..(Reserved(type'[p]) - 1) \subseteq busy'[p]
               /\ ~IsUnused(busy'[p], type'[p])
               /\ p \in ToSet(list'[type'[p]]) <=> ~IsFull(busy'[p], type'[p])
    <3>1. p # page /\ type'[p] = type[p] /\ busy'[p] = busy[p]
      BY <1>3, <2>1
    <3>2. /\ type[p] \in Slots
          /\ busy[p] \subseteq 0..(Chunks(type[p]) - 1)
          /\ 0..(Reserved(type[p]) - 1) \subseteq busy[p]
          /\ ~IsUnused(busy[p], type[p])
          /\ p \in ToSet(list[type[p]]) <=> ~IsFull(busy[p], type[p])
      BY <1>1, <2>1, <3>1 DEF SlotInv
    <3>3. p \in ToSet(list'[type[p]]) <=> p \in ToSet(list[type[p]])
      BY <1>4, <3>1, <3>2
    <3> QED
      BY <3>1, <3>2, <3>3
  <2>2. ASSUME NEW t \in Slots
        PROVE  NoDup(list'[t]) /\ \A p \in ToSet(list'[t]) : type'[p] = t
    <3>1. NoDup(list[t])
      BY <1>1 DEF SlotInv
    <3>2. ASSUME NEW p \in ToSet(list[t]), p # page PROVE type'[p] = t
      <4>1. p \in Pages /\ type[p] = t
        BY <1>1, ListedPage
      <4> QED
        BY <1>3, <3>2, <4>1
    <3>3. page \in ToSet(list[t]) => t = s
      BY <1>1, <1>6, ListedPage
    <3> QED
      BY <1>4, <3>1, <3>2, <3>3
  <2> QED
    BY <2>1, <2>2 DEF SlotInv
\* Nobody else has a chunk of the page.
<1>13. ASSUME NEW d \in Holders, d # c
       PROVE  held[d].page # page
  <2>1. SUFFICES ASSUME held[d].page = page PROVE FALSE
    OBVIOUS
  <2>2. HoldsChunk(d)
    BY <1>1, <1>2, <1>6, <2>1, HolderOf
  <2>3. PICK m \in Reserved(s)..(Chunks(s) - 1) : m \in busy[page] /\ held[d].off = m * s
    BY <1>6, <2>1, <2>2 DEF HoldsChunk
  <2>4. m = n
    BY <1>0, <1>2, <2>3, SlotNumbers DEF IsUnused
  <2> QED
    BY <1>1, <1>2, <1>13, <2>1, <2>3, <2>4 DEF HeldInv, page, PageOf
<1>14. ASSUME NEW d \in Holders'
       PROVE  HoldsRun(d)' \/ HoldsChunk(d)'
  <2>1. d # c /\ d \in Holders /\ held'[d] = held[d]
    BY <1>8
  <2>2. /\ held[d].page \in Pages /\ held[d].page # page
        /\ HoldsRun(d) \/ HoldsChunk(d)
    BY <1>1, <1>13, <2>1, HolderOf
  <2>3. HoldsRun(d) => HoldsRun(d)'
    BY <1>10, <2>1, <2>2 DEF HoldsRun
  <2>4. HoldsChunk(d) => HoldsChunk(d)'
    BY <1>3, <2>1, <2>2 DEF HoldsChunk
  <2> QED
    BY <2>2, <2>3, <2>4
<1>15. HeldInv'
  <2>1. ASSUME NEW d \in Holders'
        PROVE  held'[d].page \in Pages /\ held'[d].size \in Requests
    BY <1>1, <1>8, HolderOf
  <2>2. ASSUME NEW d \in Holders', NEW e \in Holders',
               held'[d].page = held'[e].page, held'[d].off = held'[e].off
        PROVE  d = e
    BY <1>1, <1>8, <2>2 DEF HeldInv
  <2>3. ASSUME NEW p \in Pages, FirstOfBlock(p)'
        PROVE  \E d \in Holders' : held'[d].page = p
    <3>1. FirstOfBlock(p) /\ p # page
      BY <1>10, <2>3
    <3>2. PICK d \in Holders : held[d].page = p
      BY <1>1, <3>1 DEF HeldInv
    <3> QED
      BY <1>8, <3>1, <3>2 DEF page, PageOf
  <2>4. ASSUME NEW p \in Pages, type'[p] # PAGE, NEW m \in busy'[p], m >= Reserved(type'[p])
        PROVE  \E d \in Holders' : held'[d].page = p /\ held'[d].off = m * type'[p]
    <3>1. p # page /\ type'[p] = type[p] /\ busy'[p] = busy[p]
      BY <1>3, <2>4
    <3>2. PICK d \in Holders : held[d].page = p /\ held[d].off = m * type[p]
      BY <1>1, <2>4, <3>1 DEF HeldInv
    <3> QED
      BY <1>8, <3>1, <3>2 DEF page, PageOf
  <2> QED
    BY <1>14, <2>1, <2>2, <2>3, <2>4 DEF HeldInv
<1>16. RefusedInv'
  BY DEF RefusedInv
<1> QED
  BY <1>1, <1>7, <1>9, <1>11, <1>12, <1>15, <1>16 DEF SlabInv
LEMMA BlockAccepted ==
    ASSUME SlabInv, NEW c \in Holders
    PROVE  Accepts(held[c].page, held[c].off)
<1>1. TypeOK /\ BlockInv /\ SlotInv /\ HeldInv
  BY DEF SlabInv
<1>2. /\ held[c].page \in Pages
      /\ HoldsRun(c) \/ HoldsChunk(c)
  BY <1>1, HolderOf
<1>3. CASE HoldsRun(c)
  BY <1>2, <1>3 DEF HoldsRun, FirstOfBlock, Accepts
<1>4. CASE HoldsChunk(c)
  BY <1>1, <1>2, <1>4, ChunkOf DEF PageOf, SizeOf, ChunkNo, Accepts
<1> QED
  BY <1>2, <1>3, <1>4

LEMMA FreeKeepsInv ==
    ASSUME SlabInv, NEW c \in Clients, Free(c)
    PROVE  SlabInv'
<1>1. TypeOK /\ BlockInv /\ SlotInv /\ HeldInv /\ c \in Holders
  BY DEF SlabInv, Free, Holders
<1>2. Accepts(held[c].page, held[c].off)
  BY <1>1, BlockAccepted
<1>3. /\ held' = [held EXCEPT ![c] = Nothing] /\ refused' = 0
      /\ FreeBlock(held[c].page, held[c].off)
  BY <1>2 DEF Free
<1>4. alert' = alert
  BY <1>2 DEF Free, SlabInv, TypeOK
<1>5. /\ HoldsRun(c) \/ HoldsChunk(c)
      /\ HoldsRun(c) => type[held[c].page] = PAGE
      /\ HoldsChunk(c) => type[held[c].page] # PAGE
  BY <1>1, HolderOf
<1>6. CASE HoldsRun(c)
  BY <1>1, <1>3, <1>4, <1>5, <1>6, RunFreed DEF FreeBlock
<1>7. CASE HoldsChunk(c)
  <2>1. FreeOfChunk(PageOf(c), ChunkNo(c))
    BY <1>3, <1>5, <1>7 DEF FreeBlock, PageOf, ChunkNo, SizeOf
  <2> QED
    BY <1>1, <1>3, <1>4, <1>7, <2>1, ChunkFreed, PageGivenBack
<1> QED
  BY <1>5, <1>6, <1>7

LEMMA InitInv == Init => SlabInv
<1> SUFFICES ASSUME Init PROVE SlabInv
  OBVIOUS
<1>1. /\ type = [p \in Pages |-> PAGE]
      /\ slab = [p \in Pages |-> IF p = 1 THEN N ELSE FREE]
      /\ busy = [p \in Pages |-> {}] /\ prev = [p \in Pages |-> 0]
      /\ free = <<1>> /\ list = [s \in Slots |-> <<>>]
      /\ held = [c \in Clients |-> Nothing] /\ refused = 0 /\ alert = FALSE
  BY DEF Init
<1>2. 1 \in Pages /\ N \in Nat /\ N >= 1 /\ FREE = 0 /\ PAGE = 0 /\ START = N + 1 /\ BUSY = 2 * N + 2
  BY Numbers
<1>3. /\ free \in Seq(Pages) /\ NoDup(free) /\ Firsts = {1}
  BY <1>1, <1>2 DEF NoDup, Firsts, ToSet
<1>4. Holders = {}
  BY <1>1 DEF Holders
<1>5. TypeOK
  <2>1. held \in [Clients -> Block]
    BY <1>1 DEF Nothing, Block
  <2>2. list \in [Slots -> Seq(Pages)]
    BY <1>1
  <2> QED
    BY <1>1, <1>2, <1>3, <2>1, <2>2 DEF TypeOK
<1>6. RunInv
  <2>1. ASSUME NEW h \in Firsts
        PROVE  /\ type[h] = PAGE /\ slab[h] \in 1..N /\ h + slab[h] <= N + 1
               /\ \A q \in (h + 1)..(h + slab[h] - 1) : type[q] = PAGE /\ slab[q] = FREE
               /\ slab[h] > 1 /\ h + slab[h] <= N => prev[h + slab[h] - 1] = h
               /\ h + slab[h] \notin Firsts
    <3>1. h = 1 /\ slab[h] = N /\ type[h] = PAGE
      BY <1>1, <1>2, <1>3
    <3>2. ASSUME NEW q \in 2..N PROVE type[q] = PAGE /\ slab[q] = FREE
      <4>1. q \in Pages /\ q # 1
        BY <1>2, Numbers
      <4> QED
        BY <1>1, <4>1
    <3> QED
      BY <1>2, <1>3, <3>1, <3>2
  <2>2. ASSUME NEW q \in Pages
        PROVE  \E h \in Firsts : q \in h..(h + slab[h] - 1)
    BY <1>1, <1>2, <1>3, Numbers
  <2> QED
    BY <1>3, <2>1, <2>2 DEF RunInv
<1>7. \A p \in Pages : type[p] = PAGE /\ ~FirstOfBlock(p) /\ slab[p] # BUSY
  BY <1>1, <1>2 DEF FirstOfBlock
<1>8. BlockInv
  BY <1>7 DEF BlockInv
<1>9. SlotInv
  <2>1. \A s \in Slots : NoDup(list[s]) /\ ToSet(list[s]) = {}
    BY <1>1 DEF NoDup, ToSet
  <2> QED
    BY <1>7, <2>1 DEF SlotInv
<1>10. HeldInv
  BY <1>4, <1>7 DEF HeldInv
<1>11. RefusedInv
  BY <1>1 DEF RefusedInv
<1> QED
  BY <1>1, <1>5, <1>6, <1>8, <1>9, <1>10, <1>11 DEF SlabInv

LEMMA StepKeepsInv == SlabInv /\ [Next]_vars => SlabInv'
<1> SUFFICES ASSUME SlabInv, [Next]_vars PROVE SlabInv'
  OBVIOUS
<1>1. CASE Next
  <2>1. PICK c \in Clients : Free(c) \/ \E size \in Requests : Alloc(c, size)
    BY <1>1 DEF Next
  <2> QED
    BY <2>1, AllocKeepsInv, FreeKeepsInv
<1>2. CASE UNCHANGED vars
  <2>1. /\ type' = type /\ slab' = slab /\ busy' = busy /\ prev' = prev
        /\ free' = free /\ list' = list /\ held' = held
        /\ refused' = refused /\ alert' = alert
    BY <1>2 DEF vars
  <2>2. TypeOK' /\ RunInv' /\ BlockInv' /\ SlotInv'
    BY <2>1 DEF SlabInv, TypeOK, RunInv, BlockInv, SlotInv, Firsts, Taken, FirstOfBlock, Length
  <2>3. HeldInv' /\ RefusedInv'
    BY <2>1 DEF SlabInv, HeldInv, Holders, HoldsRun, HoldsChunk, FirstOfBlock, Length,
                RefusedInv, Available
  <2> QED
    BY <2>1, <2>2, <2>3 DEF SlabInv
<1> QED
  BY <1>1, <1>2

\* The lists, the bitmaps and the pages' marks agree with what clients hold,
\* after any calls in any order.
THEOREM PoolConsistent == Spec => []SlabInv
<1>1. Init => SlabInv
  BY InitInv
<1>2. SlabInv /\ [Next]_vars => SlabInv'
  BY StepKeepsInv
<1> QED
  BY <1>1, <1>2, PTL DEF Spec
-----------------------------------------------------------------------------
(* What the invariant gives the clients *)

\* A block that was handed out can be freed and no page on a list is full, so
\* the allocator never reports an error of its own (ngx_slab_error with ALERT).
THEOREM FreesNeverRefused == Spec => []NeverRefused
<1>1. SlabInv => NeverRefused
  <2>1. ASSUME SlabInv, NEW c \in Holders PROVE Accepts(held[c].page, held[c].off)
    BY <2>1, BlockAccepted
  <2> QED
    BY <2>1 DEF NeverRefused, SlabInv
<1> QED
  BY <1>1, PoolConsistent, PTL

LEMMA ProductOfSum ==
    ASSUME NEW a \in Nat, NEW b \in Nat, NEW s \in Nat
    PROVE  (a + b) * s = a * s + b * s /\ a * s \in Nat /\ b * s \in Nat
  BY SMTT(30)

PagesOf(c) == IF type[PageOf(c)] = PAGE THEN Length(PageOf(c)) ELSE 1
From(c)    == PageOf(c) * PageSize + held[c].off

\* A block lies in its pages.
LEMMA Extent ==
    ASSUME SlabInv, NEW c \in Holders
    PROVE  /\ PageOf(c) \in Nat /\ PageOf(c) >= 1
           /\ PagesOf(c) \in Nat /\ PagesOf(c) >= 1 /\ PageOf(c) + PagesOf(c) <= N + 1
           /\ From(c) \in Nat /\ PageOf(c) * PageSize \in Nat
           /\ From(c) >= PageOf(c) * PageSize
           /\ held[c].size \in Nat /\ held[c].size >= 1
           /\ From(c) + held[c].size <= (PageOf(c) + PagesOf(c)) * PageSize
<1> DEFINE page == PageOf(c)
           size == held[c].size
           off  == held[c].off
<1>1. /\ TypeOK /\ BlockInv /\ SlotInv /\ HeldInv
      /\ PageSize \in Nat /\ N \in Nat
  BY Numbers DEF SlabInv
<1>2. /\ page \in Pages /\ off \in Nat /\ size \in Nat /\ size >= 1
      /\ HoldsRun(c) \/ HoldsChunk(c)
      /\ HoldsRun(c) => type[page] = PAGE
      /\ HoldsChunk(c) => type[page] # PAGE
  BY <1>1, HolderOf DEF PageOf
<1>3. page \in Nat /\ page >= 1 /\ page <= N /\ page * PageSize \in Nat
  BY <1>1, <1>2, Numbers, ProductMonotone
<1> HIDE DEF page, size, off
<1>4. /\ PagesOf(c) \in Nat /\ PagesOf(c) >= 1 /\ page + PagesOf(c) <= N + 1
      /\ off + size <= PagesOf(c) * PageSize
  <2>1. CASE HoldsRun(c)
    <3>1. /\ FirstOfBlock(page) /\ Length(page) = PagesFor(size) /\ off = 0
          /\ PagesOf(c) = Length(page)
      BY <1>2, <2>1 DEF HoldsRun, page, size, off, PageOf, PagesOf
    <3>2. Length(page) \in Nat /\ Length(page) >= 1 /\ page + Length(page) <= N + 1
      BY <1>1, <1>2, <3>1, BlockAt
    <3>3. size <= PagesFor(size) * PageSize
      BY <1>2, PagesForBounds
    <3> QED
      BY <1>2, <3>1, <3>2, <3>3
  <2>2. CASE HoldsChunk(c)
    <3> DEFINE s == SizeOf(c)
               n == ChunkNo(c)
    <3>1. /\ s \in Slots /\ n \in Nat /\ n < Chunks(s) /\ off = n * s
          /\ PagesOf(c) = 1
      BY <1>1, <1>2, <2>2, ChunkOf DEF PagesOf, page, off
    <3>2. s >= size
      BY <2>2 DEF HoldsChunk, SlotFor, SizeOf, PageOf, size
    <3> HIDE DEF s, n
    <3>3. s \in Nat /\ Chunks(s) \in Nat /\ Chunks(s) * s = PageSize
      BY <3>1, SlotNumbers
    <3>4. n + 1 \in Nat /\ n + 1 <= Chunks(s)
      BY <3>1, <3>3
    <3>5. (n + 1) * s <= Chunks(s) * s /\ (n + 1) * s = n * s + s /\ n * s \in Nat
      BY <3>1, <3>3, <3>4, ProductMonotone, ProductOfNext
    <3>6. off + size <= PageSize
      BY <1>2, <3>1, <3>2, <3>3, <3>5
    <3> QED
      BY <1>1, <1>3, <3>1, <3>6
  <2> QED
    BY <1>2, <2>1, <2>2
<1>5. From(c) = page * PageSize + off
  BY DEF From, page, off
<1>6. /\ (page + PagesOf(c)) * PageSize = page * PageSize + PagesOf(c) * PageSize
      /\ PagesOf(c) * PageSize \in Nat
  BY <1>1, <1>3, <1>4, ProductOfSum
<1>7. From(c) \in Nat /\ From(c) >= page * PageSize
  BY <1>2, <1>3, <1>5
<1>8. From(c) + size <= (page + PagesOf(c)) * PageSize
  BY <1>2, <1>3, <1>4, <1>5, <1>6
<1> QED
  BY <1>2, <1>3, <1>4, <1>7, <1>8 DEF page, size

\* Of two blocks, the one that begins first ends before the other begins.
LEMMA BytesApart ==
    ASSUME SlabInv, NEW c \in Holders, NEW d \in Holders,
           PageOf(c) < PageOf(d) \/ (PageOf(c) = PageOf(d) /\ held[c].off < held[d].off)
    PROVE  From(c) + held[c].size <= From(d)
<1>1. /\ TypeOK /\ BlockInv /\ SlotInv /\ HeldInv
      /\ PageSize \in Nat
  BY Numbers DEF SlabInv
<1>2. /\ PageOf(c) \in Nat /\ PagesOf(c) \in Nat /\ PageOf(d) \in Nat
      /\ From(c) \in Nat /\ From(d) \in Nat
      /\ held[c].size \in Nat
      /\ From(c) + held[c].size <= (PageOf(c) + PagesOf(c)) * PageSize
      /\ From(d) >= PageOf(d) * PageSize
  BY Extent
<1>3. /\ PageOf(c) \in Pages /\ PageOf(d) \in Pages
      /\ HoldsRun(c) \/ HoldsChunk(c)
      /\ HoldsRun(d) \/ HoldsChunk(d)
      /\ held[c].off \in Nat /\ held[d].off \in Nat
  BY <1>1, HolderOf DEF PageOf
<1>4. CASE PageOf(c) < PageOf(d)
  <2>1. PageOf(c) + PagesOf(c) <= PageOf(d)
    <3>1. CASE type[PageOf(c)] = PAGE
      <4>1. FirstOfBlock(PageOf(c)) /\ PagesOf(c) = Length(PageOf(c))
        BY <1>1, <1>3, <3>1, HolderOf DEF HoldsRun, PageOf, PagesOf
      <4>2. ~(type[PageOf(d)] = PAGE /\ slab[PageOf(d)] = BUSY)
        BY <1>1, <1>3, HolderOf DEF HoldsRun, FirstOfBlock, PageOf
      <4>3. \A q \in Pages : q > PageOf(c) /\ q < PageOf(c) + Length(PageOf(c)) =>
                                type[q] = PAGE /\ slab[q] = BUSY
        BY <1>1, <1>3, <4>1, BlockAt
      <4> QED
        BY <1>2, <1>3, <1>4, <4>1, <4>2, <4>3
    <3>2. CASE type[PageOf(c)] # PAGE
      BY <1>2, <1>4, <3>2 DEF PagesOf
    <3> QED
      BY <3>1, <3>2
  <2>2. /\ (PageOf(c) + PagesOf(c)) * PageSize <= PageOf(d) * PageSize
        /\ (PageOf(c) + PagesOf(c)) * PageSize \in Nat /\ PageOf(d) * PageSize \in Nat
    BY <1>1, <1>2, <2>1, ProductMonotone
  <2> QED
    BY <1>2, <2>2
<1>5. CASE PageOf(c) = PageOf(d) /\ held[c].off < held[d].off
  <2>1. HoldsChunk(c) /\ HoldsChunk(d)
    <3>1. CASE type[PageOf(c)] = PAGE
      <4>1. held[c].off = 0 /\ held[d].off = 0
        BY <1>1, <1>3, <1>5, <3>1, HolderOf DEF HoldsRun, PageOf
      <4> QED
        BY <1>5, <4>1
    <3>2. CASE type[PageOf(c)] # PAGE
      BY <1>1, <1>3, <1>5, <3>2, HolderOf DEF PageOf
    <3> QED
      BY <3>1, <3>2
  <2> DEFINE s == SizeOf(c)
             n == ChunkNo(c)
             m == ChunkNo(d)
  <2>2. /\ s \in Slots /\ n \in Nat /\ m \in Nat
        /\ held[c].off = n * s /\ held[d].off = m * s
    BY <1>1, <1>5, <2>1, ChunkOf DEF SizeOf
  <2>3. s >= held[c].size
    BY <2>1 DEF HoldsChunk, SlotFor, SizeOf, PageOf
  <2> HIDE DEF s, n, m
  <2>4. s \in Nat
    BY <2>2, SlotNumbers
  <2>5. n < m
    <3>1. m <= n => m * s <= n * s
      BY <2>2, <2>4, ProductMonotone
    <3>2. n * s \in Nat /\ m * s \in Nat
      BY <2>2, <2>4, ProductMonotone
    <3> QED
      BY <1>5, <2>2, <3>1, <3>2
  <2>6. (n + 1) * s <= m * s /\ (n + 1) * s = n * s + s /\ n * s \in Nat /\ m * s \in Nat
    BY <2>2, <2>4, <2>5, ProductMonotone, ProductOfNext
  <2>7. held[c].off + held[c].size <= held[d].off
    BY <1>2, <2>2, <2>3, <2>4, <2>6
  <2>8. PageOf(c) * PageSize \in Nat /\ PageOf(c) * PageSize = PageOf(d) * PageSize
    BY <1>1, <1>2, <1>5, ProductMonotone
  <2> QED
    BY <1>2, <1>3, <2>7, <2>8 DEF From
<1> QED
  BY <1>4, <1>5

\* Blocks never share a byte and never reach into a bitmap, for every pool and
\* every set of chunk sizes that divide a page.
THEOREM BlocksNeverOverlap == Spec => []BlocksDisjoint
<1>1. ASSUME SlabInv PROVE BlocksDisjoint
  <2>1. TypeOK /\ BlockInv /\ SlotInv /\ HeldInv /\ PageSize \in Nat /\ N \in Nat
    BY <1>1, Numbers DEF SlabInv
  <2>2. \A c \in Holders : /\ Bytes(c) = From(c)..(From(c) + held[c].size - 1)
                           /\ From(c) \in Nat /\ held[c].size \in Nat
    <3>1. ASSUME NEW c \in Holders
          PROVE  /\ Bytes(c) = From(c)..(From(c) + held[c].size - 1)
                 /\ From(c) \in Nat /\ held[c].size \in Nat
      BY <1>1, Extent DEF Bytes, From, PageOf
    <3> QED
      BY <3>1
  <2>3. ASSUME NEW c \in Holders
        PROVE  Bytes(c) \subseteq PageSize..((N + 1) * PageSize - 1)
    <3>1. /\ PageOf(c) \in Nat /\ PageOf(c) >= 1
          /\ PagesOf(c) \in Nat /\ PageOf(c) + PagesOf(c) <= N + 1
          /\ From(c) >= PageOf(c) * PageSize
          /\ From(c) + held[c].size <= (PageOf(c) + PagesOf(c)) * PageSize
      BY <1>1, Extent
    <3>2. 1 * PageSize <= PageOf(c) * PageSize /\ PageOf(c) * PageSize \in Nat
      BY <2>1, <3>1, ProductMonotone
    <3>3. /\ (PageOf(c) + PagesOf(c)) * PageSize <= (N + 1) * PageSize
          /\ (PageOf(c) + PagesOf(c)) * PageSize \in Nat
      BY <2>1, <3>1, ProductMonotone
    <3>4. (N + 1) * PageSize \in Nat
      BY <2>1, ProductMonotone
    <3>5. From(c) >= PageSize /\ From(c) + held[c].size <= (N + 1) * PageSize
      BY <2>1, <2>2, <3>1, <3>2, <3>3, <3>4
    <3> QED
      BY <2>1, <2>2, <3>4, <3>5
  <2>4. ASSUME NEW c \in Holders, NEW d \in Holders \ {c}
        PROVE  Bytes(c) \cap Bytes(d) = {}
    <3>1. /\ PageOf(c) \in Nat /\ PageOf(d) \in Nat
          /\ held[c].off \in Nat /\ held[d].off \in Nat
          /\ ~(PageOf(c) = PageOf(d) /\ held[c].off = held[d].off)
      BY <1>1, <2>1, Extent, HolderOf DEF HeldInv, PageOf
    <3>2. \/ PageOf(c) < PageOf(d) \/ (PageOf(c) = PageOf(d) /\ held[c].off < held[d].off)
          \/ PageOf(d) < PageOf(c) \/ (PageOf(d) = PageOf(c) /\ held[d].off < held[c].off)
      BY <3>1
    <3>3. From(c) + held[c].size <= From(d) \/ From(d) + held[d].size <= From(c)
      BY <1>1, <3>2, BytesApart
    <3>4. /\ From(c) \in Nat /\ held[c].size \in Nat /\ From(d) \in Nat /\ held[d].size \in Nat
          /\ \A b : b \in Bytes(c) => b \in From(c)..(From(c) + held[c].size - 1)
          /\ \A b : b \in Bytes(d) => b \in From(d)..(From(d) + held[d].size - 1)
      BY <2>2
    <3>5. ASSUME NEW b, b \in Bytes(c), b \in Bytes(d) PROVE FALSE
      BY <3>3, <3>4, <3>5
    <3> QED
      BY <3>5
  <2>5. ASSUME NEW c \in Holders, type[held[c].page] # PAGE
        PROVE  held[c].off >= Reserved(type[held[c].page]) * type[held[c].page]
    <3>1. HoldsChunk(c)
      BY <2>1, <2>5, HolderOf
    <3>2. /\ SizeOf(c) \in Slots /\ ChunkNo(c) \in Nat /\ ChunkNo(c) >= Reserved(SizeOf(c))
          /\ held[c].off = ChunkNo(c) * SizeOf(c)
      BY <2>1, <3>1, ChunkOf
    <3>3. SizeOf(c) \in Nat /\ Reserved(SizeOf(c)) \in Nat
      BY <3>2, SlotNumbers
    <3>4. Reserved(SizeOf(c)) * SizeOf(c) <= ChunkNo(c) * SizeOf(c)
      BY <3>2, <3>3, ProductMonotone
    <3>5. held[c].off >= Reserved(SizeOf(c)) * SizeOf(c)
      <4>1. /\ Reserved(SizeOf(c)) * SizeOf(c) \in Nat
            /\ ChunkNo(c) * SizeOf(c) \in Nat
        BY <3>2, <3>3, ProductMonotone
      <4> QED
        BY <3>2, <3>4, <4>1
    <3> QED
      BY <3>5 DEF SizeOf, PageOf
  <2> QED
    BY <2>3, <2>4, <2>5 DEF BlocksDisjoint
<1> QED
  BY <1>1, PoolConsistent, PTL
-----------------------------------------------------------------------------
(* Room *)

LEMMA UntouchedIsFree ==
    ASSUME SlabInv, NEW q \in Pages, Untouched(q)
    PROVE  ~Taken(q)
<1>1. TypeOK /\ BlockInv /\ SlotInv /\ HeldInv
  BY DEF SlabInv
<1>2. /\ q \in Nat /\ q >= 1 /\ PageSize \in Nat \ {0} /\ q * PageSize \in Nat
      /\ (q + 1) * PageSize = q * PageSize + PageSize
  <2>1. q \in Nat /\ q >= 1 /\ PageSize \in Nat \ {0}
    BY Numbers
  <2> QED
    BY <2>1, ProductMonotone, ProductOfNext
\* A block with a byte in the page touches it.
<1>3. ASSUME NEW c \in Holders, NEW b \in Nat,
             b >= From(c), b < From(c) + held[c].size,
             b >= q * PageSize, b < q * PageSize + PageSize
      PROVE  FALSE
  <2>1. From(c) \in Nat /\ held[c].size \in Nat
    BY Extent
  <2>2. b \in Bytes(c)
    <3>1. Bytes(c) = From(c)..(From(c) + held[c].size - 1)
      BY DEF Bytes, From, PageOf
    <3> QED
      BY <1>3, <2>1, <3>1
  <2>3. b \in (q * PageSize)..((q + 1) * PageSize - 1)
    BY <1>2, <1>3
  <2> QED
    BY <2>2, <2>3 DEF Untouched
<1>4. ASSUME type[q] # PAGE PROVE FALSE
  <2>1. PICK n \in busy[q] : n >= Reserved(type[q])
    BY <1>1, <1>4, CutPage
  <2>2. type[q] \in Slots /\ n \in Nat /\ n < Chunks(type[q])
    BY <1>1, <1>4, CutPage
  <2>3. PICK c \in Holders : held[c].page = q /\ held[c].off = n * type[q]
    BY <1>1, <1>4, <2>1 DEF HeldInv
  <2>4. From(c) = q * PageSize + n * type[q]
    BY <2>3 DEF From, PageOf
  <2>5. /\ From(c) \in Nat /\ held[c].size >= 1 /\ held[c].size \in Nat
        /\ From(c) >= q * PageSize
        /\ From(c) + held[c].size <= (q + 1) * PageSize
    <3>1. PagesOf(c) = 1 /\ PageOf(c) = q
      BY <1>4, <2>3 DEF PagesOf, PageOf
    <3> QED
      BY <3>1, Extent
  <2>6. From(c) < q * PageSize + PageSize /\ From(c) < From(c) + held[c].size
    BY <1>2, <2>5
  <2> QED
    BY <1>3, <2>5, <2>6
<1>5. ASSUME type[q] = PAGE, slab[q] >= START PROVE FALSE
  <2>1. PICK p \in Pages : /\ FirstOfBlock(p) /\ q >= p /\ q <= p + Length(p) - 1
    <3>1. CASE slab[q] = BUSY
      <4>1. PICK p \in Pages : FirstOfBlock(p) /\ q \in p..(p + Length(p) - 1)
        BY <1>1, <1>5, <3>1 DEF BlockInv
      <4>2. p \in Nat /\ Length(p) \in Nat
        BY <1>1, <4>1, BlockAt, Numbers
      <4> QED
        BY <4>1, <4>2
    <3>2. CASE slab[q] # BUSY
      <4>1. FirstOfBlock(q)
        BY <1>5, <3>2 DEF FirstOfBlock
      <4>2. Length(q) \in Nat /\ Length(q) >= 1
        BY <1>1, <4>1, BlockAt
      <4> QED
        BY <1>2, <4>1, <4>2
    <3> QED
      BY <3>1, <3>2
  <2>2. PICK c \in Holders : held[c].page = p
    BY <1>1, <2>1 DEF HeldInv
  <2>3. /\ Length(p) = PagesFor(held[c].size) /\ held[c].off = 0
        /\ held[c].size \in Nat /\ held[c].size >= 1
        /\ From(c) \in Nat
    <3>1. HoldsRun(c)
      BY <1>1, <2>1, <2>2, HolderOf DEF FirstOfBlock
    <3> QED
      BY <2>2, <3>1, Extent DEF HoldsRun
  <2> DEFINE size == held[c].size
             L == Length(p)
  <2>4. L \in Nat /\ L >= 1 /\ (L - 1) * PageSize < size
    <3>1. size \in Nat \ {0}
      BY <2>3
    <3> HIDE DEF size, L
    <3>2. PagesFor(size) \in Nat \ {0} /\ (PagesFor(size) - 1) * PageSize < size
      BY <3>1, PagesForBounds
    <3>3. L = PagesFor(size)
      BY <2>3 DEF L, size
    <3> QED
      BY <3>2, <3>3
  <2> HIDE DEF size, L
  <2>5. p \in Nat /\ p >= 1
    BY Numbers
  <2>6. PICK k \in Nat : k <= L - 1 /\ q = p + k
    <3>1. q - p \in Nat /\ q - p <= L - 1 /\ q = p + (q - p)
      BY <1>2, <2>1, <2>4, <2>5 DEF L
    <3> QED
      BY <3>1
  <2>7. /\ q * PageSize = p * PageSize + k * PageSize
        /\ k * PageSize \in Nat /\ p * PageSize \in Nat
        /\ k * PageSize <= (L - 1) * PageSize /\ (L - 1) * PageSize \in Nat
    <3>1. L - 1 \in Nat /\ PageSize \in Nat
      BY <1>2, <2>4
    <3> QED
      BY <2>5, <2>6, <3>1, ProductOfSum, ProductMonotone
  <2>8. From(c) = p * PageSize
    <3>1. From(c) = p * PageSize + 0
      BY <2>2, <2>3 DEF From, PageOf
    <3> QED
      BY <2>7, <3>1
  <2>9. q * PageSize >= From(c) /\ q * PageSize < From(c) + size
    BY <2>3, <2>4, <2>7, <2>8 DEF size
  <2> QED
    BY <1>2, <1>3, <2>9 DEF size
<1> QED
  BY <1>4, <1>5 DEF Taken

\* Free pages side by side are of one run.
LEMMA PagesSideBySide ==
    ASSUME TypeOK, RunInv, NEW p \in Pages, NEW n \in Nat \ {0},
           \A q \in p..(p + n - 1) : q \in Pages /\ ~Taken(q)
    PROVE  Available(n)
<1>1. p \in Nat /\ p \in p..(p + n - 1)
  BY Numbers
<1>2. PICK h \in Firsts : p >= h /\ p < h + slab[h]
  BY <1>1, RunAt
<1>3. h \in Nat /\ slab[h] \in Nat /\ h + slab[h] \notin Firsts
  BY RunOf, Numbers
<1>4. h + slab[h] > p + n - 1
  <2>1. SUFFICES ASSUME h + slab[h] <= p + n - 1 PROVE FALSE
    BY <1>1, <1>3
  <2> DEFINE e == h + slab[h]
  <2>2. e \in p..(p + n - 1)
    BY <1>1, <1>2, <1>3, <2>1
  <2>3. e \in Pages /\ ~Taken(e) /\ e \in Nat
    BY <1>3, <2>2
  <2> HIDE DEF e
  <2>4. PICK g \in Firsts : e >= g /\ e < g + slab[g]
    BY <2>3, RunAt
  <2>5. g \in Nat /\ slab[g] \in Nat
    BY RunOf, Numbers
  <2>6. g # h
    BY <1>3, <2>4 DEF e
  <2>7. CASE g < h
    <3>1. g + slab[g] < h
      BY <2>7, RunsApart
    <3> QED
      BY <1>3, <2>4, <2>5, <3>1 DEF e
  <2>8. CASE h < g
    <3>1. e < g
      BY <2>8, RunsApart DEF e
    <3> QED
      BY <2>3, <2>4, <2>5, <3>1
  <2> QED
    BY <1>3, <2>5, <2>6, <2>7, <2>8
<1>5. slab[h] >= n
  BY <1>1, <1>2, <1>3, <1>4
<1> QED
  BY <1>5 DEF Available, Firsts

\* A call that returns NULL finds a pool in which no page, no row of pages and
\* no chunk of the size asked for could have been handed out.
THEOREM NothingWasted == Spec => []FailsOnlyWhenFull
<1>1. ASSUME SlabInv, refused # 0, Room(refused) PROVE FALSE
  <2>1. /\ TypeOK /\ RunInv /\ SlotInv /\ HeldInv
        /\ ~Available(IF refused > MaxSize THEN PagesFor(refused) ELSE 1)
        /\ refused <= MaxSize => \E s \in Slots : SlotFor(s, refused) /\ list[s] = <<>>
        /\ refused \in Nat \ {0} /\ MaxSize \in Nat
    <3>1. refused \in Nat \ {0}
      BY <1>1, Numbers DEF SlabInv, TypeOK
    <3>2. MaxSize \in Nat
      BY Numbers, Division DEF MaxSize
    <3> QED
      BY <1>1, <3>1, <3>2 DEF SlabInv, RefusedInv
  <2>2. CASE refused > MaxSize
    <3>1. PICK p \in Pages : \A q \in p..(p + PagesFor(refused) - 1) : q \in Pages /\ Untouched(q)
      BY <1>1, <2>2 DEF Room
    <3>2. PagesFor(refused) \in Nat \ {0}
      BY <2>1, PagesForBounds
    <3>3. \A q \in p..(p + PagesFor(refused) - 1) : q \in Pages /\ ~Taken(q)
      BY <1>1, <3>1, UntouchedIsFree
    <3> QED
      BY <2>1, <2>2, <3>2, <3>3, PagesSideBySide
  <2>3. CASE ~(refused > MaxSize)
    <3>1. ~Available(1) /\ \E s \in Slots : SlotFor(s, refused) /\ list[s] = <<>>
      BY <2>1, <2>3
    <3>2. PICK p \in Pages : Untouched(p) \/ \E s \in Slots : SlotFor(s, refused) /\ HasChunk(p, s)
      BY <1>1, <2>3 DEF Room
    <3>3. CASE Untouched(p)
      <4>1. ~Taken(p)
        BY <1>1, <3>3, UntouchedIsFree
      <4>2. \A q \in p..(p + 1 - 1) : q \in Pages /\ ~Taken(q)
        <5>1. \A q \in p..(p + 1 - 1) : q = p
          BY Numbers
        <5> QED
          BY <4>1, <5>1
      <4>3. 1 \in Nat \ {0}
        OBVIOUS
      <4> QED
        BY <2>1, <3>1, <4>2, <4>3, PagesSideBySide
    <3>4. CASE ~Untouched(p)
      <4>1. PICK s \in Slots : SlotFor(s, refused) /\ HasChunk(p, s)
        BY <3>2, <3>4
      <4>2. list[s] = <<>>
        <5>1. PICK t \in Slots : SlotFor(t, refused) /\ list[t] = <<>>
          BY <3>1
        <5>2. s = t
          BY <4>1, <5>1, SlotNumbers DEF SlotFor
        <5> QED
          BY <5>1, <5>2
      <4>3. type[p] = s
        <5>1. PICK c \in Holders : /\ held[c].page = p /\ held[c].size <= MaxSize
                                   /\ SlotFor(s, held[c].size)
          BY <4>1 DEF HasChunk
        <5>2. /\ type[p] \in Slots /\ SlotFor(type[p], held[c].size)
              /\ held[c].size \in Nat
          <6>1. ~HoldsRun(c) /\ held[c].size \in Nat
            BY <1>1, <2>1, <5>1, HolderOf DEF HoldsRun, SlabInv
          <6>2. HoldsChunk(c)
            BY <2>1, <6>1 DEF HeldInv
          <6> QED
            BY <5>1, <6>1, <6>2 DEF HoldsChunk
        <5> QED
          BY <5>1, <5>2, SlotNumbers DEF SlotFor
      <4>4. PICK n \in Reserved(s)..(Chunks(s) - 1) :
               \A c \in Holders : held[c].page = p => held[c].off # n * s
        BY <4>1 DEF HasChunk
      <4>5. n \notin busy[p] /\ n \in 0..(Chunks(s) - 1)
        <5>1. Reserved(s) \in Nat /\ Chunks(s) \in Nat /\ s # PAGE
          BY SlotNumbers, Numbers
        <5>2. n >= Reserved(s) /\ n \in 0..(Chunks(s) - 1)
          BY <5>1
        <5> QED
          BY <2>1, <4>3, <4>4, <5>1, <5>2 DEF HeldInv
      <4>6. p \in ToSet(list[s])
        <5>1. ~IsFull(busy[p], s) /\ s # PAGE
          BY <4>5, SlotNumbers, Numbers DEF IsFull
        <5> QED
          BY <2>1, <4>3, <5>1, CutPage
      <4> QED
        BY <4>2, <4>6 DEF ToSet
    <3> QED
      BY <3>3, <3>4
  <2> QED
    BY <2>2, <2>3
<1>2. SlabInv => FailsOnlyWhenFull
  BY <1>1 DEF FailsOnlyWhenFull
<1> QED
  BY <1>2, PoolConsistent, PTL
=============================================================================
