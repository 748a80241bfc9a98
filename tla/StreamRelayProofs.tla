-------------------------- MODULE StreamRelayProofs --------------------------
(***************************************************************************)
(* The relayed bytes of StreamProxy for every value of its constants: what *)
(* goes out of a direction is what came in, an end of input overtakes no   *)
(* byte, the chains hold what was read and is not written, and a session   *)
(* that ends in order has passed everything on; hence the session          *)
(* implements the channels of module Relay; and no edge that epoll reports *)
(* is lost on its way to the handlers.                                     *)
(***************************************************************************)
EXTENDS StreamProxyProofs, SequenceTheorems, FiniteSetTheorems, WellFoundedInduction

-----------------------------------------------------------------------------
(* A chain of pieces of the buffer.  Nothing here depends on the state:    *)
(* B maps buffers to their contents, L is where the data in the buffer     *)
(* ends, r and w count the bytes read and written.                         *)

\* A piece of the data, never empty, or the end of the input.
PieceOK(x, L) == /\ x.pos <= x.last /\ x.last <= L
                 /\ IF x.temp THEN x.pos < x.last ELSE x.pos = L

\* The chain p covers without a gap what was read and is not written, the
\* ends of input after the data.
Flow(p, B, L, r, w) ==
    /\ \A i \in 1 .. Len(p) : PieceOK(B[p[i]], L)
    /\ \A i \in 1 .. Len(p) - 1 : B[p[i]].last = B[p[i + 1]].pos
    /\ \A i, j \in 1 .. Len(p) : i < j /\ ~B[p[i]].temp => ~B[p[j]].temp
    /\ Len(p) = 0 => w = r
    /\ Len(p) > 0 => B[p[Len(p)]].last = L /\ w = r - L + B[p[1]].pos

\* What the lemmas assume of the buffers.
Known(B) == \A b \in BufId : B[b].pos \in Nat /\ B[b].last \in Nat /\ B[b].temp \in BOOLEAN

\* A chain whose buffers keep their contents covers the same bytes.
LEMMA FlowKept ==
    ASSUME NEW p, NEW B, NEW B2, NEW L, NEW r, NEW w, Flow(p, B, L, r, w),
           Len(p) \in Nat, \A i \in 1 .. Len(p) : B2[p[i]] = B[p[i]]
    PROVE  Flow(p, B2, L, r, w)
<1>1. \A i \in 1 .. Len(p) : PieceOK(B2[p[i]], L)
  BY DEF Flow
<1>2. \A i \in 1 .. Len(p) - 1 : B2[p[i]].last = B2[p[i + 1]].pos
  <2> TAKE i \in 1 .. Len(p) - 1
  <2>1. i \in 1 .. Len(p) /\ i + 1 \in 1 .. Len(p)
    OBVIOUS
  <2> QED
    BY <2>1 DEF Flow
<1>3. \A i, j \in 1 .. Len(p) : i < j /\ ~B2[p[i]].temp => ~B2[p[j]].temp
  BY DEF Flow
<1>4. Len(p) = 0 => w = r
  BY DEF Flow
<1>5. Len(p) > 0 => B2[p[Len(p)]].last = L /\ w = r - L + B2[p[1]].pos
  <2>1. Len(p) > 0 => 1 \in 1 .. Len(p) /\ Len(p) \in 1 .. Len(p)
    OBVIOUS
  <2> QED
    BY <2>1 DEF Flow
<1> QED
  BY <1>1, <1>2, <1>3, <1>4, <1>5 DEF Flow

\* A chain without data, or none, has nothing left to write.
LEMMA FlowDropped ==
    ASSUME NEW p, NEW B, NEW L \in Nat, NEW r \in Nat, NEW w \in Nat, Flow(p, B, L, r, w),
           Len(p) \in Nat, \A i \in 1 .. Len(p) : ~B[p[i]].temp
    PROVE  w = r
<1>1. CASE Len(p) = 0
  BY <1>1 DEF Flow
<1>2. CASE Len(p) > 0
  <2>1. PieceOK(B[p[1]], L) /\ ~B[p[1]].temp /\ w = r - L + B[p[1]].pos
    BY <1>2 DEF Flow
  <2>2. B[p[1]].pos = L
    BY <2>1 DEF PieceOK
  <2> QED
    BY <2>1, <2>2
<1> QED
  BY <1>1, <1>2

\* Nothing is nothing's cover.
LEMMA FlowEmpty ==
    ASSUME NEW B, NEW L, NEW r, NEW w, w = r PROVE Flow(<<>>, B, L, r, w)
BY DEF Flow

\* The first piece is written completely and leaves the chain.
LEMMA FlowTail ==
    ASSUME NEW p \in Seq(BufId), p # <<>>, NEW B, NEW B2, Known(B),
           NEW L \in Nat, NEW r \in Nat, NEW w \in Nat, Flow(p, B, L, r, w),
           \A i \in 2 .. Len(p) : B2[p[i]] = B[p[i]]
    PROVE  Flow(Tail(p), B2, L, r, w + (B[p[1]].last - B[p[1]].pos))
<1> DEFINE q == Tail(p)
<1>1. Len(p) \in Nat /\ Len(p) > 0 /\ Len(q) = Len(p) - 1 /\ \A i \in 1 .. Len(q) : q[i] = p[i + 1]
  BY HeadTailProperties, EmptySeq
<1>2. p[1] \in BufId
  BY <1>1, ElementOfSeq
<1>3. B[p[1]].pos \in Nat /\ B[p[1]].last \in Nat
  BY <1>2 DEF Known
<1>4. w = r - L + B[p[1]].pos
  BY <1>1 DEF Flow
<1>5. \A i \in 1 .. Len(q) : B2[q[i]] = B[p[i + 1]] /\ i + 1 \in 2 .. Len(p)
  BY <1>1
<1> HIDE DEF q
<1>6. \A i \in 1 .. Len(q) : PieceOK(B2[q[i]], L)
  <2> TAKE i \in 1 .. Len(q)
  <2>1. i + 1 \in 1 .. Len(p) /\ B2[q[i]] = B[p[i + 1]]
    BY <1>1, <1>5
  <2>2. PieceOK(B[p[i + 1]], L)
    BY <2>1 DEF Flow
  <2> QED
    BY <2>1, <2>2
<1>7. \A i \in 1 .. Len(q) - 1 : B2[q[i]].last = B2[q[i + 1]].pos
  <2> TAKE i \in 1 .. Len(q) - 1
  <2>1. i \in 1 .. Len(q) /\ i + 1 \in 1 .. Len(q) /\ i + 1 \in 1 .. Len(p) - 1
    BY <1>1
  <2> QED
    BY <2>1, <1>5 DEF Flow
<1>8. \A i, j \in 1 .. Len(q) : i < j /\ ~B2[q[i]].temp => ~B2[q[j]].temp
  <2> TAKE i, j \in 1 .. Len(q)
  <2>1. i + 1 \in 1 .. Len(p) /\ j + 1 \in 1 .. Len(p) /\ (i < j => i + 1 < j + 1)
    BY <1>1
  <2> QED
    BY <2>1, <1>5 DEF Flow
<1> DEFINE w2 == w + (B[p[1]].last - B[p[1]].pos)
<1>9. ASSUME Len(q) = 0 PROVE Flow(q, B2, L, r, w2)
  <2>1. Len(p) = 1
    BY <1>1, <1>9
  <2>2. B[p[Len(p)]].last = L
    BY <1>1 DEF Flow
  <2>3. w + (B[p[1]].last - B[p[1]].pos) = r
    BY <1>3, <1>4, <2>1, <2>2
  <2> QED
    BY <1>6, <1>7, <1>8, <1>9, <2>3 DEF Flow
<1>10. ASSUME Len(q) > 0 PROVE Flow(q, B2, L, r, w2)
  <2>1. Len(q) \in 1 .. Len(q) /\ Len(q) + 1 = Len(p) /\ 1 \in 1 .. Len(q) /\ 1 \in 1 .. Len(p) - 1
    BY <1>1, <1>10
  <2>2. B2[q[Len(q)]] = B[p[Len(p)]] /\ B2[q[1]] = B[p[2]]
    BY <1>5, <2>1
  <2>3. B[p[1]].last = B[p[2]].pos /\ B[p[Len(p)]].last = L
    BY <1>1, <2>1 DEF Flow
  <2>4. w + (B[p[1]].last - B[p[1]].pos) = r - L + B2[q[1]].pos
    <3>1. B2[q[1]].pos = B[p[1]].last
      BY <2>2, <2>3
    <3> QED
      BY ONLY <1>3, <1>4, <3>1, L \in Nat, r \in Nat, w \in Nat
  <2>5. B2[q[Len(q)]].last = L
    BY <2>2, <2>3
  <2> QED
    BY <1>6, <1>7, <1>8, <1>10, <2>4, <2>5 DEF Flow
<1>11. Flow(q, B2, L, r, w + (B[p[1]].last - B[p[1]].pos))
  BY <1>1, <1>9, <1>10
<1> QED
  BY <1>11 DEF q

\* n bytes of the first piece are written, and some of it is left.
LEMMA FlowPart ==
    ASSUME NEW p \in Seq(BufId), p # <<>>, NEW B, NEW B2, Known(B),
           NEW L \in Nat, NEW r \in Nat, NEW w \in Nat, Flow(p, B, L, r, w),
           \A i \in 2 .. Len(p) : B2[p[i]] = B[p[i]],
           NEW n \in Nat, B[p[1]].temp, n < B[p[1]].last - B[p[1]].pos,
           B2[p[1]] = [pos |-> B[p[1]].pos + n, last |-> B[p[1]].last, temp |-> B[p[1]].temp]
    PROVE  Flow(p, B2, L, r, w + n)
<1>1. Len(p) \in Nat /\ Len(p) > 0
  BY EmptySeq
<1>2. p[1] \in BufId
  BY <1>1, ElementOfSeq
<1>3. B[p[1]].pos \in Nat /\ B[p[1]].last \in Nat
  BY <1>2 DEF Known
<1>4. B2[p[1]].pos = B[p[1]].pos + n /\ B2[p[1]].last = B[p[1]].last /\ B2[p[1]].temp = B[p[1]].temp
  OBVIOUS
<1>5. \A i \in 1 .. Len(p) : PieceOK(B2[p[i]], L)
  <2>1. \A i \in 1 .. Len(p) : PieceOK(B[p[i]], L)
    BY DEF Flow
  <2>2. PieceOK(B[p[1]], L)
    BY <1>1, <2>1
  <2>3. PieceOK(B2[p[1]], L)
    BY ONLY <1>3, <1>4, <2>2, n \in Nat, L \in Nat, B[p[1]].temp, n < B[p[1]].last - B[p[1]].pos
       DEF PieceOK
  <2>4. \A i \in 1 .. Len(p) : i = 1 \/ i \in 2 .. Len(p)
    BY <1>1
  <2> QED
    BY <2>1, <2>3, <2>4
<1>6. \A i \in 1 .. Len(p) : B2[p[i]].last = B[p[i]].last /\ (B2[p[i]].temp <=> B[p[i]].temp)
  BY <1>4
<1>7. \A i \in 1 .. Len(p) - 1 : B2[p[i]].last = B2[p[i + 1]].pos
  <2> TAKE i \in 1 .. Len(p) - 1
  <2>1. i \in 1 .. Len(p) /\ i + 1 \in 2 .. Len(p)
    BY <1>1
  <2>2. B[p[i]].last = B[p[i + 1]].pos
    BY DEF Flow
  <2> QED
    BY <1>6, <2>1, <2>2
<1>8. \A i, j \in 1 .. Len(p) : i < j /\ ~B2[p[i]].temp => ~B2[p[j]].temp
  BY <1>6 DEF Flow
<1>9. B2[p[Len(p)]].last = L
  BY <1>1, <1>6 DEF Flow
<1>10. w + n = r - L + B2[p[1]].pos
  <2>1. w = r - L + B[p[1]].pos
    BY <1>1 DEF Flow
  <2> QED
    BY <2>1, <1>3, <1>4
<1> QED
  BY <1>1, <1>5, <1>7, <1>8, <1>9, <1>10 DEF Flow

\* n bytes more are read into a piece of their own, or with n = 0 the end.
LEMMA FlowAppend ==
    ASSUME NEW p \in Seq(BufId), NEW b \in BufId, NEW B, NEW B2, Known(B),
           NEW L \in Nat, NEW r \in Nat, NEW w \in Nat, NEW n \in Nat, Flow(p, B, L, r, w),
           \A i \in 1 .. Len(p) : B2[p[i]] = B[p[i]],
           B2[b].pos = L, B2[b].last = L + n, B2[b].temp <=> n > 0,
           n > 0 => \A i \in 1 .. Len(p) : B[p[i]].temp
    PROVE  Flow(Append(p, b), B2, L + n, r + n, w)
<1> DEFINE q == Append(p, b)
<1>1. /\ Len(p) \in Nat /\ Len(q) = Len(p) + 1 /\ q[Len(p) + 1] = b
      /\ \A i \in 1 .. Len(p) : q[i] = p[i]
  BY AppendProperties, LenProperties
<1>2. \A i \in 1 .. Len(p) : p[i] \in BufId
  BY ElementOfSeq
<1> HIDE DEF q
<1>3. B2[b].pos = L /\ B2[b].last = L + n /\ (B2[b].temp <=> n > 0)
  OBVIOUS
<1>4. \A i \in 1 .. Len(p) : B2[q[i]] = B[p[i]]
  BY <1>1
<1>5. \A i \in 1 .. Len(q) : PieceOK(B2[q[i]], L + n)
  <2> TAKE i \in 1 .. Len(q)
  <2>1. CASE i = Len(p) + 1
    BY <1>1, <1>3, <2>1 DEF PieceOK
  <2>2. CASE i # Len(p) + 1
    <3>1. i \in 1 .. Len(p)
      BY <1>1, <2>2
    <3>2. PieceOK(B[p[i]], L) /\ B[p[i]].pos \in Nat /\ B[p[i]].last \in Nat
      BY <3>1, <1>2 DEF Flow, Known
    <3>3. n > 0 => B[p[i]].temp
      BY <3>1
    <3>4. CASE n > 0
      <4>1. B[p[i]].temp /\ B2[q[i]] = B[p[i]]
        BY <1>4, <3>1, <3>3, <3>4
      <4>2. B[p[i]].pos < B[p[i]].last /\ B[p[i]].last <= L + n
        BY <3>2, <4>1 DEF PieceOK
      <4>3. B[p[i]].pos <= B[p[i]].last
        BY <3>2, <4>2
      <4> QED
        BY <4>1, <4>2, <4>3 DEF PieceOK
    <3>5. CASE n = 0
      <4>1. B2[q[i]] = B[p[i]] /\ L + n = L
        BY <1>4, <3>1, <3>5
      <4> QED
        BY ONLY <3>2, <4>1
    <3> QED
      BY <3>4, <3>5
  <2> QED
    BY <2>1, <2>2
<1>6. \A i \in 1 .. Len(q) - 1 : B2[q[i]].last = B2[q[i + 1]].pos
  <2> TAKE i \in 1 .. Len(q) - 1
  <2>1. i \in 1 .. Len(p)
    BY <1>1
  <2>2. CASE i = Len(p)
    <3>1. B[p[i]].last = L
      BY <1>1, <2>1, <2>2 DEF Flow
    <3> QED
      BY <1>1, <1>3, <1>4, <2>1, <2>2, <3>1
  <2>3. CASE i # Len(p)
    <3>1. i \in 1 .. Len(p) - 1 /\ i + 1 \in 1 .. Len(p)
      BY <1>1, <2>1, <2>3
    <3>2. B[p[i]].last = B[p[i + 1]].pos
      BY <3>1 DEF Flow
    <3> QED
      BY <1>4, <2>1, <3>1, <3>2
  <2> QED
    BY <2>2, <2>3
<1>7. \A i, j \in 1 .. Len(q) : i < j /\ ~B2[q[i]].temp => ~B2[q[j]].temp
  <2> TAKE i, j \in 1 .. Len(q)
  <2>1. CASE i < j /\ ~B2[q[i]].temp
    <3>1. i \in 1 .. Len(p)
      BY <1>1, <2>1
    <3>2. ~B[p[i]].temp
      BY <1>4, <2>1, <3>1
    <3>3. n = 0
      BY <3>1, <3>2
    <3>4. CASE j = Len(p) + 1
      BY <1>1, <1>3, <3>3, <3>4
    <3>5. CASE j # Len(p) + 1
      <4>1. j \in 1 .. Len(p)
        BY <1>1, <3>5
      <4> QED
        BY <1>4, <2>1, <3>1, <3>2, <4>1 DEF Flow
    <3> QED
      BY <3>4, <3>5
  <2> QED
    BY <2>1
<1>8. w = (r + n) - (L + n) + B2[q[1]].pos
  <2>1. CASE Len(p) = 0
    BY <1>1, <1>3, <2>1 DEF Flow
  <2>2. CASE Len(p) > 0
    <3>1. B2[q[1]] = B[p[1]] /\ w = r - L + B[p[1]].pos /\ B[p[1]].pos \in Nat
      BY <1>1, <1>2, <1>4, <2>2 DEF Flow, Known
    <3> QED
      BY <3>1
  <2> QED
    BY <1>1, <2>1, <2>2
<1>9. B2[q[Len(q)]].last = L + n /\ Len(q) > 0 /\ Len(q) # 0
  BY <1>1, <1>3
<1>10. Flow(q, B2, L + n, r + n, w)
  BY <1>5, <1>6, <1>7, <1>8, <1>9 DEF Flow
<1> QED
  BY <1>10 DEF q

-----------------------------------------------------------------------------
(* The chains C of both directions and the free chain f share the first N  *)
(* buffers of the pool.                                                    *)

\* Every buffer is in one place.
Own(C, f, N) ==
    /\ \A d \in Dir : \A i \in 1 .. Len(C[d]) : C[d][i] <= N
    /\ \A i \in 1 .. Len(f) : f[i] <= N
    /\ \A d, e \in Dir : \A i \in 1 .. Len(C[d]), j \in 1 .. Len(C[e]) :
          C[d][i] = C[e][j] => d = e /\ i = j
    /\ \A d \in Dir : \A i \in 1 .. Len(C[d]), j \in 1 .. Len(f) : C[d][i] # f[j]
    /\ \A i, j \in 1 .. Len(f) : f[i] = f[j] => i = j

\* A buffer is taken from the free chain's head, or from the pool.
Taken(b, f, N, f2, N2) ==
    \/ f # <<>> /\ b = Head(f) /\ f2 = Tail(f) /\ N2 = N
    \/ f = <<>> /\ b = N + 1 /\ f2 = f /\ N2 = N + 1

\* What is taken is in no chain, and in the free chain only at its head.
LEMMA TakenFresh ==
    ASSUME NEW C \in [Dir -> Seq(BufId)], NEW f \in Seq(BufId), NEW N \in Nat, Own(C, f, N),
           NEW b, NEW f2, NEW N2, Taken(b, f, N, f2, N2)
    PROVE  /\ \A d \in Dir : \A i \in 1 .. Len(C[d]) : C[d][i] # b
           /\ Len(f2) \in Nat /\ N2 \in Nat /\ N <= N2 /\ b <= N2
           /\ \A i \in 1 .. Len(f2) : f2[i] # b /\ i + 1 \in 1 .. Len(f) /\ f2[i] = f[i + 1]
<1>1. CASE f # <<>> /\ b = Head(f) /\ f2 = Tail(f) /\ N2 = N
  <2>1. Len(f) \in Nat /\ Len(f) > 0 /\ b = f[1]
    BY <1>1, EmptySeq
  <2>2. Len(f2) = Len(f) - 1 /\ \A i \in 1 .. Len(f2) : f2[i] = f[i + 1]
    BY <1>1, HeadTailProperties
  <2>3. \A d \in Dir : \A i \in 1 .. Len(C[d]) : C[d][i] # b
    BY <2>1 DEF Own
  <2>4. ASSUME NEW i \in 1 .. Len(f2) PROVE f2[i] # b /\ i + 1 \in 1 .. Len(f)
    <3>1. i + 1 \in 1 .. Len(f) /\ 1 \in 1 .. Len(f) /\ i + 1 # 1
      BY <2>1, <2>2
    <3> QED
      BY <2>1, <2>2, <3>1 DEF Own
  <2>5. b <= N2
    BY <1>1, <2>1 DEF Own
  <2> QED
    BY <1>1, <2>1, <2>2, <2>3, <2>4, <2>5
<1>2. CASE f = <<>> /\ b = N + 1 /\ f2 = f /\ N2 = N + 1
  <2>1. Len(f2) = 0 /\ 1 .. Len(f2) = {}
    BY <1>2
  <2>2. ASSUME NEW d \in Dir, NEW i \in 1 .. Len(C[d]) PROVE C[d][i] # b
    <3>1. C[d][i] <= N
      BY DEF Own
    <3>2. C[d] \in Seq(BufId)
      OBVIOUS
    <3>3. C[d][i] \in BufId
      BY <3>2, ElementOfSeq
    <3> QED
      BY <1>2, <3>1, <3>3 DEF BufId
  <2>3. N2 \in Nat /\ N <= N2 /\ b <= N2
    BY <1>2
  <2>4. Len(f2) \in Nat /\ \A i \in 1 .. Len(f2) : FALSE
    BY <2>1
  <2> QED
    BY <2>2, <2>3, <2>4
<1> QED
  BY <1>1, <1>2 DEF Taken

\* Taking a buffer and appending it to a chain leaves every buffer in one place.
LEMMA OwnAppend ==
    ASSUME NEW C \in [Dir -> Seq(BufId)], NEW f \in Seq(BufId), NEW N \in Nat, Own(C, f, N),
           NEW b \in BufId, NEW f2, NEW N2, Taken(b, f, N, f2, N2), NEW d \in Dir,
           NEW C2, C2 = [C EXCEPT ![d] = Append(C[d], b)]
    PROVE  Own(C2, f2, N2)
<1>1. /\ \A e \in Dir : \A i \in 1 .. Len(C[e]) : C[e][i] # b
      /\ Len(f2) \in Nat /\ N2 \in Nat /\ N <= N2 /\ b <= N2
      /\ \A i \in 1 .. Len(f2) : f2[i] # b /\ i + 1 \in 1 .. Len(f) /\ f2[i] = f[i + 1]
  <2>1. /\ C \in [Dir -> Seq(BufId)] /\ f \in Seq(BufId) /\ N \in Nat
        /\ Own(C, f, N) /\ Taken(b, f, N, f2, N2)
    OBVIOUS
  <2> QED
    BY ONLY <2>1, TakenFresh
<1>2. \A e \in Dir : Len(C[e]) \in Nat /\ \A i \in 1 .. Len(C[e]) : C[e][i] \in BufId
  BY LenProperties, ElementOfSeq
<1>3. /\ Len(C2[d]) = Len(C[d]) + 1 /\ C2[d][Len(C[d]) + 1] = b
      /\ \A i \in 1 .. Len(C[d]) : C2[d][i] = C[d][i]
  BY AppendProperties
<1>4. \A e \in Dir : e # d => C2[e] = C[e]
  OBVIOUS
<1>5. \A e \in Dir : \A i \in 1 .. Len(C2[e]) :
         \/ i \in 1 .. Len(C[e]) /\ C2[e][i] = C[e][i]
         \/ e = d /\ i = Len(C[d]) + 1 /\ C2[e][i] = b
  <2> TAKE e \in Dir
  <2>1. CASE e = d
    BY <1>2, <1>3, <2>1
  <2>2. CASE e # d
    BY <1>4, <2>2
  <2> QED
    BY <2>1, <2>2
<1>6. \A e \in Dir : \A i \in 1 .. Len(C2[e]) : C2[e][i] <= N2
  <2> TAKE e \in Dir
  <2> TAKE i \in 1 .. Len(C2[e])
  <2>1. CASE i \in 1 .. Len(C[e]) /\ C2[e][i] = C[e][i]
    <3>1. C[e][i] <= N /\ C[e][i] \in BufId
      BY <1>2, <2>1 DEF Own
    <3>2. C[e][i] \in Nat
      BY <3>1, ConstantsAssumption DEF BufId
    <3> QED
      BY <1>1, <2>1, <3>1, <3>2
  <2>2. CASE C2[e][i] = b
    BY <1>1, <2>2
  <2> QED
    BY <1>5, <2>1, <2>2
<1>7. \A i \in 1 .. Len(f2) : f2[i] <= N2
  <2> TAKE i \in 1 .. Len(f2)
  <2>1. f2[i] = f[i + 1] /\ i + 1 \in 1 .. Len(f)
    BY <1>1
  <2>2. f[i + 1] <= N /\ f[i + 1] \in BufId
    BY <2>1, ElementOfSeq DEF Own
  <2>3. f[i + 1] \in Nat
    BY <2>2, ConstantsAssumption DEF BufId
  <2> QED
    BY <1>1, <2>1, <2>2, <2>3
<1>8. \A e1, e2 \in Dir : \A i \in 1 .. Len(C2[e1]), j \in 1 .. Len(C2[e2]) :
          C2[e1][i] = C2[e2][j] => e1 = e2 /\ i = j
  <2> TAKE e1, e2 \in Dir
  <2> TAKE i \in 1 .. Len(C2[e1]), j \in 1 .. Len(C2[e2])
  <2>1. CASE /\ i \in 1 .. Len(C[e1]) /\ C2[e1][i] = C[e1][i]
             /\ j \in 1 .. Len(C[e2]) /\ C2[e2][j] = C[e2][j]
    <3>1. C[e1][i] = C[e2][j] => e1 = e2 /\ i = j
      BY <2>1 DEF Own
    <3> QED
      BY <2>1, <3>1
  <2>2. CASE e1 = d /\ i = Len(C[d]) + 1 /\ C2[e1][i] = b
    <3>1. CASE j \in 1 .. Len(C[e2]) /\ C2[e2][j] = C[e2][j]
      <4>1. C[e2][j] # b
        BY <1>1, <3>1
      <4> QED
        BY <2>2, <3>1, <4>1
    <3>2. CASE e2 = d /\ j = Len(C[d]) + 1
      BY <2>2, <3>2
    <3> QED
      BY <1>5, <3>1, <3>2
  <2>3. CASE /\ e2 = d /\ j = Len(C[d]) + 1 /\ C2[e2][j] = b
             /\ i \in 1 .. Len(C[e1]) /\ C2[e1][i] = C[e1][i]
    <3>1. C[e1][i] # b
      BY <1>1, <2>3
    <3> QED
      BY <2>3, <3>1
  <2> QED
    BY <1>5, <2>1, <2>2, <2>3
<1>9. \A e \in Dir : \A i \in 1 .. Len(C2[e]), j \in 1 .. Len(f2) : C2[e][i] # f2[j]
  BY <1>1, <1>5 DEF Own
<1>10. \A i, j \in 1 .. Len(f2) : f2[i] = f2[j] => i = j
  <2> TAKE i, j \in 1 .. Len(f2)
  <2>1. i + 1 \in 1 .. Len(f) /\ j + 1 \in 1 .. Len(f) /\ f2[i] = f[i + 1] /\ f2[j] = f[j + 1]
    BY <1>1
  <2>2. f[i + 1] = f[j + 1] => i + 1 = j + 1
    BY <2>1 DEF Own
  <2> QED
    BY <2>1, <2>2
<1> QED
  BY <1>6, <1>7, <1>8, <1>9, <1>10 DEF Own

\* C2 and f2 are C and f after the first m buffers of C[d] joined the free chain.
Freed(C, f, d, m, C2, f2) ==
    /\ \A e \in Dir : \A i \in 1 .. Len(C2[e]) :
         \E k \in 1 .. Len(C[e]) : C2[e][i] = C[e][k] /\ k = IF e = d THEN m + i ELSE i
    /\ \A i \in 1 .. Len(f2) :
         \/ i <= m /\ i \in 1 .. m /\ f2[i] = C[d][m - i + 1]
         \/ i > m /\ i - m \in 1 .. Len(f) /\ f2[i] = f[i - m]

\* What the sequence operators of ngx_chain_update_chains() do.
LEMMA FreedByUpdate ==
    ASSUME NEW C \in [Dir -> Seq(BufId)], NEW f \in Seq(BufId),
           NEW d \in Dir, NEW m \in Nat, m <= Len(C[d]),
           NEW C2, C2 = [C EXCEPT ![d] = SubSeq(C[d], m + 1, Len(C[d]))],
           NEW f2, f2 = Reverse(SubSeq(C[d], 1, m)) \o f
    PROVE  Freed(C, f, d, m, C2, f2)
<1>1. \A e \in Dir : Len(C[e]) \in Nat /\ \A i \in 1 .. Len(C[e]) : C[e][i] \in BufId
  BY LenProperties, ElementOfSeq
<1>2. /\ Len(C2[d]) = Len(C[d]) - m
      /\ \A i \in 1 .. Len(C2[d]) : C2[d][i] = C[d][m + i] /\ m + i \in 1 .. Len(C[d])
  <2> DEFINE c == C[d]
  <2>1. /\ Len(SubSeq(c, m + 1, Len(c))) = IF m + 1 <= Len(c) THEN Len(c) - (m + 1) + 1 ELSE 0
        /\ \A i \in 1 .. Len(c) - (m + 1) + 1 : SubSeq(c, m + 1, Len(c))[i] = c[m + 1 + i - 1]
    <3>1. \A i \in m + 1 .. Len(c) : c[i] \in BufId
      BY <1>1
    <3>2. m + 1 \in Int /\ Len(c) \in Int
      BY <1>1
    <3> HIDE DEF c
    <3> QED
      BY <3>1, <3>2, SubSeqProperties
  <2>2. C2[d] = SubSeq(c, m + 1, Len(c)) /\ Len(c) \in Nat /\ m <= Len(c)
    BY <1>1
  <2> HIDE DEF c
  <2>3. Len(C2[d]) = Len(c) - m
    BY <2>1, <2>2
  <2>4. \A i \in 1 .. Len(C2[d]) : C2[d][i] = c[m + i] /\ m + i \in 1 .. Len(c)
    <3> TAKE i \in 1 .. Len(C2[d])
    <3>1. i \in 1 .. Len(c) - (m + 1) + 1 /\ m + 1 + i - 1 = m + i /\ m + i \in 1 .. Len(c)
      BY <2>2, <2>3
    <3> QED
      BY <2>1, <2>2, <3>1
  <2> QED
    BY <2>3, <2>4 DEF c
<1>3. \A e \in Dir : e # d => C2[e] = C[e]
  OBVIOUS
<1>4. \A i \in 1 .. Len(f2) :
         \/ i <= m /\ i \in 1 .. m /\ f2[i] = C[d][m - i + 1]
         \/ i > m /\ i - m \in 1 .. Len(f) /\ f2[i] = f[i - m]
  <2> DEFINE g == SubSeq(C[d], 1, m)
             h == Reverse(g)
  <2>1. Len(g) = m /\ g \in Seq(BufId) /\ \A i \in 1 .. m : g[i] = C[d][i]
    <3>1. \A i \in 1 .. m : C[d][i] \in BufId
      BY <1>1
    <3>2. /\ Len(g) = IF 1 <= m THEN m - 1 + 1 ELSE 0
          /\ g \in Seq(BufId)
          /\ \A i \in 1 .. m - 1 + 1 : g[i] = C[d][1 + i - 1]
      BY <3>1, SubSeqProperties
    <3> HIDE DEF g
    <3> QED
      BY <3>2
  <2> HIDE DEF g
  <2>2. h = [i \in 1 .. m |-> g[(m - i) + 1]]
    BY <2>1 DEF Reverse
  <2>3. \A i \in 1 .. m : g[(m - i) + 1] \in BufId
    <3> TAKE i \in 1 .. m
    <3>1. (m - i) + 1 \in 1 .. Len(g)
      BY <2>1
    <3> QED
      BY <2>1, <3>1, ElementOfSeq
  <2>4. h \in Seq(BufId) /\ Len(h) = m /\ \A i \in 1 .. m : h[i] = C[d][m - i + 1]
    <3>1. h \in Seq(BufId) /\ Len(h) = m /\ \A i \in 1 .. m : h[i] = g[(m - i) + 1]
      BY <2>2, <2>3
    <3>2. \A i \in 1 .. m : (m - i) + 1 \in 1 .. m
      OBVIOUS
    <3> QED
      BY <2>1, <3>1, <3>2
  <2>5. f2 = h \o f
    BY DEF g
  <2> HIDE DEF h
  <2>6. /\ Len(f2) = m + Len(f)
        /\ \A i \in 1 .. m + Len(f) : f2[i] = IF i <= m THEN h[i] ELSE f[i - m]
    <3>1. /\ Len(h \o f) = Len(h) + Len(f)
          /\ \A i \in 1 .. Len(h) + Len(f) :
                (h \o f)[i] = IF i <= Len(h) THEN h[i] ELSE f[i - Len(h)]
      <4>1. h \in Seq(BufId) /\ f \in Seq(BufId)
        BY <2>4
      <4> QED
        BY ONLY <4>1, ConcatProperties
    <3> HIDE DEF Own
    <3>2. Len(h) = m
      BY <2>4
    <3> QED
      BY ONLY <2>5, <3>1, <3>2
  <2>7. Len(f) \in Nat
    BY LenProperties
  <2> TAKE i \in 1 .. Len(f2)
  <2>8. i \in 1 .. m + Len(f)
    BY <2>6
  <2>9. CASE i <= m
    <3>1. i \in 1 .. m /\ f2[i] = h[i]
      BY <2>6, <2>8, <2>9
    <3> QED
      BY <2>4, <2>9, <3>1
  <2>10. CASE i > m
    <3>1. i - m \in 1 .. Len(f) /\ ~(i <= m)
      BY <2>7, <2>8, <2>10
    <3> QED
      BY <2>6, <2>8, <2>10, <3>1
  <2>11. i <= m \/ i > m
    BY <2>7, <2>8
  <2> QED
    BY <2>9, <2>10, <2>11
<1>5. \A e \in Dir : \A i \in 1 .. Len(C2[e]) :
         \E k \in 1 .. Len(C[e]) : C2[e][i] = C[e][k] /\ k = IF e = d THEN m + i ELSE i
  <2> TAKE e \in Dir
  <2>1. CASE e = d
    BY <1>2, <2>1
  <2>2. CASE e # d
    BY <1>3, <2>2
  <2> QED
    BY <2>1, <2>2
<1> QED
  BY <1>4, <1>5 DEF Freed

\* Freeing the first m buffers of a chain leaves every buffer in one place.
LEMMA OwnFree ==
    ASSUME NEW C \in [Dir -> Seq(BufId)], NEW f \in Seq(BufId), NEW N \in Nat, Own(C, f, N),
           NEW d \in Dir, NEW m \in Nat, m <= Len(C[d]),
           NEW C2, NEW f2, Freed(C, f, d, m, C2, f2)
    PROVE  Own(C2, f2, N)
<1>4. \A i \in 1 .. Len(f2) :
         \/ i <= m /\ i \in 1 .. m /\ f2[i] = C[d][m - i + 1]
         \/ i > m /\ i - m \in 1 .. Len(f) /\ f2[i] = f[i - m]
  BY DEF Freed
<1>5. \A e \in Dir : \A i \in 1 .. Len(C2[e]) :
         \E k \in 1 .. Len(C[e]) : C2[e][i] = C[e][k] /\ k = IF e = d THEN m + i ELSE i
  BY DEF Freed
<1>6. \A i \in 1 .. m : m - i + 1 \in 1 .. Len(C[d]) /\ m - i + 1 <= m
  BY LenProperties
<1>7. \A e \in Dir : \A i \in 1 .. Len(C2[e]) : C2[e][i] <= N
  <2> TAKE e \in Dir
  <2> TAKE i \in 1 .. Len(C2[e])
  <2>1. PICK k \in 1 .. Len(C[e]) : C2[e][i] = C[e][k]
    BY <1>5
  <2> QED
    BY <2>1 DEF Own
<1>8. \A i \in 1 .. Len(f2) : f2[i] <= N
  BY <1>4, <1>6 DEF Own
<1>9. \A e1, e2 \in Dir : \A i \in 1 .. Len(C2[e1]), j \in 1 .. Len(C2[e2]) :
          C2[e1][i] = C2[e2][j] => e1 = e2 /\ i = j
  <2> TAKE e1, e2 \in Dir
  <2> TAKE i \in 1 .. Len(C2[e1]), j \in 1 .. Len(C2[e2])
  <2>1. PICK k \in 1 .. Len(C[e1]) : C2[e1][i] = C[e1][k] /\ k = IF e1 = d THEN m + i ELSE i
    BY <1>5
  <2>2. PICK l \in 1 .. Len(C[e2]) : C2[e2][j] = C[e2][l] /\ l = IF e2 = d THEN m + j ELSE j
    BY <1>5
  <2>3. C[e1][k] = C[e2][l] => e1 = e2 /\ k = l
    BY DEF Own
  <2>4. i \in Int /\ j \in Int
    OBVIOUS
  <2> QED
    BY <2>1, <2>2, <2>3, <2>4
<1>10. \A e \in Dir : \A i \in 1 .. Len(C2[e]), j \in 1 .. Len(f2) : C2[e][i] # f2[j]
  <2> TAKE e \in Dir
  <2> TAKE i \in 1 .. Len(C2[e]), j \in 1 .. Len(f2)
  <2>1. PICK k \in 1 .. Len(C[e]) : C2[e][i] = C[e][k] /\ k = IF e = d THEN m + i ELSE i
    BY <1>5
  <2>2. CASE j \in 1 .. m /\ f2[j] = C[d][m - j + 1]
    <3>1. PICK l \in 1 .. Len(C[d]) : f2[j] = C[d][l] /\ l <= m
      BY <1>6, <2>2
    <3>2. C[e][k] = C[d][l] => e = d /\ k = l
      BY DEF Own
    <3>3. e = d => k > m
      BY <2>1
    <3>4. k = l => ~(k > m)
      BY <3>1
    <3> QED
      BY ONLY <2>1, <3>1, <3>2, <3>3, <3>4
  <2>3. CASE j - m \in 1 .. Len(f) /\ f2[j] = f[j - m]
    <3>1. PICK l \in 1 .. Len(f) : f2[j] = f[l]
      BY <2>3
    <3>2. C[e][k] # f[l]
      BY DEF Own
    <3> QED
      BY ONLY <2>1, <3>1, <3>2
  <2> QED
    BY <1>4, <2>2, <2>3
<1>11. \A i, j \in 1 .. Len(f2) : f2[i] = f2[j] => i = j
  <2> SUFFICES ASSUME NEW i \in 1 .. Len(f2), NEW j \in 1 .. Len(f2), f2[i] = f2[j] PROVE i = j
    OBVIOUS
  <2>1. CASE i \in 1 .. m /\ j \in 1 .. m
    <3>1. PICK k \in 1 .. Len(C[d]) : k = m - i + 1 /\ f2[i] = C[d][k]
      BY <1>4, <1>6, <2>1
    <3>2. PICK l \in 1 .. Len(C[d]) : l = m - j + 1 /\ f2[j] = C[d][l]
      BY <1>4, <1>6, <2>1
    <3>3. C[d][k] = C[d][l] => k = l
      BY DEF Own
    <3>4. k = l
      BY ONLY <3>1, <3>2, <3>3, f2[i] = f2[j]
    <3> QED
      BY ONLY <2>1, <3>1, <3>2, <3>4, m \in Nat
  <2>2. CASE i \in 1 .. m /\ j > m
    <3>1. C[d][m - i + 1] = f[j - m] /\ j - m \in 1 .. Len(f)
      BY <1>4, <2>2
    <3> QED
      BY <1>6, <2>2, <3>1 DEF Own
  <2>3. CASE i > m /\ j \in 1 .. m
    <3>1. PICK k \in 1 .. Len(f) : f2[i] = f[k]
      BY <1>4, <2>3
    <3>2. PICK l \in 1 .. Len(C[d]) : f2[j] = C[d][l]
      <4>1. f2[j] = C[d][m - j + 1]
        BY <1>4, <2>3
      <4>2. m - j + 1 \in 1 .. Len(C[d])
        BY <1>6, <2>3
      <4> QED
        BY <4>1, <4>2
    <3>3. C[d][l] # f[k]
      BY DEF Own
    <3> QED
      BY <3>1, <3>2, <3>3
  <2>4. CASE i > m /\ j > m
    <3>1. f[i - m] = f[j - m] /\ i - m \in 1 .. Len(f) /\ j - m \in 1 .. Len(f)
      BY <1>4, <2>4
    <3>2. i - m = j - m
      BY <3>1 DEF Own
    <3> QED
      BY <3>2
  <2> QED
    BY <1>4, <2>1, <2>2, <2>3, <2>4
<1> QED
  BY <1>7, <1>8, <1>9, <1>10, <1>11 DEF Own

-----------------------------------------------------------------------------
(* The invariant of the relay.                                             *)

\* The buffers of each direction that are not free, in order.
Chain == [d \in Dir |-> busy[d] \o out[d]]

\* What a direction has still to write: while a write is under way, the
\* filter's chain holds the new buffers too.
Sending(d) == dir = d /\ step \in {"send", "update"}
Pending(d) == IF Sending(d) THEN wf[d] ELSE wf[d] \o out[d]

OwnInv == Own(Chain, free, nbufs)

\* The chain w is what is left of c after its first k buffers.
EndsWith(c, w, k) == /\ k \in Nat /\ Len(c) = k + Len(w)
                     /\ \A i \in 1 .. Len(w) : w[i] = c[k + i]

\* Between two writes the filter holds what is busy; during a write, what is
\* left of that and of the new buffers, the rest being sent.
Unsent(d) ==
    \E k \in 0 .. Len(Chain[d]) :
       EndsWith(Chain[d], wf[d], k) /\ \A i \in 1 .. k : SizeOf(Chain[d][i]) = 0
FilterInv == \A d \in Dir : IF Sending(d) THEN Unsent(d) ELSE wf[d] = busy[d]

FlowInv == \A d \in Dir : Flow(Pending(d), bufs, last[d], received[d], Len(wire[d]))

\* The buffer holds the bytes read last.
MemInv == \A d \in Dir : \A j \in 1 .. last[d] : mem[d][j] = received[d] - last[d] + j

DataInv == OwnInv /\ FilterInv /\ FlowInv /\ MemInv

\* A source that has ended has sent what was read, and only then is the end
\* in the chain.
EndInv == \A d \in Dir :
    /\ received[d] <= sent[d]
    /\ Src(d) \in eof => Src(d) \in fin \cup rst /\ sent[d] = received[d]
    /\ \A i \in 1 .. Len(Pending(d)) : ~bufs[Pending(d)[i]].temp => Src(d) \in eof

\* A write that cannot go on has data to write.
BlockedInv ==
    /\ step = "send" /\ Wr(Dst(dir)) \notin ready => wf[dir] # <<>> /\ bufs[wf[dir][1]].temp
    /\ step = "update" /\ wf[dir] # <<>> => bufs[wf[dir][1]].temp

\* Nothing is relayed before the upstream is connected.
UnconnectedInv ==
    /\ step \in {"send", "update"} => connected
    /\ ~connected => /\ \A d \in Dir : wire[d] = <<>> /\ wf[d] = <<>> /\ busy[d] = <<>>
                     /\ out["down"] = <<>> /\ received["down"] = 0
                     /\ shut = {}

\* New buffers are written at once; buffered tells what the filter holds.
FlushInv ==
    /\ \A d \in Dir : out[d] # <<>> /\ connected =>
          dir = d /\ step \in {"write", "send", "update"} /\ (step = "write" => dw)
    /\ \A d \in Dir : ~(dir = d /\ step = "send") => (Dst(d) \in buffered <=> wf[d] # <<>>)

\* A session that has ended does not go on; it ends in order with everything
\* passed on.
EndedInv == /\ step = "done" <=> outcome # "none"
            /\ step = "done" => open = {}
            /\ FlushedAtClose

LiveInv == DataInv /\ EndInv /\ BlockedInv /\ UnconnectedInv /\ FlushInv

RelayInv == RelayFIFO /\ EndedInv /\ (step # "done" => LiveInv)

-----------------------------------------------------------------------------
(* Facts about the chains of a state.                                      *)

\* The counts the invariant relates are numbers, the chains are chains.
LEMMA CountTypes ==
    ASSUME Types
    PROVE  /\ dir \in Dir /\ BufSize \in Nat /\ nbufs \in Nat /\ Known(bufs)
           /\ free \in Seq(BufId) /\ mem \in [Dir -> [1 .. BufSize -> Nat]]
           /\ bufs \in [BufId -> Buf]
           /\ busy \in [Dir -> Seq(BufId)] /\ out \in [Dir -> Seq(BufId)] /\ wf \in [Dir -> Seq(BufId)]
           /\ last \in [Dir -> 0 .. BufSize] /\ received \in [Dir -> Nat] /\ sent \in [Dir -> Nat]
           /\ wire \in [Dir -> Seq(Nat)]
<1>1. BufSize \in Nat /\ MaxBufs \in Nat
  BY ConstantsAssumption
<1>2. ASSUME NEW b \in BufId
      PROVE bufs[b].pos \in Nat /\ bufs[b].last \in Nat /\ bufs[b].temp \in BOOLEAN
  <2>1. bufs[b] \in Buf
    BY DEF Types, DataOK
  <2> QED
    BY <1>1, <2>1 DEF Buf
<1>3. Known(bufs)
  BY <1>2 DEF Known
<1>4. nbufs \in Nat
  BY <1>1 DEF Types, DataOK
<1> QED
  BY <1>1, <1>3, <1>4 DEF Types, DataOK, KernelOK, RunOK

\* ... and so are those composed of them.
LEMMA ChainTypes ==
    ASSUME Types
    PROVE  /\ Chain \in [Dir -> Seq(BufId)]
           /\ \A d \in Dir : /\ Pending(d) \in Seq(BufId)
                             /\ Chain[d] = busy[d] \o out[d]
                             /\ wf[d] \o out[d] \in Seq(BufId)
<1>1. \A d \in Dir : busy[d] \o out[d] \in Seq(BufId) /\ wf[d] \o out[d] \in Seq(BufId)
  BY CountTypes, ConcatProperties
<1>2. \A d \in Dir : wf[d] \in Seq(BufId)
  BY CountTypes
<1> QED
  BY <1>1, <1>2 DEF Chain, Pending

\* What is pending ends the chain of its direction.
LEMMA PendingEnds ==
    ASSUME Types, FilterInv, NEW d \in Dir
    PROVE  EndsWith(Chain[d], Pending(d), Len(Chain[d]) - Len(Pending(d)))
<1>1. CASE Sending(d)
  <2>1. PICK k \in Nat : EndsWith(Chain[d], Pending(d), k)
    BY <1>1 DEF FilterInv, Pending, Unsent, EndsWith
  <2>2. Len(Chain[d]) = k + Len(Pending(d))
    BY <2>1 DEF EndsWith
  <2>3. k = Len(Chain[d]) - Len(Pending(d))
    BY <2>2, ChainTypes, LenProperties
  <2> QED
    BY <2>1, <2>3
<1>2. CASE ~Sending(d)
  <2>1. Pending(d) = Chain[d]
    BY <1>2, ChainTypes DEF FilterInv, Pending
  <2>2. Len(Chain[d]) \in Nat
    BY ChainTypes, LenProperties
  <2> QED
    BY <2>1, <2>2 DEF EndsWith
<1> QED
  BY <1>1, <1>2

\* No buffer is pending twice.
LEMMA PendingDistinct ==
    ASSUME Types, OwnInv, FilterInv
    PROVE  \A d, e \in Dir : \A i \in 1 .. Len(Pending(d)), j \in 1 .. Len(Pending(e)) :
              Pending(d)[i] = Pending(e)[j] => d = e /\ i = j
<1> SUFFICES ASSUME NEW d \in Dir, NEW e \in Dir,
                    NEW i \in 1 .. Len(Pending(d)), NEW j \in 1 .. Len(Pending(e)),
                    Pending(d)[i] = Pending(e)[j]
             PROVE  d = e /\ i = j
  OBVIOUS
<1> DEFINE k == Len(Chain[d]) - Len(Pending(d))
           l == Len(Chain[e]) - Len(Pending(e))
<1>1. EndsWith(Chain[d], Pending(d), k) /\ EndsWith(Chain[e], Pending(e), l)
  BY PendingEnds
<1>2. Len(Pending(d)) \in Nat /\ Len(Pending(e)) \in Nat
  BY ChainTypes, LenProperties
<1>3. d = e => k = l
  OBVIOUS
<1> HIDE DEF k, l
<1>4. PICK x \in 1 .. Len(Chain[d]) : x = k + i /\ Pending(d)[i] = Chain[d][x]
  BY <1>1, <1>2 DEF EndsWith
<1>5. PICK y \in 1 .. Len(Chain[e]) : y = l + j /\ Pending(e)[j] = Chain[e][y]
  BY <1>1, <1>2 DEF EndsWith
<1>6. d = e /\ x = y
  <2>1. Chain[d][x] = Chain[e][y]
    BY <1>4, <1>5
  <2>2. \A d1, d2 \in Dir : \A i1 \in 1 .. Len(Chain[d1]), i2 \in 1 .. Len(Chain[d2]) :
           Chain[d1][i1] = Chain[d2][i2] => d1 = d2 /\ i1 = i2
    BY DEF OwnInv, Own
  <2> QED
    BY <2>1, <2>2
<1>7. k \in Nat /\ l \in Nat
  BY <1>1 DEF EndsWith
<1> QED
  BY <1>3, <1>4, <1>5, <1>6, <1>7

\* A step that neither starts nor ends a write and leaves buffers and wire
\* alone keeps the invariant of the data.
LEMMA DataKept ==
    ASSUME DataInv, UNCHANGED <<data, wire>>, \A d \in Dir : Sending(d)' <=> Sending(d)
    PROVE  DataInv' /\ \A d \in Dir : Pending(d)' = Pending(d)
<1>1. /\ UNCHANGED <<bufs, nbufs, mem, last, free, out, busy, wf, received, wire>>
      /\ Chain' = Chain
  BY DEF data, Chain
<1>2. \A d \in Dir : Pending(d)' = Pending(d)
  BY <1>1 DEF Pending
<1>3. OwnInv'
  BY <1>1 DEF DataInv, OwnInv
<1>4. FilterInv'
  BY <1>1 DEF DataInv, FilterInv, Unsent, SizeOf
<1>5. FlowInv'
  BY <1>1, <1>2 DEF DataInv, FlowInv
<1>6. MemInv'
  BY <1>1 DEF DataInv, MemInv
<1> QED
  BY <1>2, <1>3, <1>4, <1>5, <1>6 DEF DataInv

-----------------------------------------------------------------------------
(* The steps that move buffers and bytes.                                  *)

\* A piece with data has a size, an end of input has none.
LEMMA Sizes ==
    ASSUME Types, FlowInv, NEW d \in Dir, NEW i \in 1 .. Len(Pending(d))
    PROVE  LET b == Pending(d)[i] IN
           /\ b \in BufId /\ SizeOf(b) \in Nat
           /\ bufs[b].temp => SizeOf(b) # 0
           /\ ~bufs[b].temp => SizeOf(b) = 0
           /\ SizeOf(b) = bufs[b].last - bufs[b].pos
<1> DEFINE b == Pending(d)[i]
<1>1. b \in BufId
  BY ChainTypes, ElementOfSeq
<1>2. PieceOK(bufs[b], last[d]) /\ bufs[b].last <= last[d]
  BY DEF FlowInv, Flow, PieceOK
<1> HIDE DEF b
<1>3. bufs[b].pos \in Nat /\ bufs[b].last \in Nat /\ last[d] \in Nat
  BY <1>1, CountTypes DEF Known
<1> DEFINE Goal == /\ SizeOf(b) \in Nat
                   /\ bufs[b].temp => SizeOf(b) # 0
                   /\ ~bufs[b].temp => SizeOf(b) = 0
                   /\ SizeOf(b) = bufs[b].last - bufs[b].pos
<1>4. ASSUME bufs[b].temp PROVE Goal
  BY <1>2, <1>3, <1>4 DEF PieceOK, SizeOf
<1>5. ASSUME ~bufs[b].temp PROVE Goal
  BY <1>2, <1>3, <1>5 DEF PieceOK, SizeOf
<1>6. b \in BufId /\ Goal
  BY <1>1, <1>4, <1>5
<1> QED
  BY <1>6 DEF b

\* The write filter takes the new buffers, or drops a chain without data.
LEMMA WriteFilterData ==
    ASSUME Types, DataInv, WriteFilter, step' # "done"
    PROVE  /\ DataInv'
           /\ \A d \in Dir : Pending(d)' = Pending(d) \/ Pending(d)' = <<>>
           /\ \/ step' = "send" /\ wf'[dir] # <<>> /\ bufs'[wf'[dir][1]].temp
              \/ step' = "update" /\ wf'[dir] = <<>>
<1> DEFINE chain == wf[dir] \o out[dir]
           drop  == \A i \in DOMAIN chain : SizeOf(chain[i]) = 0
<1>1. /\ step = "write" /\ dir' = dir /\ chain # <<>>
      /\ UNCHANGED <<bufs, nbufs, mem, last, free, out, busy, received, wire>>
      /\ wf' = [wf EXCEPT ![dir] = IF drop THEN <<>> ELSE chain]
      /\ step' = IF drop THEN "update" ELSE "send"
  BY DEF WriteFilter, Finalize, FilterChain, kernel
<1>2. chain \in Seq(BufId) /\ Len(chain) \in Nat /\ Len(chain) > 0 /\ DOMAIN chain = 1 .. Len(chain)
  <2>1. chain \in Seq(BufId)
    BY ChainTypes, CountTypes
  <2> HIDE DEF chain
  <2> QED
    BY <1>1, <2>1, EmptySeq, LenProperties
<1>3. /\ \A d \in Dir : ~Sending(d) /\ wf[d] = busy[d]
      /\ \A d \in Dir : Pending(d) = wf[d] \o out[d]
      /\ chain = Chain[dir] /\ chain = Pending(dir) /\ dir \in Dir
  BY <1>1, CountTypes, ChainTypes DEF Sending, DataInv, FilterInv, Pending
<1>4. Sending(dir)' /\ \A d \in Dir : d # dir => ~Sending(d)'
  BY <1>1 DEF Sending
<1>5. Chain' = Chain
  BY <1>1 DEF Chain
<1>6. /\ \A d \in Dir : d # dir => wf'[d] = wf[d]
      /\ wf'[dir] = IF drop THEN <<>> ELSE chain
  BY <1>1, CountTypes
<1>7. \A d \in Dir : d # dir => Pending(d)' = Pending(d)
  BY <1>1, <1>3, <1>4, <1>6 DEF Pending
<1>8. Pending(dir)' = IF drop THEN <<>> ELSE chain
  BY <1>1, <1>4, <1>6 DEF Pending
<1>9. \A b : SizeOf(b)' = SizeOf(b)
  BY <1>1 DEF SizeOf
<1>10. OwnInv' /\ MemInv'
  BY <1>1, <1>5 DEF DataInv, OwnInv, MemInv
<1> HIDE DEF chain
<1>11. \A i \in 1 .. Len(chain) :
          /\ bufs[chain[i]].temp => SizeOf(chain[i]) # 0
          /\ ~bufs[chain[i]].temp => SizeOf(chain[i]) = 0
  BY <1>3, Sizes DEF DataInv
<1>12. CASE drop
  <2>1. \A i \in 1 .. Len(chain) : SizeOf(chain[i]) = 0 /\ ~bufs[chain[i]].temp
    BY <1>2, <1>11, <1>12
  <2>2. Len(wire[dir]) = received[dir]
    <3>1. Flow(chain, bufs, last[dir], received[dir], Len(wire[dir]))
      BY <1>3 DEF DataInv, FlowInv
    <3>2. last[dir] \in Nat /\ received[dir] \in Nat /\ Len(wire[dir]) \in Nat
      BY CountTypes, LenProperties
    <3> QED
      BY <1>2, <2>1, <3>1, <3>2, FlowDropped
  <2>3. wf'[dir] = <<>> /\ Pending(dir)' = <<>> /\ step' = "update"
    BY <1>1, <1>6, <1>8, <1>12
  <2>4. FlowInv'
    <3>1. Flow(<<>>, bufs, last[dir], received[dir], Len(wire[dir]))
      BY <2>2, FlowEmpty
    <3> QED
      BY <1>1, <1>7, <2>3, <3>1 DEF DataInv, FlowInv
  <2>5. FilterInv'
    <3>1. EndsWith(chain, <<>>, Len(chain)) /\ Len(chain) \in 0 .. Len(chain)
      BY <1>2 DEF EndsWith
    <3>2. Unsent(dir)'
      BY <1>1, <1>3, <1>5, <1>9, <2>1, <2>3, <3>1 DEF Unsent
    <3>3. \A d \in Dir : d # dir => wf'[d] = busy'[d]
      BY <1>1, <1>3, <1>6
    <3> QED
      BY <1>1, <1>3, <1>4, <3>2, <3>3 DEF FilterInv
  <2> QED
    BY <1>1, <1>7, <1>10, <2>3, <2>4, <2>5 DEF DataInv
<1>13. CASE ~drop
  <2>1. wf'[dir] = chain /\ Pending(dir)' = chain /\ step' = "send"
    BY <1>1, <1>6, <1>8, <1>13
  <2>2. bufs[chain[1]].temp
    <3>1. PICK i \in 1 .. Len(chain) : SizeOf(chain[i]) # 0
      BY <1>2, <1>13
    <3>2. bufs[chain[i]].temp
      BY <1>11, <3>1
    <3>3. 1 \in 1 .. Len(chain) /\ (i = 1 \/ 1 < i)
      BY <1>2
    <3>4. 1 < i /\ ~bufs[chain[1]].temp => ~bufs[chain[i]].temp
      BY <1>3, <3>3 DEF DataInv, FlowInv, Flow
    <3> QED
      BY <3>2, <3>3, <3>4
  <2>3. FlowInv'
    BY <1>1, <1>3, <1>7, <2>1 DEF DataInv, FlowInv
  <2>4. FilterInv'
    <3>1. /\ EndsWith(chain, chain, 0) /\ 0 \in 0 .. Len(chain)
          /\ \A i \in 1 .. 0 : SizeOf(chain[i]) = 0
      BY <1>2 DEF EndsWith
    <3>2. Unsent(dir)'
      BY <1>1, <1>3, <1>5, <1>9, <2>1, <3>1 DEF Unsent
    <3>3. \A d \in Dir : d # dir => wf'[d] = busy'[d]
      BY <1>1, <1>3, <1>6
    <3> QED
      BY <1>1, <1>3, <1>4, <3>2, <3>3 DEF FilterInv
  <2> QED
    BY <1>1, <1>2, <1>3, <1>7, <1>10, <2>1, <2>2, <2>3, <2>4 DEF DataInv
<1> QED
  BY <1>12, <1>13

\* The bytes sent are the next ones; what is sent of a buffer leaves it.
LEMMA SendBytesData ==
    ASSUME Types, DataInv, SendBytes
    PROVE  /\ DataInv'
           /\ \E n \in Nat : wire' = [wire EXCEPT ![dir] =
                                wire[dir] \o [i \in 1 .. n |-> Len(wire[dir]) + i]]
           /\ \A d \in Dir : \A i \in 1 .. Len(Pending(d)') :
                 \E j \in 1 .. Len(Pending(d)) : Pending(d)'[i] = Pending(d)[j]
           /\ \A b \in BufId : bufs'[b].temp <=> bufs[b].temp
<1> DEFINE p == wf[dir]
           b == Head(p)
<1>1. /\ step = "send" /\ p # <<>> /\ step' = step /\ dir' = dir
      /\ UNCHANGED <<nbufs, mem, last, free, out, busy, received>>
  BY DEF SendBytes, run
<1>2. PICK n \in 0 .. BufSize :
          /\ n = IF SizeOf(b) <= Space(Dst(dir)) THEN SizeOf(b) ELSE Space(Dst(dir))
          /\ Special(b) \/ n > 0
          /\ wire' = [wire EXCEPT ![dir] =
                         @ \o [i \in 1 .. n |-> mem[dir][bufs[b].pos + i]]]
          /\ bufs' = [bufs EXCEPT ![b].pos = IF Special(b) THEN @ ELSE @ + n]
          /\ wf' = [wf EXCEPT ![dir] = IF n = SizeOf(b) THEN Tail(@) ELSE @]
  BY DEF SendBytes
<1>3. /\ Sending(dir) /\ Sending(dir)' /\ p = Pending(dir)
      /\ \A d \in Dir : d # dir => ~Sending(d) /\ ~Sending(d)'
  BY <1>1, CountTypes DEF Sending, Pending
<1>4. p \in Seq(BufId) /\ Len(p) \in Nat /\ Len(p) > 0 /\ b = p[1] /\ 1 \in 1 .. Len(p)
  BY <1>1, CountTypes, EmptySeq
<1>5. Len(Tail(p)) = Len(p) - 1 /\ Tail(p) \in Seq(BufId) /\ \A i \in 1 .. Len(Tail(p)) : Tail(p)[i] = p[i + 1]
  BY <1>1, <1>4, HeadTailProperties
<1>6. b \in BufId /\ bufs[b].pos \in Nat /\ bufs[b].last \in Nat /\ n \in Nat
  BY <1>4, CountTypes, ElementOfSeq DEF Known
<1> HIDE DEF b
<1>7. /\ SizeOf(b) \in Nat /\ SizeOf(b) = bufs[b].last - bufs[b].pos
      /\ bufs[b].temp => SizeOf(b) # 0
      /\ ~bufs[b].temp => SizeOf(b) = 0
  <2>1. b = Pending(dir)[1] /\ 1 \in 1 .. Len(Pending(dir)) /\ dir \in Dir /\ FlowInv
    BY <1>3, <1>4, CountTypes DEF DataInv
  <2> QED
    BY <2>1, Sizes
<1>8. Space(Dst(dir)) \in Int
  <2>1. \A d \in Dir : Len(wire[d]) \in Nat /\ taken[d] \in Nat
    BY DEF Types, KernelOK
  <2>2. SockBuf \in Nat
    BY ConstantsAssumption
  <2>3. ASSUME NEW s \in Side PROVE Space(s) \in Int
    <3>1. To(s) \in Dir
      BY DEF To, Dir
    <3>2. Len(wire[To(s)]) \in Nat /\ taken[To(s)] \in Nat
      BY <2>1, <3>1
    <3> QED
      BY <2>2, <3>2 DEF Space
  <2>4. Dst(dir) \in Side
    BY DEF Dst, Side
  <2> QED
    BY <2>3, <2>4
<1>9. n <= SizeOf(b) /\ (Special(b) => n = 0)
  BY <1>2, <1>6, <1>7, <1>8 DEF Special
<1>10. /\ bufs'[b] = [pos |-> bufs[b].pos + n, last |-> bufs[b].last, temp |-> bufs[b].temp]
       /\ \A x \in BufId : x # b => bufs'[x] = bufs[x]
  <2>1. bufs' = [bufs EXCEPT ![b].pos = bufs[b].pos + n]
    <3>1. (IF Special(b) THEN bufs[b].pos ELSE bufs[b].pos + n) = bufs[b].pos + n
      BY <1>6, <1>9
    <3> QED
      BY <1>2, <3>1
  <2>2. bufs[b] \in Buf /\ bufs \in [BufId -> Buf]
    BY <1>6, CountTypes
  <2> QED
    BY <1>6, <2>1, <2>2 DEF Buf
<1>11. \A x \in BufId : bufs'[x].temp <=> bufs[x].temp
  BY <1>6, <1>10
<1>12. wf'[dir] = (IF n = SizeOf(b) THEN Tail(p) ELSE p) /\ \A d \in Dir : d # dir => wf'[d] = wf[d]
  BY <1>2, CountTypes
<1>13. \A d \in Dir : d # dir => Pending(d)' = Pending(d)
  BY <1>1, <1>3, <1>12 DEF Pending
<1>14. Pending(dir)' = IF n = SizeOf(b) THEN Tail(p) ELSE p
  BY <1>1, <1>3, <1>12 DEF Pending
<1>15. Chain' = Chain
  BY <1>1 DEF Chain
<1>16. Flow(p, bufs, last[dir], received[dir], Len(wire[dir]))
  BY <1>3, CountTypes DEF DataInv, FlowInv
<1>17. last[dir] \in Nat /\ received[dir] \in Nat /\ Len(wire[dir]) \in Nat /\ wire[dir] \in Seq(Nat)
  BY CountTypes, LenProperties
<1>18. /\ Len(wire[dir]) = received[dir] - last[dir] + bufs[b].pos
       /\ bufs[b].last <= last[dir]
  <2>1. PieceOK(bufs[p[1]], last[dir]) /\ Len(wire[dir]) = received[dir] - last[dir] + bufs[p[1]].pos
    BY <1>4, <1>16 DEF Flow
  <2> QED
    BY <1>4, <2>1 DEF PieceOK
<1>19. wire' = [wire EXCEPT ![dir] = wire[dir] \o [i \in 1 .. n |-> Len(wire[dir]) + i]]
  <2>1. ASSUME NEW i \in 1 .. n PROVE mem[dir][bufs[b].pos + i] = Len(wire[dir]) + i
    <3>1. bufs[b].pos + i \in 1 .. last[dir]
      <4>1. bufs[b].pos \in Nat /\ bufs[b].last \in Nat /\ bufs[b].pos + i <= bufs[b].last
        BY <1>6, <1>7, <1>9
      <4>2. bufs[b].last <= last[dir] /\ last[dir] \in Nat /\ i \in Nat /\ i >= 1
        BY <1>17, <1>18
      <4> QED
        BY ONLY <4>1, <4>2
    <3>2. mem[dir][bufs[b].pos + i] = received[dir] - last[dir] + (bufs[b].pos + i)
      BY <3>1, CountTypes DEF DataInv, MemInv
    <3> QED
      BY SMTT(20), <1>6, <1>17, <1>18, <3>2
  <2>2. [i \in 1 .. n |-> mem[dir][bufs[b].pos + i]] = [i \in 1 .. n |-> Len(wire[dir]) + i]
    BY <2>1
  <2> QED
    BY <1>2, <2>2
<1>20. Len(wire'[dir]) = Len(wire[dir]) + n /\ \A d \in Dir : d # dir => wire'[d] = wire[d]
  <2> DEFINE new == [i \in 1 .. n |-> Len(wire[dir]) + i]
  <2>1. new \in Seq(Nat) /\ Len(new) = n
    BY <1>6, <1>17
  <2>2. wire' = [wire EXCEPT ![dir] = wire[dir] \o new]
    BY <1>19
  <2> HIDE DEF new
  <2>3. Len(wire[dir] \o new) = Len(wire[dir]) + n
    BY <1>17, <2>1, ConcatProperties
  <2> QED
    BY <2>2, <2>3, CountTypes
<1>21. \A d \in Dir : \A i \in 1 .. Len(Pending(d)) :
          d # dir \/ i # 1 => Pending(d)[i] \in BufId /\ bufs'[Pending(d)[i]] = bufs[Pending(d)[i]]
  <2> TAKE d \in Dir
  <2> TAKE i \in 1 .. Len(Pending(d))
  <2>1. Pending(d)[i] \in BufId
    BY ChainTypes, ElementOfSeq
  <2>2. Pending(d)[i] = Pending(dir)[1] => d = dir /\ i = 1
    <3>1. \A x, y \in Dir : \A j \in 1 .. Len(Pending(x)), l \in 1 .. Len(Pending(y)) :
             Pending(x)[j] = Pending(y)[l] => x = y /\ j = l
      BY PendingDistinct DEF DataInv
    <3>2. dir \in Dir /\ 1 \in 1 .. Len(Pending(dir))
      BY <1>3, <1>4, CountTypes
    <3> QED
      BY <3>1, <3>2
  <2> QED
    BY <1>3, <1>4, <1>10, <2>1, <2>2
<1>22. FlowInv'
  <2>1. ASSUME NEW d \in Dir, d # dir
        PROVE  Flow(Pending(d)', bufs', last'[d], received'[d], Len(wire'[d]))
    <3>1. Flow(Pending(d), bufs, last[d], received[d], Len(wire[d]))
      BY DEF DataInv, FlowInv
    <3>2. Len(Pending(d)) \in Nat
      BY ChainTypes, LenProperties
    <3>3. \A i \in 1 .. Len(Pending(d)) : bufs'[Pending(d)[i]] = bufs[Pending(d)[i]]
      BY <1>21, <2>1
    <3>4. Flow(Pending(d), bufs', last[d], received[d], Len(wire[d]))
      BY <3>1, <3>2, <3>3, FlowKept
    <3> QED
      BY <1>1, <1>13, <1>20, <2>1, <3>4
  <2>2. \A i \in 2 .. Len(p) : bufs'[p[i]] = bufs[p[i]]
    <3> TAKE i \in 2 .. Len(p)
    <3>1. i \in 1 .. Len(p) /\ i # 1
      BY <1>4
    <3> QED
      BY <1>3, <1>21, <3>1, CountTypes
  <2>3. Known(bufs)
    BY CountTypes
  <2>4. CASE n = SizeOf(b)
    <3>1. Flow(Tail(p), bufs', last[dir], received[dir],
               Len(wire[dir]) + (bufs[p[1]].last - bufs[p[1]].pos))
      BY ONLY <1>1, <1>4, <1>16, <1>17, <2>2, <2>3, FlowTail
    <3>2. Len(wire'[dir]) = Len(wire[dir]) + (bufs[p[1]].last - bufs[p[1]].pos)
      BY <1>4, <1>7, <1>20, <2>4
    <3> QED
      BY <1>1, <1>14, <2>1, <2>4, <3>1, <3>2 DEF FlowInv
  <2>5. CASE n # SizeOf(b)
    <3>1. bufs[p[1]].temp /\ n < bufs[p[1]].last - bufs[p[1]].pos
      BY <1>4, <1>6, <1>7, <1>9, <2>5
    <3>2. bufs'[p[1]] = [pos |-> bufs[p[1]].pos + n, last |-> bufs[p[1]].last, temp |-> bufs[p[1]].temp]
      BY <1>4, <1>10
    <3>3. Flow(p, bufs', last[dir], received[dir], Len(wire[dir]) + n)
      BY ONLY <1>1, <1>4, <1>6, <1>16, <1>17, <2>2, <2>3, <3>1, <3>2, FlowPart
    <3> QED
      BY <1>1, <1>14, <1>20, <2>1, <2>5, <3>3 DEF FlowInv
  <2> QED
    BY <2>4, <2>5
<1>23. FilterInv'
  <2>1. PICK k \in 0 .. Len(Chain[dir]) :
           EndsWith(Chain[dir], p, k) /\ \A i \in 1 .. k : SizeOf(Chain[dir][i]) = 0
    BY <1>3, CountTypes DEF DataInv, FilterInv, Unsent
  <2>2. /\ k \in Nat /\ Len(Chain[dir]) = k + Len(p) /\ k + 1 \in 1 .. Len(Chain[dir])
        /\ Chain[dir][k + 1] = b
    BY <1>4, <2>1 DEF EndsWith
  <2>3. \A i \in 1 .. k : Chain[dir][i] \in BufId /\ Chain[dir][i] # b
    <3> TAKE i \in 1 .. k
    <3>1. i \in 1 .. Len(Chain[dir]) /\ i # k + 1
      BY <1>4, <2>2
    <3>2. \A x, y \in 1 .. Len(Chain[dir]) : Chain[dir][x] = Chain[dir][y] => x = y
      BY CountTypes DEF DataInv, OwnInv, Own
    <3> QED
      BY <2>2, <3>1, <3>2, CountTypes, ChainTypes, ElementOfSeq
  <2>4. \A i \in 1 .. k : SizeOf(Chain[dir][i])' = 0
    <3> TAKE i \in 1 .. k
    <3>1. bufs'[Chain[dir][i]] = bufs[Chain[dir][i]]
      BY <1>10, <2>3
    <3> QED
      BY <1>1, <1>15, <2>1, <3>1 DEF SizeOf
  <2>5. Unsent(dir)'
    <3>1. CASE n = SizeOf(b)
      <4> DEFINE q == Tail(p)
      <4>1. Len(q) = Len(p) - 1 /\ \A i \in 1 .. Len(q) : q[i] = p[i + 1]
        BY <1>5
      <4> HIDE DEF q
      <4>2. EndsWith(Chain[dir], q, k + 1) /\ k + 1 \in 0 .. Len(Chain[dir])
        <5>1. \A i \in 1 .. Len(q) : i + 1 \in 1 .. Len(p) /\ k + (i + 1) = (k + 1) + i
          BY <1>4, <2>2, <4>1
        <5>2. \A i \in 1 .. Len(q) : q[i] = Chain[dir][(k + 1) + i]
          <6> TAKE i \in 1 .. Len(q)
          <6>1. p[i + 1] = Chain[dir][k + (i + 1)]
            BY <2>1, <5>1 DEF EndsWith
          <6> QED
            BY <4>1, <5>1, <6>1
        <5>3. k + 1 \in Nat /\ k + 1 \in 0 .. Len(Chain[dir])
          BY <2>2
        <5>4. Len(Chain[dir]) = (k + 1) + Len(q)
          <6>1. Len(q) = Len(p) - 1 /\ Len(p) \in Nat /\ Len(Chain[dir]) = k + Len(p) /\ k \in Nat
            BY <1>4, <2>2, <4>1
          <6>2. \A x, y, z, w : x = y - 1 /\ y \in Nat /\ z = w + y /\ w \in Nat => z = (w + 1) + x
            OBVIOUS
          <6> QED
            BY <6>1, <6>2, Zenon
        <5> QED
          BY <5>2, <5>3, <5>4 DEF EndsWith
      <4>3. bufs'[b].last - bufs'[b].pos = 0
        BY <1>6, <1>7, <1>10, <3>1
      <4>4. \A i \in 1 .. k + 1 : SizeOf(Chain[dir][i])' = 0
        <5> TAKE i \in 1 .. k + 1
        <5>1. CASE i \in 1 .. k
          BY <2>4, <5>1
        <5>2. CASE i = k + 1
          <6>1. Chain'[dir'][i] = b
            BY <1>1, <1>15, <2>2, <5>2
          <6> QED
            BY <4>3, <6>1 DEF SizeOf
        <5> QED
          BY <2>2, <5>1, <5>2
      <4>5. wf'[dir] = q
        BY <1>12, <3>1 DEF q
      <4> QED
        BY <1>1, <1>15, <4>2, <4>4, <4>5 DEF Unsent
    <3>2. CASE n # SizeOf(b)
      BY <1>1, <1>12, <1>15, <2>1, <2>4, <3>2 DEF Unsent
    <3> QED
      BY <3>1, <3>2
  <2> QED
    BY <1>1, <1>3, <1>12, <2>5 DEF DataInv, FilterInv
<1>24. OwnInv' /\ MemInv'
  BY <1>1, <1>15 DEF DataInv, OwnInv, MemInv
<1>25. \A d \in Dir : \A i \in 1 .. Len(Pending(d)') :
          \E j \in 1 .. Len(Pending(d)) : Pending(d)'[i] = Pending(d)[j]
  <2>1. \A i \in 1 .. Len(Tail(p)) : i + 1 \in 1 .. Len(p) /\ Tail(p)[i] = p[i + 1]
    BY <1>4, <1>5
  <2> QED
    BY <1>1, <1>3, <1>13, <1>14, <2>1
<1> QED
  BY <1>6, <1>11, <1>19, <1>22, <1>23, <1>24, <1>25 DEF DataInv

\* The buffers that join the free chain are those the filter is done with.
LEMMA UpdateChainsData ==
    ASSUME Types, DataInv, BlockedInv, UpdateChains
    PROVE  /\ DataInv'
           /\ \A d \in Dir : /\ Pending(d)' = Pending(d)
                             /\ \A i \in 1 .. Len(Pending(d)) :
                                   bufs'[Pending(d)[i]] = bufs[Pending(d)[i]]
           /\ out'[dir] = <<>> /\ \A d \in Dir : d # dir => out'[d] = out[d]
<1> DEFINE all == busy[dir] \o out[dir]
           p == wf[dir]
<1>1. /\ step = "update" /\ step' = "read" /\ dir' = dir
      /\ out' = [out EXCEPT ![dir] = <<>>]
      /\ UNCHANGED <<nbufs, mem, wf, received, wire>>
  BY DEF UpdateChains, kernel
<1>2. PICK m \in 0 .. Len(all) : LET rest == SubSeq(all, m + 1, Len(all)) IN
          /\ \A i \in 1 .. m : SizeOf(all[i]) = 0
          /\ m < Len(all) => SizeOf(all[m + 1]) # 0
          /\ busy' = [busy EXCEPT ![dir] = rest]
          /\ free' = Reverse(SubSeq(all, 1, m)) \o free
          /\ bufs' = [b \in BufId |-> IF \E i \in 1 .. m : all[i] = b
                                       THEN [pos |-> 0, last |-> 0, temp |-> bufs[b].temp]
                                       ELSE bufs[b]]
          /\ last' = [last EXCEPT ![dir] = Rewind(rest)]
  BY DEF UpdateChains
<1>3. /\ dir \in Dir /\ Sending(dir) /\ p = Pending(dir) /\ all = Chain[dir]
      /\ \A d \in Dir : ~Sending(d)' /\ (d # dir => ~Sending(d))
  BY <1>1, CountTypes, ChainTypes DEF Sending, Pending
<1>4. PICK k \in 0 .. Len(all) :
         EndsWith(all, p, k) /\ \A i \in 1 .. k : SizeOf(all[i]) = 0
  BY <1>3 DEF DataInv, FilterInv, Unsent
<1>5. all \in Seq(BufId) /\ Len(all) \in Nat /\ p \in Seq(BufId) /\ Len(p) \in Nat
  BY <1>3, CountTypes, ChainTypes, LenProperties
<1> DEFINE rest == SubSeq(all, m + 1, Len(all))
<1>6. /\ busy' = [busy EXCEPT ![dir] = rest]
      /\ free' = Reverse(SubSeq(all, 1, m)) \o free
      /\ last' = [last EXCEPT ![dir] = IF rest = <<>> THEN 0 ELSE last[dir]]
      /\ \A b \in BufId : (\A i \in 1 .. m : all[i] # b) => bufs'[b] = bufs[b]
  BY <1>2 DEF Rewind
<1> HIDE DEF all, rest
<1>7. /\ m \in Nat /\ m <= Len(all) /\ k \in Nat
      /\ \A i \in 1 .. m : SizeOf(all[i]) = 0
      /\ m < Len(all) => SizeOf(all[m + 1]) # 0
  <2>1. m \in Nat /\ m <= Len(all) /\ k \in Nat
    BY <1>5
  <2>2. /\ \A i \in 1 .. m : SizeOf(all[i]) = 0
        /\ m < Len(all) => SizeOf(all[m + 1]) # 0
    BY <1>2
  <2> QED
    BY <2>1, <2>2
<1>8. Len(all) = k + Len(p) /\ \A i \in 1 .. Len(p) : p[i] = all[k + i]
  BY <1>4 DEF EndsWith
<1>9. m = k
  <2>1. ~(m < k)
    <3>1. m < k => m < Len(all) /\ m + 1 \in 1 .. k
      BY <1>5, <1>7, <1>8
    <3> QED
      BY <1>4, <1>7, <3>1
  <2>2. ~(m > k)
    <3> SUFFICES ASSUME m > k PROVE FALSE
      OBVIOUS
    <3>1. Len(p) > 0 /\ k + 1 \in 1 .. m /\ 1 \in 1 .. Len(p)
      BY <1>5, <1>7, <1>8
    <3>2. bufs[p[1]].temp
      BY <1>1, <1>5, <3>1, EmptySeq DEF BlockedInv
    <3>3. SizeOf(p[1]) # 0
      <4>1. 1 \in 1 .. Len(Pending(dir)) /\ p[1] = Pending(dir)[1] /\ FlowInv
        BY <1>3, <3>1 DEF DataInv
      <4> QED
        BY <1>3, <3>2, <4>1, Sizes
    <3> QED
      BY <1>7, <1>8, <3>1, <3>3
  <2> QED
    BY <1>7, <2>1, <2>2
<1>10. rest = p
  <2>1. /\ rest \in Seq(BufId)
        /\ Len(rest) = IF m + 1 <= Len(all) THEN Len(all) - (m + 1) + 1 ELSE 0
        /\ \A i \in 1 .. Len(all) - (m + 1) + 1 : rest[i] = all[m + 1 + i - 1]
    <3>1. \A i \in m + 1 .. Len(all) : all[i] \in BufId
      BY <1>5, <1>7, ElementOfSeq
    <3>2. m + 1 \in Int /\ Len(all) \in Int
      BY <1>5, <1>7
    <3> QED
      BY <3>1, <3>2, SubSeqProperties DEF rest
  <2>2. Len(rest) = Len(p)
    BY <1>5, <1>7, <1>8, <1>9, <2>1
  <2>3. \A i \in 1 .. Len(rest) : rest[i] = p[i]
    <3> TAKE i \in 1 .. Len(rest)
    <3>1. i \in 1 .. Len(all) - (m + 1) + 1 /\ m + 1 + i - 1 = k + i /\ i \in 1 .. Len(p)
      BY <1>5, <1>7, <1>8, <1>9, <2>2
    <3> QED
      BY <1>8, <2>1, <3>1
  <2> QED
    BY <1>5, <2>1, <2>2, <2>3, SeqEqual
<1>11. /\ busy'[dir] = p /\ out'[dir] = <<>>
       /\ \A d \in Dir : d # dir => busy'[d] = busy[d] /\ out'[d] = out[d]
  BY <1>1, <1>3, <1>6, <1>10, CountTypes
<1>12. p \o <<>> = p
  BY <1>5, ConcatEmptySeq
<1>13. Chain' = [Chain EXCEPT ![dir] = rest]
  BY <1>3, <1>10, <1>11, <1>12 DEF Chain
<1>14. \A d \in Dir : Pending(d)' = Pending(d)
  <2>1. \A d \in Dir : Pending(d)' = wf[d] \o out'[d]
    BY <1>1, <1>3 DEF Pending
  <2>2. \A d \in Dir : d # dir => Pending(d) = wf[d] \o out[d]
    BY <1>3 DEF Pending
  <2> QED
    BY <1>3, <1>11, <1>12, <2>1, <2>2
<1>15. OwnInv'
  <2>1. Chain \in [Dir -> Seq(BufId)] /\ free \in Seq(BufId) /\ nbufs \in Nat
    BY CountTypes, ChainTypes
  <2>2. /\ Chain' = [Chain EXCEPT ![dir] = SubSeq(Chain[dir], m + 1, Len(Chain[dir]))]
        /\ free' = Reverse(SubSeq(Chain[dir], 1, m)) \o free
        /\ m \in Nat /\ m <= Len(Chain[dir])
    BY <1>3, <1>6, <1>7, <1>13 DEF rest
  <2>3. Freed(Chain, free, dir, m, Chain', free')
    BY ONLY <1>3, <2>1, <2>2, FreedByUpdate
  <2>4. Own(Chain', free', nbufs)
    BY <1>3, <2>1, <2>2, <2>3, OwnFree DEF DataInv, OwnInv
  <2> QED
    BY <1>1, <2>4 DEF OwnInv
<1>16. FilterInv'
  BY <1>1, <1>3, <1>11 DEF DataInv, FilterInv
<1>17. \A d \in Dir : \A i \in 1 .. Len(Pending(d)) :
          bufs'[Pending(d)[i]] = bufs[Pending(d)[i]]
  <2> TAKE d \in Dir
  <2> TAKE i \in 1 .. Len(Pending(d))
  <2>1. Pending(d)[i] \in BufId
    BY ChainTypes, ElementOfSeq
  <2>2. \A j \in 1 .. m : all[j] # Pending(d)[i]
    <3> TAKE j \in 1 .. m
    <3> DEFINE o == Len(Chain[d]) - Len(Pending(d))
    <3>1. EndsWith(Chain[d], Pending(d), o)
      BY PendingEnds DEF DataInv
    <3>2. Len(Chain[d]) \in Nat /\ Len(Pending(d)) \in Nat /\ (dir = d => o = k)
      BY <1>3, <1>5, <1>7, <1>8, ChainTypes, LenProperties
    <3> HIDE DEF o
    <3>3. PICK x \in 1 .. Len(Chain[d]) : Pending(d)[i] = Chain[d][x] /\ x = o + i
      <4>1. /\ o \in Nat /\ Len(Chain[d]) = o + Len(Pending(d))
            /\ \A l \in 1 .. Len(Pending(d)) : Pending(d)[l] = Chain[d][o + l]
        BY ONLY <3>1 DEF EndsWith
      <4>2. Pending(d)[i] = Chain[d][o + i] /\ i \in 1 .. Len(Pending(d))
        BY <4>1
      <4>3. o + i \in 1 .. Len(Chain[d])
        BY ONLY <3>2, <4>1, <4>2
      <4> QED
        BY ONLY <4>2, <4>3
    <3>4. j \in 1 .. Len(Chain[dir])
      BY <1>3, <1>5, <1>7
    <3>5. Chain[dir][j] = Chain[d][x] => dir = d /\ j = x
      <4>1. \A d1, d2 \in Dir : \A i1 \in 1 .. Len(Chain[d1]), i2 \in 1 .. Len(Chain[d2]) :
               Chain[d1][i1] = Chain[d2][i2] => d1 = d2 /\ i1 = i2
        BY DEF DataInv, OwnInv, Own
      <4> QED
        BY <1>3, <3>4, <4>1
    <3>6. dir = d => j # x
      BY <1>7, <1>9, <3>2, <3>3
    <3> QED
      BY <1>3, <3>3, <3>5, <3>6
  <2> QED
    BY <1>6, <2>1, <2>2
<1>18. \A d \in Dir : d # dir => last'[d] = last[d]
  BY <1>6, CountTypes
<1>19. last'[dir] = IF p = <<>> THEN 0 ELSE last[dir]
  BY <1>3, <1>6, <1>10, CountTypes
<1>20. \A d \in Dir : Flow(Pending(d), bufs', last[d], received[d], Len(wire[d]))
  <2> TAKE d \in Dir
  <2>1. Flow(Pending(d), bufs, last[d], received[d], Len(wire[d])) /\ Len(Pending(d)) \in Nat
    BY ChainTypes, LenProperties DEF DataInv, FlowInv
  <2> QED
    BY <1>17, <2>1, FlowKept
<1>21. FlowInv'
  <2>1. CASE p = <<>>
    <3>1. Len(wire[dir]) = received[dir]
      <4>1. Flow(<<>>, bufs', last[dir], received[dir], Len(wire[dir])) /\ Len(<<>>) = 0
        BY <1>3, <1>20, <2>1
      <4> QED
        BY <4>1 DEF Flow
    <3>2. Flow(<<>>, bufs', 0, received[dir], Len(wire[dir]))
      BY <3>1, FlowEmpty
    <3> QED
      BY <1>1, <1>3, <1>14, <1>18, <1>19, <1>20, <2>1, <3>2 DEF FlowInv
  <2>2. CASE p # <<>>
    BY <1>1, <1>14, <1>18, <1>19, <1>20, <2>2 DEF FlowInv
  <2> QED
    BY <2>1, <2>2
<1>22. MemInv'
  <2>1. \A d \in Dir : last'[d] = last[d] \/ last'[d] = 0
    BY <1>18, <1>19
  <2>2. \A j \in 1 .. 0 : FALSE
    OBVIOUS
  <2> QED
    BY <1>1, <2>1, <2>2 DEF DataInv, MemInv
<1> QED
  BY <1>11, <1>14, <1>15, <1>16, <1>17, <1>21, <1>22 DEF DataInv

\* Appending after concatenating is concatenating what was appended.
LEMMA AppendLast ==
    ASSUME NEW s \in Seq(BufId), NEW t \in Seq(BufId), NEW b \in BufId
    PROVE  s \o Append(t, b) = Append(s \o t, b)
<1>1. Append(t, b) = t \o <<b>> /\ s \o t \in Seq(BufId) /\ <<b>> \in Seq(BufId)
  BY AppendIsConcat, ConcatProperties
<1>2. Append(s \o t, b) = (s \o t) \o <<b>>
  BY <1>1, AppendIsConcat
<1>3. (s \o t) \o <<b>> = s \o (t \o <<b>>)
  BY <1>1, ConcatAssociative
<1> QED
  BY <1>1, <1>2, <1>3

\* What is read is pending, in a buffer nobody else has.
LEMMA ReceivedData ==
    ASSUME Types, DataInv, EndInv, step = "read", NEW n \in Nat, n <= Room, Received(n),
           n > 0 => Src(dir) \notin eof
    PROVE  /\ DataInv'
           /\ \A d \in Dir : \A i \in 1 .. Len(Pending(d)') :
                 ~bufs'[Pending(d)'[i]].temp => Src(d) \in eof \/ (d = dir /\ n = 0)
           /\ \A d \in Dir : d # dir => out'[d] = out[d]
           /\ received' = [received EXCEPT ![dir] = received[dir] + n]
<1>1. /\ CanGetBuf /\ TakeFree /\ step' = "write" /\ dir' = dir
      /\ mem' = [mem EXCEPT ![dir] =
                    [i \in 1 .. BufSize |-> IF i \in last[dir] + 1 .. last[dir] + n
                                            THEN received[dir] + (i - last[dir])
                                            ELSE mem[dir][i]]]
      /\ bufs' = [bufs EXCEPT ![FreeBuf] = [pos |-> last[dir], last |-> last[dir] + n,
                                             temp |-> n > 0]]
      /\ out' = [out EXCEPT ![dir] = Append(out[dir], FreeBuf)]
      /\ last' = [last EXCEPT ![dir] = last[dir] + n]
      /\ received' = [received EXCEPT ![dir] = received[dir] + n]
      /\ UNCHANGED <<wire, busy, wf>>
  BY DEF Received, kernel
<1>2. dir \in Dir /\ \A d \in Dir : ~Sending(d) /\ ~Sending(d)' /\ wf[d] = busy[d]
  BY <1>1, CountTypes DEF Sending, DataInv, FilterInv
<1>3. PICK b : b = FreeBuf
  OBVIOUS
<1>4. b \in BufId /\ Taken(b, free, nbufs, free', nbufs')
  <2>1. b \in BufId
    BY <1>1, <1>3, FreeBufKnown
  <2>2. Taken(b, free, nbufs, free', nbufs')
    BY <1>1, <1>3 DEF Taken, TakeFree, FreeBuf
  <2> QED
    BY <2>1, <2>2
<1>5. Chain \in [Dir -> Seq(BufId)] /\ free \in Seq(BufId) /\ nbufs \in Nat /\ Own(Chain, free, nbufs)
  BY CountTypes, ChainTypes DEF DataInv, OwnInv
<1>6. \A d \in Dir : Pending(d) = Chain[d] /\ Chain[d] = busy[d] \o out[d]
  BY <1>2, ChainTypes DEF Pending
<1>7. /\ out'[dir] = Append(out[dir], b)
      /\ \A d \in Dir : d # dir => out'[d] = out[d]
  BY <1>1, <1>2, <1>3, CountTypes
<1>7a. busy[dir] \o Append(out[dir], b) = Append(busy[dir] \o out[dir], b)
  <2>1. busy[dir] \in Seq(BufId) /\ out[dir] \in Seq(BufId)
    BY <1>2, CountTypes
  <2> QED
    BY <1>4, <2>1, AppendLast
<1>8. Chain' = [Chain EXCEPT ![dir] = Append(Chain[dir], b)]
  BY <1>1, <1>2, <1>6, <1>7, <1>7a DEF Chain
<1>9. /\ Pending(dir)' = Append(Pending(dir), b)
      /\ \A d \in Dir : d # dir => Pending(d)' = Pending(d)
  <2>1. \A d \in Dir : Pending(d)' = busy[d] \o out'[d] /\ Pending(d) = busy[d] \o out[d]
    BY <1>1, <1>2 DEF Pending
  <2>2. dir' = dir
    BY <1>1
  <2> QED
    BY <1>2, <1>7, <1>7a, <2>1, <2>2
<1>10. OwnInv'
  <2>1. Own(Chain', free', nbufs')
    BY ONLY <1>2, <1>4, <1>5, <1>8, OwnAppend
  <2> QED
    BY <2>1 DEF OwnInv
<1>11. FilterInv'
  BY <1>1, <1>2 DEF FilterInv
<1>12. \A d \in Dir : \A i \in 1 .. Len(Chain[d]) : Chain[d][i] # b
  BY ONLY <1>4, <1>5, TakenFresh
<1>13. /\ bufs'[b].pos = last[dir] /\ bufs'[b].last = last[dir] + n /\ (bufs'[b].temp <=> n > 0)
       /\ \A x \in BufId : x # b => bufs'[x] = bufs[x]
  BY <1>1, <1>3, <1>4, CountTypes
<1>14. \A d \in Dir : \A i \in 1 .. Len(Pending(d)) : bufs'[Pending(d)[i]] = bufs[Pending(d)[i]]
  <2> TAKE d \in Dir
  <2> TAKE i \in 1 .. Len(Pending(d))
  <2>1. Pending(d)[i] \in BufId /\ Pending(d)[i] # b
    BY <1>6, <1>12, ChainTypes, ElementOfSeq
  <2> QED
    BY <1>13, <2>1
<1>15. \A d \in Dir : d # dir => last'[d] = last[d] /\ received'[d] = received[d] /\ mem'[d] = mem[d]
  BY <1>1, CountTypes
<1>16. last'[dir] = last[dir] + n /\ received'[dir] = received[dir] + n
  BY <1>1, <1>2, CountTypes
<1>17. last[dir] \in 0 .. BufSize /\ received[dir] \in Nat /\ BufSize \in Nat /\ Len(wire[dir]) \in Nat
  BY <1>2, CountTypes, LenProperties
<1>18. FlowInv'
  <2>1. ASSUME NEW d \in Dir, d # dir
        PROVE  Flow(Pending(d)', bufs', last'[d], received'[d], Len(wire'[d]))
    <3>1. Flow(Pending(d), bufs, last[d], received[d], Len(wire[d])) /\ Len(Pending(d)) \in Nat
      BY ChainTypes, LenProperties DEF DataInv, FlowInv
    <3>2. Flow(Pending(d), bufs', last[d], received[d], Len(wire[d]))
      BY <1>14, <3>1, FlowKept
    <3> QED
      BY <1>1, <1>9, <1>15, <2>1, <3>2
  <2>2. /\ Pending(dir) \in Seq(BufId) /\ Known(bufs)
        /\ Flow(Pending(dir), bufs, last[dir], received[dir], Len(wire[dir]))
        /\ last[dir] \in Nat
    BY <1>2, <1>17, ChainTypes, CountTypes DEF DataInv, FlowInv
  <2>3. n > 0 => \A i \in 1 .. Len(Pending(dir)) : bufs[Pending(dir)[i]].temp
    BY <1>2 DEF EndInv
  <2>4. \A i \in 1 .. Len(Pending(dir)) : bufs'[Pending(dir)[i]] = bufs[Pending(dir)[i]]
    BY <1>2, <1>14
  <2>5. Flow(Append(Pending(dir), b), bufs', last[dir] + n, received[dir] + n, Len(wire[dir]))
    <3>1. bufs'[b].pos = last[dir] /\ bufs'[b].last = last[dir] + n /\ (bufs'[b].temp <=> n > 0)
      BY <1>13
    <3>2. b \in BufId /\ received[dir] \in Nat /\ Len(wire[dir]) \in Nat /\ n \in Nat
      BY <1>4, <1>17
    <3>3. PICK p \in Seq(BufId) : p = Pending(dir)
      BY <2>2
    <3>4. PICK L \in Nat, x \in Nat, w \in Nat : L = last[dir] /\ x = received[dir] /\ w = Len(wire[dir])
      BY <2>2, <3>2
    <3>5. /\ Known(bufs) /\ Flow(p, bufs, L, x, w) /\ b \in BufId /\ n \in Nat
          /\ n > 0 => \A i \in 1 .. Len(p) : bufs[p[i]].temp
          /\ \A i \in 1 .. Len(p) : bufs'[p[i]] = bufs[p[i]]
          /\ bufs'[b].pos = L /\ bufs'[b].last = L + n /\ (bufs'[b].temp <=> n > 0)
      BY ONLY <2>2, <2>3, <2>4, <3>1, <3>2, <3>3, <3>4
    <3>6. Flow(Append(p, b), bufs', L + n, x + n, w)
      BY ONLY <3>5, p \in Seq(BufId), L \in Nat, x \in Nat, w \in Nat, FlowAppend
    <3> QED
      BY ONLY <3>3, <3>4, <3>6
  <2> QED
    BY <1>1, <1>9, <1>16, <2>1, <2>5 DEF FlowInv
<1>19. MemInv'
  <2>1. ASSUME NEW j \in 1 .. last[dir] + n
        PROVE  mem'[dir][j] = (received[dir] + n) - (last[dir] + n) + j
    <3>1. j \in 1 .. BufSize
      BY <1>17 DEF Room
    <3>2. mem'[dir][j] = IF j \in last[dir] + 1 .. last[dir] + n
                         THEN received[dir] + (j - last[dir]) ELSE mem[dir][j]
      BY <1>1, <1>2, <3>1, CountTypes
    <3>3. CASE j \in last[dir] + 1 .. last[dir] + n
      BY <1>17, <3>2, <3>3
    <3>4. CASE j \notin last[dir] + 1 .. last[dir] + n
      <4>1. j \in 1 .. last[dir]
        BY <1>17, <3>4
      <4>2. mem[dir][j] = received[dir] - last[dir] + j
        BY <1>2, <4>1 DEF DataInv, MemInv
      <4> QED
        BY <1>17, <3>2, <3>4, <4>2
    <3> QED
      BY <3>3, <3>4
  <2>2. \A d \in Dir : d # dir => \A j \in 1 .. last'[d] : mem'[d][j] = received'[d] - last'[d] + j
    BY <1>15 DEF DataInv, MemInv
  <2> QED
    BY <1>16, <2>1, <2>2 DEF MemInv
<1>20. \A d \in Dir : \A i \in 1 .. Len(Pending(d)') :
          ~bufs'[Pending(d)'[i]].temp => Src(d) \in eof \/ (d = dir /\ n = 0)
  <2> TAKE d \in Dir
  <2>1. \A i \in 1 .. Len(Pending(d)) : ~bufs'[Pending(d)[i]].temp => Src(d) \in eof
    BY <1>14 DEF EndInv
  <2>2. CASE d = dir
    <3>1. /\ Len(Append(Pending(dir), b)) = Len(Pending(dir)) + 1 /\ Len(Pending(dir)) \in Nat
          /\ \A i \in 1 .. Len(Pending(dir)) : Append(Pending(dir), b)[i] = Pending(dir)[i]
          /\ Append(Pending(dir), b)[Len(Pending(dir)) + 1] = b
      BY <1>2, <1>4, ChainTypes, AppendProperties, LenProperties
    <3>11. Pending(d)' = Append(Pending(dir), b)
      BY <1>1, <1>9, <2>2
    <3> TAKE i \in 1 .. Len(Pending(d)')
    <3>2. CASE i \in 1 .. Len(Pending(dir))
      BY <2>1, <2>2, <3>1, <3>11, <3>2
    <3>3. CASE i = Len(Pending(dir)) + 1
      <4>1. Pending(d)'[i] = b
        BY <3>1, <3>11, <3>3
      <4>2. ~bufs'[b].temp => n = 0
        BY <1>13
      <4> QED
        BY <2>2, <4>1, <4>2
    <3>4. i \in 1 .. Len(Pending(dir)) \/ i = Len(Pending(dir)) + 1
      BY <3>1, <3>11
    <3> QED
      BY <3>2, <3>3, <3>4
  <2>3. CASE d # dir
    BY <1>9, <2>1, <2>3
  <2> QED
    BY <2>2, <2>3
<1> QED
  BY <1>1, <1>7, <1>10, <1>11, <1>18, <1>19, <1>20 DEF DataInv

-----------------------------------------------------------------------------
(* The steps that leave chains and bytes alone.                            *)

\* A step that leaves the data alone and neither takes part in nor starts a
\* send: new buffers are not left behind on a connected session.
LEMMA Unmoved ==
    ASSUME LiveInv, step \notin {"send", "update"}, step' \notin {"send", "update"},
           UNCHANGED <<data, wire, sent, eof, fin, rst, connected, buffered>>,
           ~connected => shut' = shut,
           UNCHANGED run \/ ~connected \/ \A d \in Dir : out[d] = <<>>
    PROVE  LiveInv'
<1>1. DataInv' /\ \A d \in Dir : Pending(d)' = Pending(d)
  BY DataKept DEF LiveInv, Sending
<1>2. UNCHANGED <<bufs, out, busy, wf, received>>
  BY DEF data
<1>3. EndInv'
  BY <1>1, <1>2 DEF LiveInv, EndInv
<1>4. BlockedInv' /\ UnconnectedInv'
  BY <1>2 DEF LiveInv, BlockedInv, UnconnectedInv
<1>5. FlushInv'
  BY <1>2 DEF LiveInv, FlushInv, run
<1> QED
  BY <1>1, <1>3, <1>4, <1>5 DEF LiveInv

\* Between writes nothing new is in the out chain of a connected session.
LEMMA NothingNew ==
    ASSUME LiveInv, step \notin {"write", "send", "update"}
    PROVE  ~connected \/ \A d \in Dir : out[d] = <<>>
BY DEF LiveInv, FlushInv

\* A step of a running session that keeps its invariant.
LEMMA GoesOn ==
    ASSUME RelayInv, step # "done", step' # "done", outcome' = outcome, RelayFIFO', LiveInv'
    PROVE  RelayInv'
BY DEF RelayInv, EndedInv, FlushedAtClose

\* ... and one that leaves the wire alone.
LEMMA SameWire == ASSUME RelayFIFO, wire' = wire PROVE RelayFIFO'
BY DEF RelayFIFO

\* Ending a session other than in order promises nothing more.
LEMMA FinalizeRelay ==
    ASSUME RelayInv, NEW why, Finalize(why), why # "none", why # "disconnected" PROVE RelayInv'
<1>1. /\ step' = "done" /\ outcome' = why /\ open' = {} /\ wire' = wire
  BY DEF Finalize, kernel
<1>2. EndedInv'
  BY <1>1 DEF EndedInv, FlushedAtClose
<1> QED
  BY <1>1, <1>2, SameWire DEF RelayInv

\* Giving up a peer that was never connected.
LEMMA NextUpstreamRelay ==
    ASSUME RelayInv, step \in {"idle", "dial", "init"}, ~connected, NextUpstream PROVE RelayInv'
<1>1. CASE Finalize("internal") \/ Finalize("bad gateway")
  BY <1>1, FinalizeRelay
<1>2. CASE ~(Finalize("internal") \/ Finalize("bad gateway"))
  <2>1. /\ step' = "connect" /\ outcome' = outcome
        /\ UNCHANGED <<data, wire, sent, eof, fin, rst, connected, buffered, shut>>
    BY <1>2 DEF NextUpstream
  <2>2. LiveInv'
    BY <2>1, Unmoved DEF RelayInv
  <2> QED
    BY <2>1, <2>2, SameWire, GoesOn DEF RelayInv
<1> QED
  BY <1>1, <1>2

\* A fresh upstream connection finds nothing relayed and replaces the peer's
\* input, of which nothing was read.
LEMMA NewUpstreamRelay ==
    ASSUME RelayInv, Types, ~connected, NEW s, NewUpstream(s), step' \in {"idle", "init"}
    PROVE  RelayInv'
<1>1. /\ step = "dial" /\ UNCHANGED <<data, wire, upstream, dir, dw>>
      /\ sent' = [sent EXCEPT !["down"] = 0]
      /\ fin' = fin \ {"u"} /\ rst' = rst \ {"u"} /\ eof' = eof \ {"u"}
      /\ buffered' = buffered \ {"u"} /\ shut' = shut \ {"u"}
  BY DEF NewUpstream
<1>2. UNCHANGED <<bufs, out, busy, wf, received, connected, outcome>>
  BY <1>1 DEF data, upstream
<1>3. LiveInv
  BY <1>1 DEF RelayInv
<1>4. DataInv' /\ \A d \in Dir : Pending(d)' = Pending(d)
  BY <1>1, <1>3, DataKept DEF LiveInv, Sending
<1>5. /\ \A d \in Dir : wire[d] = <<>> /\ wf[d] = <<>> /\ busy[d] = <<>>
      /\ out["down"] = <<>> /\ received["down"] = 0 /\ shut = {}
  BY <1>3 DEF LiveInv, UnconnectedInv
<1>6. Len(Pending("down")) = 0
  BY <1>5, ConcatEmptySeq DEF Pending, Dir
<1>7. EndInv'
  <2>1. sent'["up"] = sent["up"] /\ sent'["down"] = 0
    BY <1>1, CountTypes DEF Dir
  <2>2. \A i \in 1 .. Len(Pending("down")) : FALSE
    BY <1>6
  <2> QED
    BY <1>1, <1>2, <1>3, <1>4, <1>5, <2>1, <2>2 DEF LiveInv, EndInv, Src, Dir
<1>8. BlockedInv' /\ UnconnectedInv'
  BY <1>1, <1>2, <1>5 DEF BlockedInv, UnconnectedInv
<1>9. FlushInv'
  BY <1>1, <1>2, <1>3, <1>5 DEF LiveInv, FlushInv, Dst, Dir
<1> QED
  BY <1>1, <1>2, <1>4, <1>7, <1>8, <1>9, SameWire, GoesOn DEF RelayInv, LiveInv

\* Up to the first write to the upstream.
LEMMA ConnectingRelay == ASSUME RelayInv, Types, TimerInv, Connecting PROVE RelayInv'
<1>1. CASE Resolved
  <2>1. CASE Finalize("internal")
    BY <2>1, FinalizeRelay
  <2>2. CASE ~Finalize("internal")
    <3>1. /\ step = "idle" /\ ~connected /\ step' = "connect" /\ outcome' = outcome
          /\ UNCHANGED <<data, wire, sent, eof, fin, rst, connected, buffered, shut>>
      BY <1>1, <2>2 DEF Resolved, TimerInv, kernel, events, conns
    <3> QED
      BY <3>1, Unmoved, SameWire, GoesOn DEF RelayInv
  <2> QED
    BY <2>1, <2>2
<1>2. CASE GetPeer
  <2>1. CASE Finalize("bad gateway")
    BY <2>1, FinalizeRelay
  <2>2. CASE ~Finalize("bad gateway")
    <3>1. connected = FALSE
      BY <1>2 DEF GetPeer, TimerInv, Types, UpstreamOK
    <3>2. /\ step = "connect" /\ step' = "dial" /\ outcome' = outcome /\ connected' = FALSE
          /\ UNCHANGED <<data, wire, sent, eof, fin, rst, buffered, shut>>
      BY <1>2, <2>2 DEF GetPeer, kernel, events, conns
    <3> QED
      BY <3>1, <3>2, Unmoved, SameWire, GoesOn DEF RelayInv
  <2> QED
    BY <2>1, <2>2
<1>3. CASE DialFails
  <2>1. step = "dial" /\ ~connected
    BY <1>3 DEF DialFails, TimerInv
  <2> QED
    BY <1>3, <2>1, FinalizeRelay, NextUpstreamRelay DEF DialFails
<1>4. CASE ConnectAgain \/ ConnectNow
  <2>1. step = "dial" /\ ~connected
    BY <1>4 DEF ConnectAgain, ConnectNow, NewUpstream, TimerInv
  <2> QED
    BY <1>4, <2>1, NewUpstreamRelay DEF ConnectAgain, ConnectNow
<1>5. CASE ConnectTimeout
  BY <1>5, NextUpstreamRelay DEF ConnectTimeout
<1>6. CASE InitUpstream
  <2>1. step = "init" /\ ~connected
    BY <1>6 DEF InitUpstream, TimerInv
  <2>2. CASE NextUpstream \/ Finalize("internal")
    BY <2>1, <2>2, FinalizeRelay, NextUpstreamRelay
  <2>3. CASE ~(NextUpstream \/ Finalize("internal"))
    <3>1. /\ step' = "write" /\ dir' = "up" /\ dw' = TRUE /\ connected' = TRUE
          /\ UNCHANGED <<data, wire, sent, eof, fin, rst, buffered, shut, outcome>>
      BY <1>6, <2>3 DEF InitUpstream, kernel, conns
    <3>2. LiveInv /\ UNCHANGED <<bufs, out, wf, received>>
      BY <2>1, <3>1 DEF RelayInv, data
    <3>3. DataInv' /\ \A d \in Dir : Pending(d)' = Pending(d)
      BY <2>1, <3>1, <3>2, DataKept DEF LiveInv, Sending
    <3>4. EndInv'
      BY <3>1, <3>2, <3>3 DEF LiveInv, EndInv
    <3>5. BlockedInv' /\ UnconnectedInv'
      BY <3>1 DEF BlockedInv, UnconnectedInv
    <3>6. FlushInv'
      BY <2>1, <3>1, <3>2 DEF LiveInv, FlushInv, UnconnectedInv, Dir
    <3> QED
      BY <2>1, <3>1, <3>3, <3>4, <3>5, <3>6, SameWire, GoesOn DEF RelayInv, LiveInv
  <2> QED
    BY <2>2, <2>3
<1>7. ASSUME NEW e \in UpEvents, ConnectHandler(e) PROVE RelayInv'
  <2>1. step = "idle" /\ ~connected
    BY <1>7 DEF ConnectHandler
  <2>2. CASE NextUpstream
    BY <2>1, <2>2, NextUpstreamRelay
  <2>3. CASE ~NextUpstream
    <3>1. /\ step' = "init" /\ outcome' = outcome
          /\ UNCHANGED <<data, wire, sent, eof, fin, rst, connected, buffered, shut>>
      BY <1>7, <2>3 DEF ConnectHandler, kernel, conns, upstream
    <3> QED
      BY <2>1, <3>1, Unmoved, SameWire, GoesOn DEF RelayInv
  <2> QED
    BY <2>2, <2>3
<1> QED
  BY <1>1, <1>2, <1>3, <1>4, <1>5, <1>6, <1>7 DEF Connecting

\* A handler starts, or returns at once: between handlers nothing is new.
LEMMA HandlerStarts ==
    ASSUME RelayInv, step = "idle", step' \in {"idle", "write"}, outcome' = outcome,
           UNCHANGED <<data, wire, sent, eof, fin, rst, connected, buffered, shut>>
    PROVE  RelayInv'
<1>1. LiveInv
  BY DEF RelayInv
<1>2. ~connected \/ \A d \in Dir : out[d] = <<>>
  BY <1>1, NothingNew
<1>3. LiveInv'
  BY <1>1, <1>2, Unmoved
<1> QED
  BY <1>3, SameWire, GoesOn DEF RelayInv

\* The event loop and the handlers up to the relaying.
LEMMA LoopRelay == ASSUME RelayInv, Loop PROVE RelayInv'
<1>1. CASE EpollWait
  <2>1. /\ step = "idle" /\ step' = "idle" /\ outcome' = outcome
        /\ UNCHANGED <<data, wire, sent, eof, fin, rst, connected, buffered, shut>>
    BY <1>1 DEF EpollWait, kernel, events, conns, upstream, run
  <2> QED
    BY <2>1, HandlerStarts
<1>2. ASSUME NEW s \in Side, DispatchRead(s) \/ DispatchWrite(s) PROVE RelayInv'
  <2>1. /\ step = "idle" /\ step' = "idle" /\ outcome' = outcome
        /\ UNCHANGED <<data, wire, sent, eof, fin, rst, connected, buffered, shut>>
    BY <1>2 DEF DispatchRead, DispatchWrite, kernel, conns, upstream, run
  <2> QED
    BY <2>1, HandlerStarts
<1>3. ASSUME NEW e \in Event, Handler(e) PROVE RelayInv'
  <2>1. CASE Finalize("shutdown")
    BY <2>1, FinalizeRelay
  <2>2. CASE ~Finalize("shutdown")
    <3>1. /\ step = "idle" /\ step' \in {"idle", "write"} /\ outcome' = outcome
          /\ UNCHANGED <<data, wire, sent, eof, fin, rst, connected, buffered, shut>>
      BY <1>3, <2>2 DEF Handler, kernel, conns, upstream, run
    <3> QED
      BY <3>1, HandlerStarts
  <2> QED
    BY <2>1, <2>2
<1>4. ASSUME NEW e \in Event, DelayTimeout(e) PROVE RelayInv'
  <2>1. CASE Finalize("shutdown")
    BY <2>1, FinalizeRelay
  <2>2. CASE ~Finalize("shutdown")
    <3>1. /\ step = "idle" /\ step' \in {"idle", "write"} /\ outcome' = outcome
          /\ UNCHANGED <<data, wire, sent, eof, fin, rst, connected, buffered, shut>>
      BY <1>4, <2>2 DEF DelayTimeout, kernel, conns, upstream, run
    <3> QED
      BY <3>1, HandlerStarts
  <2> QED
    BY <2>1, <2>2
<1>5. ASSUME NEW e \in Event, IdleTimeout(e) PROVE RelayInv'
  <2>1. Finalize("shutdown") \/ Finalize("timed out")
    BY <1>5 DEF IdleTimeout
  <2> QED
    BY <2>1, FinalizeRelay
<1>6. CASE ShutdownTimeout
  <2>1. /\ step = "idle" /\ step' = "idle" /\ outcome' = outcome
        /\ UNCHANGED <<data, wire, sent, eof, fin, rst, connected, buffered, shut>>
    BY <1>6 DEF ShutdownTimeout, kernel, upstream, run
  <2> QED
    BY <2>1, HandlerStarts
<1> QED
  BY <1>1, <1>2, <1>3, <1>4, <1>5, <1>6 DEF Loop

\* The remote ends send more and end their input, the clock ticks.
LEMMA RemoteRelay == ASSUME RelayInv, Types, Remote PROVE RelayInv'
<1>1. /\ UNCHANGED <<data, wire, eof, connected, buffered, shut, outcome, run>>
      /\ UNCHANGED <<bufs, out, busy, wf, received, step, dir, dw>>
  BY DEF Remote, RemoteSend, RemoteFin, RemoteReset, RemoteTake, ConnectCompletes, Tick,
     kernel, events, conns, data, upstream, run
<1>2. step # "done"
  <2>1. step # "done" \/ open # {}
    BY DEF Remote, RemoteSend, RemoteFin, RemoteReset, RemoteTake, ConnectCompletes, Tick, Alive
  <2> QED
    BY <2>1 DEF RelayInv, EndedInv
<1>3. LiveInv
  BY <1>2 DEF RelayInv
<1>4. DataInv' /\ \A d \in Dir : Pending(d)' = Pending(d)
  BY <1>1, <1>3, DataKept DEF LiveInv, Sending
<1>5. /\ \A d \in Dir : received[d] <= sent'[d] /\ (Src(d) \in eof => sent'[d] = sent[d])
      /\ fin \subseteq fin' /\ rst \subseteq rst'
  <2>1. CASE UNCHANGED <<sent, fin, rst>>
    BY <1>3, <2>1 DEF LiveInv, EndInv
  <2>2. ASSUME NEW s \in Side, RemoteFin(s) \/ RemoteReset(s)
        PROVE  sent' = sent /\ fin \subseteq fin' /\ rst \subseteq rst'
    BY <2>2 DEF RemoteFin, RemoteReset
  <2>3. ASSUME NEW s \in Side, RemoteSend(s) PROVE <1>5!1 /\ fin' = fin /\ rst' = rst
    <3>1. /\ s \notin fin \cup rst /\ sent' = [sent EXCEPT ![From(s)] = sent[From(s)] + 1]
          /\ fin' = fin /\ rst' = rst
      BY <2>3 DEF RemoteSend
    <3>2. s \notin eof
      <4>1. s = Src(From(s)) /\ From(s) \in Dir
        BY DEF Src, From, Side, Dir
      <4> QED
        BY <1>3, <3>1, <4>1 DEF LiveInv, EndInv
    <3>3. ASSUME NEW d \in Dir
          PROVE  received[d] <= sent'[d] /\ (Src(d) \in eof => sent'[d] = sent[d])
      <4>1. received[d] <= sent[d] /\ received[d] \in Nat /\ sent[d] \in Nat
        BY <1>3, CountTypes DEF LiveInv, EndInv
      <4>2. CASE d = From(s)
        <5>1. sent'[d] = sent[d] + 1
          BY <3>1, <4>2, CountTypes
        <5>2. Src(d) = s
          BY <4>2 DEF Src, From, Side, Dir
        <5> QED
          BY <3>2, <4>1, <5>1, <5>2
      <4>3. CASE d # From(s)
        <5>1. sent'[d] = sent[d]
          BY <3>1, <4>3, CountTypes
        <5> QED
          BY <4>1, <5>1
      <4> QED
        BY <4>2, <4>3
    <3> QED
      BY <3>1, <3>3
  <2>4. ASSUME NEW s \in Side, RemoteTake(s) PROVE UNCHANGED <<sent, fin, rst>>
    BY <2>4 DEF RemoteTake
  <2>5. ASSUME ConnectCompletes \/ Tick PROVE UNCHANGED <<sent, fin, rst>>
    BY <2>5 DEF ConnectCompletes, Tick, kernel
  <2>6. ASSUME sent' = sent PROVE <1>5!1
    BY <1>3, <2>6 DEF LiveInv, EndInv
  <2> QED
    BY <2>1, <2>2, <2>3, <2>4, <2>5, <2>6 DEF Remote
<1>6. EndInv'
  <2>1. EndInv
    BY <1>3 DEF LiveInv
  <2> SUFFICES ASSUME NEW d \in Dir
               PROVE  /\ received'[d] <= sent'[d]
                      /\ Src(d) \in eof' => Src(d) \in fin' \cup rst' /\ sent'[d] = received'[d]
                      /\ \A i \in 1 .. Len(Pending(d)') :
                            ~bufs'[Pending(d)'[i]].temp => Src(d) \in eof'
    BY DEF EndInv
  <2> QED
    BY <1>1, <1>4, <1>5, <2>1 DEF EndInv
<1>7. BlockedInv' /\ UnconnectedInv' /\ FlushInv'
  <2>1. UnconnectedInv' /\ FlushInv'
    BY <1>1, <1>3 DEF LiveInv, UnconnectedInv, FlushInv
  <2>2. ready' = ready
    BY DEF Remote, RemoteSend, RemoteFin, RemoteReset, RemoteTake, ConnectCompletes, Tick, events
  <2> QED
    BY <1>1, <1>3, <2>1, <2>2 DEF LiveInv, BlockedInv
<1> QED
  BY <1>1, <1>2, <1>4, <1>6, <1>7, SameWire, GoesOn DEF RelayInv, LiveInv

-----------------------------------------------------------------------------
(* The steps of ngx_stream_proxy_process().                                *)

\* Without a connection to write to, or anything to write, the write is skipped.
LEMMA SkipWriteRelay == ASSUME RelayInv, Types, TimerInv, SkipWrite PROVE RelayInv'
<1>1. /\ step = "write" /\ step' = "read" /\ ~Writes /\ outcome' = outcome /\ dir' = dir /\ dw' = dw
      /\ UNCHANGED <<data, wire, sent, eof, fin, rst, connected, buffered, shut>>
  BY DEF SkipWrite, kernel, events, conns, upstream
<1>2. LiveInv
  BY <1>1 DEF RelayInv
<1>3. ~connected \/ \A d \in Dir : out[d] = <<>>
  <2> SUFFICES ASSUME connected, NEW d \in Dir, out[d] # <<>> PROVE FALSE
    OBVIOUS
  <2>1. dir = d /\ dw
    BY <1>1, <1>2 DEF LiveInv, FlushInv
  <2> QED
    BY <1>1, <2>1 DEF Writes, DstUp
<1> QED
  BY <1>1, <1>2, <1>3, Unmoved, SameWire, GoesOn DEF RelayInv

\* The write filter: what it takes is pending, what it drops are ends of input
\* behind the last byte.
LEMMA WriteFilterRelay == ASSUME RelayInv, Types, TimerInv, WriteFilter PROVE RelayInv'
<1>1. CASE Finalize("write error")
  BY <1>1, FinalizeRelay
<1>2. CASE ~Finalize("write error")
  <2>1. /\ step = "write" /\ step' \in {"send", "update"} /\ Writes /\ dir' = dir /\ dw' = dw
        /\ step' = "update" => wf'[dir] = <<>> /\ buffered' = buffered \ {Dst(dir)}
        /\ step' = "send" => buffered' = buffered
        /\ \A d \in Dir : d # dir => wf'[d] = wf[d]
        /\ UNCHANGED <<wire, sent, eof, fin, rst, connected, shut, outcome, ready>>
        /\ UNCHANGED <<bufs, out, busy, received>>
    BY <1>2, CountTypes DEF WriteFilter, kernel, events, upstream
  <2>2. LiveInv /\ dir \in Dir
    BY <2>1, CountTypes DEF RelayInv
  <2>3. connected
    BY <2>1 DEF Writes, DstUp, TimerInv, Relaying
  <2>4. /\ DataInv'
        /\ \A d \in Dir : Pending(d)' = Pending(d) \/ Pending(d)' = <<>>
        /\ \/ step' = "send" /\ wf'[dir] # <<>> /\ bufs'[wf'[dir][1]].temp
           \/ step' = "update" /\ wf'[dir] = <<>>
    BY <2>1, <2>2, WriteFilterData DEF LiveInv
  <2>5. EndInv'
    <3> SUFFICES ASSUME NEW d \in Dir, NEW i \in 1 .. Len(Pending(d)'), ~bufs'[Pending(d)'[i]].temp
                 PROVE  Src(d) \in eof
      BY <2>1, <2>2 DEF LiveInv, EndInv
    <3>1. Pending(d)' # <<>>
      OBVIOUS
    <3>2. Pending(d)' = Pending(d)
      BY <2>4, <3>1
    <3> QED
      BY <2>1, <2>2, <3>2 DEF LiveInv, EndInv
  <2>6. BlockedInv'
    BY <2>1, <2>4 DEF BlockedInv
  <2>7. UnconnectedInv'
    BY <2>1, <2>3 DEF UnconnectedInv
  <2>8. FlushInv'
    <3>1. \A d \in Dir : d # dir => Dst(d) # Dst(dir)
      BY <2>2 DEF Dst, Dir
    <3>2. \A d \in Dir : Dst(d) \in buffered <=> wf[d] # <<>>
      BY <2>1, <2>2 DEF LiveInv, FlushInv
    <3>3. \A d \in Dir : ~(dir' = d /\ step' = "send") => (Dst(d) \in buffered' <=> wf'[d] # <<>>)
      <4> SUFFICES ASSUME NEW d \in Dir, ~(dir = d /\ step' = "send")
                   PROVE  Dst(d) \in buffered' <=> wf'[d] # <<>>
        BY <2>1
      <4>1. CASE d = dir
        BY <2>1, <4>1
      <4>2. CASE d # dir
        BY <2>1, <3>1, <3>2, <4>2
      <4> QED
        BY <4>1, <4>2
    <3>4. \A d \in Dir : out[d] # <<>> => dir = d
      BY <2>2, <2>3 DEF LiveInv, FlushInv
    <3> QED
      BY <2>1, <3>3, <3>4 DEF FlushInv
  <2> QED
    BY <2>1, <2>4, <2>5, <2>6, <2>7, <2>8, SameWire, GoesOn DEF RelayInv, LiveInv
<1> QED
  BY <1>1, <1>2

\* A send that stops moves nothing.
LEMMA SendStopsRelay == ASSUME RelayInv, Types, SendBlocked \/ SendDone PROVE RelayInv'
<1>1. /\ step = "send" /\ step' = "update" /\ dir' = dir /\ dw' = dw
      /\ buffered' = IF wf[dir] = <<>> THEN buffered \ {Dst(dir)} ELSE buffered \cup {Dst(dir)}
      /\ UNCHANGED <<data, wire, sent, eof, fin, rst, connected, shut, outcome>>
  BY DEF SendBlocked, SendDone, kernel, events, conns, upstream
<1>2. LiveInv /\ dir \in Dir /\ UNCHANGED <<bufs, out, busy, wf, received>>
  BY <1>1, CountTypes DEF RelayInv, data
<1>3. DataInv' /\ \A d \in Dir : Pending(d)' = Pending(d)
  BY <1>1, <1>2, DataKept DEF LiveInv, Sending
<1>4. EndInv'
  BY <1>1, <1>2, <1>3 DEF LiveInv, EndInv
<1>5. BlockedInv'
  <2>1. ASSUME wf[dir] # <<>> PROVE bufs[wf[dir][1]].temp
    <3>1. Wr(Dst(dir)) \notin ready \/ ~Special(Head(wf[dir]))
      BY <2>1 DEF SendBlocked, SendDone
    <3>2. CASE Wr(Dst(dir)) \notin ready
      BY <1>1, <1>2, <3>2 DEF LiveInv, BlockedInv
    <3>3. CASE ~Special(Head(wf[dir]))
      BY <2>1, <3>3 DEF Special
    <3> QED
      BY <3>1, <3>2, <3>3
  <2> QED
    BY <1>1, <1>2, <2>1 DEF BlockedInv
<1>6. UnconnectedInv'
  BY <1>1, <1>2 DEF LiveInv, UnconnectedInv
<1>7. FlushInv'
  <2>1. \A d \in Dir : d # dir => Dst(d) # Dst(dir)
    BY <1>2 DEF Dst, Dir
  <2> QED
    BY <1>1, <1>2, <2>1 DEF LiveInv, FlushInv
<1> QED
  BY <1>1, <1>3, <1>4, <1>5, <1>6, <1>7, SameWire, GoesOn DEF RelayInv, LiveInv

\* Consecutive numbers continue consecutive numbers.
LEMMA CountOn ==
    ASSUME NEW w \in Seq(Nat), w = [i \in 1 .. Len(w) |-> i], NEW n \in Nat,
           NEW v, v = w \o [i \in 1 .. n |-> Len(w) + i]
    PROVE  v = [i \in 1 .. Len(v) |-> i] /\ Len(v) = Len(w) + n
<1> DEFINE t == [i \in 1 .. n |-> Len(w) + i]
<1>1. t \in Seq(Nat) /\ Len(t) = n /\ Len(w) \in Nat /\ \A i \in 1 .. n : t[i] = Len(w) + i
  OBVIOUS
<1> HIDE DEF t
<1>2. /\ v \in Seq(Nat) /\ Len(v) = Len(w) + n
      /\ \A i \in 1 .. Len(w) + n : v[i] = IF i <= Len(w) THEN w[i] ELSE t[i - Len(w)]
  <2>1. v = w \o t
    BY DEF t
  <2> QED
    BY <1>1, <2>1, ConcatProperties
<1>3. \A i \in 1 .. Len(v) : v[i] = i
  <2> TAKE i \in 1 .. Len(v)
  <2>1. CASE i <= Len(w)
    <3>1. i \in 1 .. Len(w)
      BY <1>1, <1>2, <2>1
    <3>2. w[i] = i
      BY <3>1
    <3> QED
      BY <1>2, <2>1, <3>2
  <2>2. CASE ~(i <= Len(w))
    <3>1. i - Len(w) \in 1 .. n
      BY <1>1, <1>2, <2>2
    <3> QED
      BY <1>1, <1>2, <2>2, <3>1
  <2> QED
    BY <2>1, <2>2
<1>4. v = [i \in 1 .. Len(v) |-> v[i]]
  BY <1>2
<1> QED
  BY <1>2, <1>3, <1>4

\* The bytes sent are the next ones.
LEMMA SendBytesRelay == ASSUME RelayInv, Types, SendBytes PROVE RelayInv'
<1>1. /\ step = "send" /\ step' = "send" /\ dir' = dir /\ dw' = dw
      /\ UNCHANGED <<sent, eof, fin, rst, connected, shut, outcome, buffered, ready>>
      /\ UNCHANGED <<out, busy, received>>
      /\ Wr(Dst(dir)) \in ready
      /\ \A d \in Dir : d # dir => wf'[d] = wf[d]
  BY CountTypes DEF SendBytes, events, conns, upstream, run
<1>2. LiveInv /\ dir \in Dir
  BY <1>1, CountTypes DEF RelayInv
<1>3. /\ DataInv'
      /\ \A d \in Dir : \A i \in 1 .. Len(Pending(d)') :
            \E j \in 1 .. Len(Pending(d)) : Pending(d)'[i] = Pending(d)[j]
      /\ \A b \in BufId : bufs'[b].temp <=> bufs[b].temp
  BY <1>2, SendBytesData DEF LiveInv
<1>4. PICK n \in Nat : wire' = [wire EXCEPT ![dir] =
                                  wire[dir] \o [i \in 1 .. n |-> Len(wire[dir]) + i]]
  BY <1>2, SendBytesData DEF LiveInv
<1>5. RelayFIFO'
  <2>1. ASSUME NEW d \in Dir PROVE wire'[d] = [i \in 1 .. Len(wire'[d]) |-> i]
    <3>1. wire[d] \in Seq(Nat) /\ wire[d] = [i \in 1 .. Len(wire[d]) |-> i]
      BY CountTypes DEF RelayInv, RelayFIFO
    <3>2. CASE d = dir
      <4>1. wire'[d] = wire[d] \o [i \in 1 .. n |-> Len(wire[d]) + i]
        BY <1>4, <3>2, CountTypes
      <4> QED
        BY ONLY <3>1, <4>1, <1>4, n \in Nat, CountOn
    <3>3. CASE d # dir
      <4>1. wire'[d] = wire[d]
        BY <1>4, <3>3, CountTypes
      <4> QED
        BY <3>1, <4>1
    <3> QED
      BY <3>2, <3>3
  <2> QED
    BY <2>1 DEF RelayFIFO
<1>6. EndInv'
  <2> SUFFICES ASSUME NEW d \in Dir, NEW i \in 1 .. Len(Pending(d)'), ~bufs'[Pending(d)'[i]].temp
               PROVE  Src(d) \in eof
    BY <1>1, <1>2 DEF LiveInv, EndInv
  <2>1. PICK j \in 1 .. Len(Pending(d)) : Pending(d)'[i] = Pending(d)[j]
    BY <1>3
  <2>2. Pending(d)[j] \in BufId
    BY ChainTypes, ElementOfSeq
  <2>3. ~bufs[Pending(d)[j]].temp
    BY <1>3, <2>1, <2>2
  <2> QED
    BY <1>2, <2>3 DEF LiveInv, EndInv
<1>7. BlockedInv'
  BY <1>1 DEF BlockedInv
<1>8. UnconnectedInv'
  BY <1>1, <1>2 DEF LiveInv, UnconnectedInv
<1>9. FlushInv'
  BY <1>1, <1>2 DEF LiveInv, FlushInv
<1> QED
  BY <1>1, <1>3, <1>5, <1>6, <1>7, <1>8, <1>9, GoesOn DEF RelayInv, LiveInv

\* Sent buffers are returned, the others keep what they hold.
LEMMA UpdateChainsRelay == ASSUME RelayInv, Types, UpdateChains PROVE RelayInv'
<1>1. /\ step = "update" /\ step' = "read" /\ dir' = dir /\ dw' = dw
      /\ UNCHANGED <<wire, sent, eof, fin, rst, connected, buffered, shut, outcome>>
      /\ UNCHANGED <<wf, received>>
  BY DEF UpdateChains, kernel, events, conns, upstream
<1>2. LiveInv /\ dir \in Dir
  BY <1>1, CountTypes DEF RelayInv
<1>3. connected
  BY <1>1, <1>2 DEF LiveInv, UnconnectedInv
<1>4. /\ DataInv'
      /\ \A d \in Dir : /\ Pending(d)' = Pending(d)
                        /\ \A i \in 1 .. Len(Pending(d)) :
                              bufs'[Pending(d)[i]] = bufs[Pending(d)[i]]
      /\ out'[dir] = <<>> /\ \A d \in Dir : d # dir => out'[d] = out[d]
  BY <1>2, UpdateChainsData DEF LiveInv
<1>5. EndInv'
  BY <1>1, <1>2, <1>4 DEF LiveInv, EndInv
<1>6. BlockedInv' /\ UnconnectedInv'
  BY <1>1, <1>3 DEF BlockedInv, UnconnectedInv
<1>7. FlushInv'
  <2>1. \A d \in Dir : out'[d] = <<>>
    BY <1>1, <1>2, <1>3, <1>4 DEF LiveInv, FlushInv
  <2> QED
    BY <1>1, <1>2, <2>1 DEF LiveInv, FlushInv
<1> QED
  BY <1>1, <1>4, <1>5, <1>6, <1>7, SameWire, GoesOn DEF RelayInv, LiveInv

\* Nothing is read this time.
LEMMA ReadsNothingRelay ==
    ASSUME RelayInv, SkipRead \/ ReadLimited \/ RecvAgain PROVE RelayInv'
<1>1. /\ step = "read" /\ step' = "finish" /\ outcome' = outcome
      /\ UNCHANGED <<data, wire, sent, eof, fin, rst, connected, buffered, shut>>
  BY DEF SkipRead, ReadLimited, RecvAgain, MayRead, kernel, events, conns, upstream
<1>2. LiveInv
  BY <1>1 DEF RelayInv
<1>3. ~connected \/ \A d \in Dir : out[d] = <<>>
  BY <1>1, <1>2, NothingNew
<1>4. LiveInv'
  BY <1>1, <1>2, <1>3, Unmoved
<1> QED
  BY <1>1, <1>4, SameWire, GoesOn DEF RelayInv

\* What is unread of a direction is what its source sent and nginx has not read.
LEMMA QueuedOf ==
    ASSUME NEW d \in Dir PROVE Queued(Src(d)) = sent[d] - received[d]
BY DEF Queued, Src, From, Dir

\* Bytes, or with n = 0 the end of the input, are read.
LEMMA ReceivedRelay ==
    ASSUME RelayInv, Types, TimerInv, step = "read", NEW n \in Nat, n <= Room, Received(n),
           UNCHANGED <<wire, sent, fin, rst, connected, buffered, shut, outcome>>,
           n <= Queued(Src(dir)),
           \/ n > 0 /\ eof' = eof
           \/ n = 0 /\ eof' = eof \cup {Src(dir)} /\ Queued(Src(dir)) = 0 /\ Src(dir) \in fin \cup rst
    PROVE  RelayInv'
<1>1. /\ step' = "write" /\ dir' = dir /\ dw' = TRUE /\ UNCHANGED <<busy, wf>>
  BY DEF Received
<1>2. LiveInv /\ dir \in Dir /\ \A d \in Dir : received[d] \in Nat /\ sent[d] \in Nat
  BY CountTypes DEF RelayInv
<1>3. Queued(Src(dir)) = sent[dir] - received[dir]
  BY <1>2, QueuedOf
<1>4. n > 0 => Src(dir) \notin eof
  BY <1>2, <1>3 DEF LiveInv, EndInv
<1>5. /\ DataInv'
      /\ \A d \in Dir : \A i \in 1 .. Len(Pending(d)') :
            ~bufs'[Pending(d)'[i]].temp => Src(d) \in eof \/ (d = dir /\ n = 0)
      /\ \A d \in Dir : d # dir => out'[d] = out[d]
      /\ received' = [received EXCEPT ![dir] = received[dir] + n]
  BY <1>2, <1>4, ReceivedData DEF LiveInv
<1>6. \A d \in Dir : received'[d] = IF d = dir THEN received[dir] + n ELSE received[d]
  BY <1>2, <1>5, CountTypes
<1>7. eof \subseteq eof' /\ \A d \in Dir : d # dir => Src(d) # Src(dir)
  BY <1>2 DEF Src, Dir
<1>8. EndInv'
  <2>1. ASSUME NEW d \in Dir
        PROVE  received'[d] <= sent[d] /\ (Src(d) \in eof' => Src(d) \in fin \cup rst /\ sent[d] = received'[d])
    <3>1. received[d] <= sent[d] /\ (Src(d) \in eof => Src(d) \in fin \cup rst /\ sent[d] = received[d])
      BY <1>2 DEF LiveInv, EndInv
    <3>2. CASE d = dir /\ n > 0
      BY <1>2, <1>3, <1>4, <1>6, <3>1, <3>2
    <3>3. CASE d = dir /\ n = 0
      BY <1>2, <1>3, <1>6, <3>1, <3>3
    <3>4. CASE d # dir
      <4>1. Src(d) \in eof' => Src(d) \in eof
        BY <1>7, <3>4
      <4>2. received'[d] = received[d]
        BY <1>6, <3>4
      <4> QED
        BY <3>1, <4>1, <4>2
    <3> QED
      BY <1>2, <3>2, <3>3, <3>4
  <2>2. \A d \in Dir : \A i \in 1 .. Len(Pending(d)') :
           ~bufs'[Pending(d)'[i]].temp => Src(d) \in eof'
    BY <1>5, <1>7
  <2> QED
    BY <2>1, <2>2 DEF EndInv
<1>9. BlockedInv'
  BY <1>1 DEF BlockedInv
<1>10. UnconnectedInv'
  <2>1. ~connected => dir = "up"
    BY DEF TimerInv, Relaying
  <2>2. ~connected => out'["down"] = out["down"] /\ received'["down"] = received["down"]
    BY <1>5, <1>6, <2>1 DEF Dir
  <2> QED
    BY <1>1, <1>2, <2>2 DEF LiveInv, UnconnectedInv
<1>11. FlushInv'
  BY <1>1, <1>2, <1>5 DEF LiveInv, FlushInv
<1> QED
  BY <1>1, <1>5, <1>8, <1>9, <1>10, <1>11, SameWire, GoesOn DEF RelayInv, LiveInv

\* recv() gives at most what was sent and what fits.
LEMMA ReadsRelay == ASSUME RelayInv, Types, TimerInv, RecvData \/ RecvEnd PROVE RelayInv'
<1>1. step = "read"
  BY DEF RecvData, RecvEnd, MayRead
<1>2. dir \in Dir /\ sent[dir] \in Nat /\ received[dir] \in Nat
  BY CountTypes
<1>3. Queued(Src(dir)) = sent[dir] - received[dir]
  BY <1>2, QueuedOf
<1>4. Room \in 0 .. BufSize /\ RecvSize \in Int /\ RecvSize <= Room /\ BufSize \in Nat
  BY RoomInBuffer, CountTypes
<1>5. CASE RecvData
  <2>1. PICK n \in 1 .. BufSize :
           /\ n = IF Queued(Src(dir)) < RecvSize THEN Queued(Src(dir)) ELSE RecvSize
           /\ eof' = eof /\ Received(n)
    BY <1>5 DEF RecvData
  <2>2. n \in Nat /\ n > 0 /\ n <= Room /\ n <= Queued(Src(dir))
    BY <1>2, <1>3, <1>4, <2>1
  <2>3. UNCHANGED <<wire, sent, fin, rst, connected, buffered, shut, outcome>>
    BY <2>1 DEF Received, kernel, conns, upstream
  <2> QED
    BY <1>1, <2>1, <2>2, <2>3, ReceivedRelay
<1>6. CASE RecvEnd
  <2>1. /\ Queued(Src(dir)) = 0 /\ Src(dir) \in fin \cup rst /\ eof' = eof \cup {Src(dir)}
        /\ Received(0)
    BY <1>6 DEF RecvEnd, Drained
  <2>2. UNCHANGED <<wire, sent, fin, rst, connected, buffered, shut, outcome>>
    BY <2>1 DEF Received, kernel, conns, upstream
  <2>3. 0 \in Nat /\ 0 <= Room /\ 0 <= Queued(Src(dir))
    BY <1>4, <2>1
  <2> QED
    BY <1>1, <2>1, <2>2, <2>3, ReceivedRelay
<1> QED
  BY <1>5, <1>6

\* When the filter holds nothing, everything read is on the wire.
LEMMA PassedOn ==
    ASSUME LiveInv, step = "finish", connected, NEW d \in Dir, Dst(d) \notin buffered
    PROVE  Len(wire[d]) = received[d]
<1>1. wf[d] = <<>> /\ out[d] = <<>>
  BY DEF LiveInv, FlushInv
<1>2. Pending(d) = <<>>
  BY <1>1, ConcatEmptySeq DEF Pending, Sending
<1>3. Flow(<<>>, bufs, last[d], received[d], Len(wire[d]))
  BY <1>2 DEF LiveInv, DataInv, FlowInv
<1> QED
  BY <1>3 DEF Flow

\* A session that ends in order has passed everything on.
LEMMA DisconnectedRelay == ASSUME RelayInv, FinishDisconnected PROVE RelayInv'
<1>1. /\ step = "finish" /\ TestFinalize /\ step' = "done" /\ outcome' = "disconnected" /\ open' = {}
      /\ UNCHANGED <<wire, sent, fin, rst, eof, received>>
  BY DEF FinishDisconnected, Finalize, kernel, data
<1>2. LiveInv
  BY <1>1 DEF RelayInv
<1>3. FlushedAtClose'
  <2> SUFFICES ASSUME NEW d \in Dir, ~(Dst(d) \in eof /\ ~HalfClose)
               PROVE  /\ Len(wire[d]) = received[d]
                      /\ Src(d) \in eof => received[d] = sent[d]
    BY <1>1 DEF FlushedAtClose
  <2>1. Dst(d) \notin buffered /\ connected
    BY <1>1 DEF TestFinalize, Dst, Side, Dir
  <2>2. Len(wire[d]) = received[d]
    BY <1>1, <1>2, <2>1, PassedOn
  <2>3. Src(d) \in eof => received[d] = sent[d]
    BY <1>2 DEF LiveInv, EndInv
  <2> QED
    BY <2>2, <2>3
<1>4. EndedInv'
  BY <1>1, <1>3 DEF EndedInv
<1> QED
  BY <1>1, <1>4, SameWire DEF RelayInv

\* The end of a handler moves nothing.
LEMMA FinishRelay == ASSUME RelayInv, Types, TimerInv, Finish PROVE RelayInv'
<1>1. /\ step = "finish" /\ step' = "idle" /\ outcome' = outcome
      /\ UNCHANGED <<data, wire, sent, eof, fin, rst, connected, buffered>>
      /\ ~HalfCloses => shut' = shut
  BY DEF Finish, kernel
<1>2. LiveInv
  BY <1>1 DEF RelayInv
<1>3. ~connected \/ \A d \in Dir : out[d] = <<>>
  BY <1>1, <1>2, NothingNew
<1>4. ~connected => ~HalfCloses
  BY <1>1 DEF TimerInv, Relaying, HalfCloses, DstUp
<1>5. LiveInv'
  BY <1>1, <1>2, <1>3, <1>4, Unmoved
<1> QED
  BY <1>1, <1>5, SameWire, GoesOn DEF RelayInv

\* Every step of ngx_stream_proxy_process().
LEMMA ProcessRelay == ASSUME RelayInv, Types, TimerInv, Process PROVE RelayInv'
<1>1. CASE SendFails \/ RecvNoBuffer \/ ShutdownFails
  BY <1>1, FinalizeRelay DEF SendFails, RecvNoBuffer, ShutdownFails
<1>2. CASE SkipWrite \/ WriteFilter
  BY <1>2, SkipWriteRelay, WriteFilterRelay
<1>3. CASE SendBlocked \/ SendDone \/ SendBytes \/ UpdateChains
  BY <1>3, SendStopsRelay, SendBytesRelay, UpdateChainsRelay
<1>4. CASE SkipRead \/ ReadLimited \/ RecvAgain \/ RecvData \/ RecvEnd
  BY <1>4, ReadsNothingRelay, ReadsRelay
<1>5. CASE FinishDisconnected \/ Finish
  BY <1>5, DisconnectedRelay, FinishRelay
<1> QED
  BY <1>1, <1>2, <1>3, <1>4, <1>5 DEF Process

-----------------------------------------------------------------------------
(* The invariant of the specification.                                     *)

\* A session starts with empty chains.
LEMMA RelayInit == Init => RelayInv
<1> SUFFICES ASSUME Init PROVE RelayInv
  OBVIOUS
<1>1. /\ step \in {"idle", "connect"} /\ outcome = "none" /\ connected = FALSE
      /\ eof = {} /\ buffered = {} /\ shut = {} /\ free = <<>> /\ nbufs = 0
  BY DEF Init
<1>2. \A d \in Dir : /\ wire[d] = <<>> /\ wf[d] = <<>> /\ busy[d] = <<>> /\ out[d] = <<>>
                     /\ received[d] = 0 /\ sent[d] = 0 /\ last[d] = 0
  BY DEF Init
<1>3. \A d \in Dir : Chain[d] = <<>> /\ Pending(d) = <<>> /\ ~Sending(d)
  <2>1. \A d \in Dir : ~Sending(d)
    BY <1>1 DEF Sending
  <2>2. <<>> \o <<>> = <<>>
    BY ConcatEmptySeq
  <2> QED
    BY <1>2, <2>1, <2>2 DEF Chain, Pending
<1>4. Len(<<>>) = 0 /\ \A i \in 1 .. 0 : FALSE
  OBVIOUS
<1>5. OwnInv
  BY <1>1, <1>3, <1>4 DEF OwnInv, Own
<1>6. FlowInv
  BY <1>2, <1>3, <1>4, FlowEmpty DEF FlowInv
<1>7. FilterInv /\ MemInv
  BY <1>2, <1>3, <1>4 DEF FilterInv, MemInv
<1>8. EndInv
  BY <1>1, <1>2, <1>3, <1>4 DEF EndInv
<1>9. BlockedInv /\ UnconnectedInv /\ FlushInv
  BY <1>1, <1>2 DEF BlockedInv, UnconnectedInv, FlushInv, Dir
<1>10. RelayFIFO
  <2>1. <<>> = [i \in 1 .. 0 |-> i]
    OBVIOUS
  <2> QED
    BY <1>2, <1>4, <2>1 DEF RelayFIFO
<1> QED
  BY <1>1, <1>5, <1>6, <1>7, <1>8, <1>9, <1>10
     DEF RelayInv, LiveInv, DataInv, EndedInv, FlushedAtClose

\* Every step keeps it.
LEMMA RelayStep == RelayInv /\ Types /\ TimerInv /\ [Next]_vars => RelayInv'
<1> SUFFICES ASSUME RelayInv, Types, TimerInv, [Next]_vars PROVE RelayInv'
  OBVIOUS
<1>1. CASE UNCHANGED vars
  <2>1. /\ UNCHANGED <<data, wire, sent, eof, fin, rst, connected, buffered, shut, outcome>>
        /\ UNCHANGED <<step, dir, dw, open, ready>>
        /\ UNCHANGED <<bufs, nbufs, mem, last, free, out, busy, wf, received>>
    BY <1>1 DEF vars, kernel, events, conns, data, upstream, run
  <2>2. RelayFIFO' /\ EndedInv'
    BY <2>1 DEF RelayInv, RelayFIFO, EndedInv, FlushedAtClose
  <2>3. ASSUME step # "done" PROVE LiveInv'
    <3>1. DataInv' /\ \A d \in Dir : Pending(d)' = Pending(d)
      BY <2>1, <2>3, DataKept DEF RelayInv, LiveInv, Sending
    <3>2. EndInv'
      BY <2>1, <2>3, <3>1 DEF RelayInv, LiveInv, EndInv
    <3>3. BlockedInv' /\ UnconnectedInv' /\ FlushInv'
      BY <2>1, <2>3 DEF RelayInv, LiveInv, BlockedInv, UnconnectedInv, FlushInv
    <3> QED
      BY <3>1, <3>2, <3>3 DEF LiveInv
  <2> QED
    BY <2>1, <2>2, <2>3 DEF RelayInv
<1> QED
  BY <1>1, ConnectingRelay, LoopRelay, ProcessRelay, RemoteRelay DEF Next, Done

\* What the theorems rest on.
LEMMA Invariants == Spec => [](RelayInv /\ Types /\ TimerInv)
<1>1. Init => TimerInv
  BY DEF Init, TimerInv, Relaying, Rd, UpEvents, Side
<1> QED
  BY <1>1, TypesInit, TypesStep, TimerStep, RelayInit, RelayStep, PTL DEF Spec

\* What goes out of a direction is what came in, in order, without a gap or a
\* repetition, for every size of buffer and socket, every interleaving of the
\* two directions and every failure: the filter's saved chain, the busy chain,
\* the shared free chain and the rewinding of the buffer never lose or mix up
\* a byte.
THEOREM BytesInOrder == Spec => []RelayFIFO
<1>1. RelayInv => RelayFIFO
  BY DEF RelayInv
<1> QED
  BY <1>1, Invariants, PTL

\* A session that ends as "disconnected" has passed on what its ends of input
\* promised: ngx_stream_proxy_test_finalize() looks at eof and buffered only,
\* and that is enough.
THEOREM NothingMissingAtClose == Spec => []FlushedAtClose
<1>1. RelayInv => FlushedAtClose
  BY DEF RelayInv, EndedInv
<1> QED
  BY <1>1, Invariants, PTL

-----------------------------------------------------------------------------
(* Nothing is lost: what the filter's chain holds is what was read and is  *)
(* not written.  The fold of the property goes over the places of the      *)
(* chain in an order of its own, so it is first the number of the bytes    *)
(* of the buffer that the places of a set hold.                            *)

\* A set of numbers that is not empty has a least one.
LEMMA LeastOf ==
    ASSUME NEW S \in SUBSET Nat, S # {}
    PROVE  \E m \in S : \A n \in S : m <= n
<1>1. IsWellFoundedOn(OpToRel(<, Nat), Nat)
  BY NatLessThanWellFounded
<1>2. PICK m \in S : \A n \in S : << n, m >> \notin OpToRel(<, Nat)
  BY <1>1, WFMin
<1>3. \A n \in S : n \in Nat /\ m \in Nat /\ ~(n < m)
  BY <1>2 DEF OpToRel
<1>4. \A n \in S : m <= n
  BY <1>3
<1> QED
  BY <1>2, <1>4

\* The place that the fold takes next, and the recursion it follows.
Place(s) == CHOOSE x \in s : TRUE
Adds(g, q) == g = [s \in SUBSET DOMAIN q |->
                     IF s = {} THEN 0 ELSE SizeOf(q[Place(s)]) + g[s \ {Place(s)}]]

\* The library's fold is the one that the recursion defines.
LEMMA FoldIs ==
    ASSUME NEW q
    PROVE  FoldSeq(LAMBDA b, n : SizeOf(b) + n, 0, q) = (CHOOSE g : Adds(g, q))[DOMAIN q]
BY DEF FoldSeq, FoldFunction, FoldFunctionOnSet, MapThenFoldSet, Adds, Place

\* The bytes of the buffer that the places s of the chain q hold.
Bytes(q, L, s) == {j \in 1 .. L : \E i \in s : bufs[q[i]].pos < j /\ j <= bufs[q[i]].last}

\* The pieces of a chain follow each other in the buffer.
LEMMA PiecesRise ==
    ASSUME NEW q \in Seq(BufId), Known(bufs), NEW L, NEW r, NEW w, Flow(q, bufs, L, r, w),
           NEW i \in 1 .. Len(q), NEW k \in 1 .. Len(q), i < k
    PROVE  bufs[q[i]].last <= bufs[q[k]].pos
<1> DEFINE S == {m \in 1 .. Len(q) : i < m /\ ~(bufs[q[i]].last <= bufs[q[m]].pos)}
<1>1. SUFFICES ASSUME S # {} PROVE FALSE
  OBVIOUS
<1>2. PICK m \in S : \A n \in S : m <= n
  <2>1. S \in SUBSET Nat
    OBVIOUS
  <2> HIDE DEF S
  <2> QED
    BY <1>1, <2>1, LeastOf
<1>3. \A n \in 1 .. Len(q) : /\ bufs[q[n]].pos \in Nat /\ bufs[q[n]].last \in Nat
                             /\ bufs[q[n]].pos <= bufs[q[n]].last
  BY DEF Known, Flow, PieceOK
<1>4. m - 1 \in 1 .. Len(q) - 1 /\ m - 1 \in 1 .. Len(q) /\ m - 1 + 1 = m
  OBVIOUS
<1>5. bufs[q[m - 1]].last = bufs[q[m]].pos
  BY <1>4 DEF Flow
<1>6. CASE m - 1 = i
  BY <1>3, <1>5, <1>6
<1>7. CASE m - 1 # i
  <2>1. i < m - 1 /\ m - 1 \notin S
    BY <1>2, <1>4, <1>7
  <2>2. bufs[q[i]].last <= bufs[q[m - 1]].pos
    BY <1>4, <2>1
  <2>3. bufs[q[m - 1]].pos <= bufs[q[m - 1]].last
    BY <1>3, <1>4
  <2>4. /\ bufs[q[i]].last \in Nat /\ bufs[q[m]].pos \in Nat
        /\ bufs[q[m - 1]].pos \in Nat /\ bufs[q[m - 1]].last \in Nat
    BY <1>3, <1>4
  <2>5. bufs[q[i]].last <= bufs[q[m]].pos
    BY SMTT(20), <1>5, <2>2, <2>3, <2>4
  <2> QED
    BY <2>5
<1> QED
  BY <1>6, <1>7

\* One place more is so many bytes more: no two places hold the same byte.
LEMMA BytesAdd ==
    ASSUME NEW q \in Seq(BufId), Known(bufs), NEW L \in Nat, NEW r, NEW w, Flow(q, bufs, L, r, w),
           NEW s \in SUBSET DOMAIN q, NEW x \in s
    PROVE  Cardinality(Bytes(q, L, s)) = SizeOf(q[x]) + Cardinality(Bytes(q, L, s \ {x}))
<1> DEFINE Mine == (bufs[q[x]].pos + 1) .. bufs[q[x]].last
           Others == Bytes(q, L, s \ {x})
<1>1. \A n \in DOMAIN q : /\ n \in 1 .. Len(q) /\ bufs[q[n]].temp \in BOOLEAN
                          /\ bufs[q[n]].pos \in Nat /\ bufs[q[n]].last \in Nat
                          /\ bufs[q[n]].pos <= bufs[q[n]].last /\ bufs[q[n]].last <= L
                          /\ ~bufs[q[n]].temp => bufs[q[n]].pos = L
  BY DEF Known, Flow, PieceOK
<1>2. IsFiniteSet(Mine) /\ Cardinality(Mine) = SizeOf(q[x])
  <2>1. /\ bufs[q[x]].pos + 1 \in Int /\ bufs[q[x]].last \in Int
    BY <1>1
  <2>2. /\ IsFiniteSet(Mine)
        /\ Cardinality(Mine) = IF bufs[q[x]].pos + 1 > bufs[q[x]].last THEN 0
                            ELSE bufs[q[x]].last - (bufs[q[x]].pos + 1) + 1
    BY <2>1, FS_Interval
  <2> QED
    BY SMTT(20), <1>1, <2>2 DEF SizeOf
<1>3. IsFiniteSet(Others)
  <2>1. IsFiniteSet(1 .. L) /\ Others \subseteq 1 .. L
    BY FS_Interval DEF Bytes
  <2> QED
    BY <2>1, FS_Subset
<1>4. Bytes(q, L, s) = Mine \cup Others
  BY <1>1 DEF Bytes
<1>5. Mine \cap Others = {}
  <2> SUFFICES ASSUME NEW j \in Mine, NEW i \in s \ {x},
                      bufs[q[i]].pos < j, j <= bufs[q[i]].last
               PROVE  FALSE
    BY DEF Bytes
  <2>1. i \in 1 .. Len(q) /\ x \in 1 .. Len(q) /\ (i < x \/ x < i)
    BY <1>1
  <2>2. bufs[q[i]].last <= bufs[q[x]].pos \/ bufs[q[x]].last <= bufs[q[i]].pos
    BY <2>1, PiecesRise
  <2> QED
    BY SMTT(20), <1>1, <2>1, <2>2
<1>6. Cardinality(Mine \cup Others)
         = Cardinality(Mine) + Cardinality(Others) - Cardinality(Mine \cap Others)
  <2> HIDE DEF Mine, Others
  <2> QED
    BY <1>2, <1>3, FS_Union
<1>7. Cardinality(Mine) \in Nat /\ Cardinality(Others) \in Nat /\ Cardinality(Mine \cap Others) = 0
  <2>1. Cardinality(Mine \cap Others) = 0
    BY <1>5, FS_EmptySet
  <2> HIDE DEF Mine, Others
  <2> QED
    BY <1>2, <1>3, <2>1, FS_CardinalityType
<1> HIDE DEF Mine, Others
<1>8. Cardinality(Bytes(q, L, s)) = Cardinality(Mine) + Cardinality(Others)
  BY <1>4, <1>6, <1>7
<1> QED
  BY <1>2, <1>8 DEF Others

\* The bytes of the whole chain are those read and not written.
LEMMA BytesOfChain ==
    ASSUME NEW q \in Seq(BufId), Known(bufs), NEW L \in Nat, NEW r \in Nat, NEW w,
           Flow(q, bufs, L, r, w)
    PROVE  Cardinality(Bytes(q, L, DOMAIN q)) = r - w
<1>1. DOMAIN q = 1 .. Len(q) /\ Len(q) \in Nat
  OBVIOUS
<1>2. CASE Len(q) = 0
  <2>1. Bytes(q, L, DOMAIN q) = {} /\ w = r
    BY <1>1, <1>2 DEF Bytes, Flow
  <2>2. Cardinality(Bytes(q, L, DOMAIN q)) = 0
    BY <2>1, FS_EmptySet
  <2> QED
    BY <2>1, <2>2
<1>3. CASE Len(q) > 0
  <2>1. \A n \in 1 .. Len(q) : /\ bufs[q[n]].pos \in Nat /\ bufs[q[n]].last \in Nat
                               /\ bufs[q[n]].pos <= bufs[q[n]].last /\ bufs[q[n]].last <= L
    BY DEF Known, Flow, PieceOK
  <2>2. /\ bufs[q[Len(q)]].last = L /\ w = r - L + bufs[q[1]].pos
        /\ 1 \in 1 .. Len(q) /\ Len(q) \in 1 .. Len(q)
    BY <1>1, <1>3 DEF Flow
  <2>3. ASSUME NEW j \in (bufs[q[1]].pos + 1) .. L PROVE j \in Bytes(q, L, DOMAIN q)
    <3> DEFINE S == {i \in 1 .. Len(q) : j <= bufs[q[i]].last}
    <3>1. PICK i \in S : \A k \in S : i <= k
      <4>1. S \in SUBSET Nat /\ S # {}
        BY <2>2
      <4> HIDE DEF S
      <4> QED
        BY <4>1, LeastOf
    <3> HIDE DEF S
    <3>4. j \in 1 .. L /\ i \in 1 .. Len(q) /\ j <= bufs[q[i]].last
      <4>1. bufs[q[1]].pos \in Nat
        BY <2>1, <2>2
      <4> QED
        BY <3>1, <4>1 DEF S
    <3>2. CASE i = 1
      <4>1. bufs[q[1]].pos < j
        BY <2>1, <2>2
      <4> QED
        BY <1>1, <3>2, <3>4, <4>1 DEF Bytes
    <3>3. CASE i # 1
      <4>1. i - 1 \in 1 .. Len(q) - 1 /\ i - 1 \in 1 .. Len(q) /\ i - 1 + 1 = i
        BY <3>3, <3>4
      <4>2. ~(j <= bufs[q[i - 1]].last)
        BY <3>1, <3>4, <4>1 DEF S
      <4>3. bufs[q[i - 1]].last = bufs[q[i]].pos
        BY <4>1 DEF Flow
      <4>4. bufs[q[i]].pos < j
        BY <2>1, <3>4, <4>1, <4>2, <4>3
      <4> QED
        BY <1>1, <3>4, <4>4 DEF Bytes
    <3> QED
      BY <3>2, <3>3
  <2>4. ASSUME NEW j \in Bytes(q, L, DOMAIN q) PROVE j \in (bufs[q[1]].pos + 1) .. L
    <3>1. PICK i \in 1 .. Len(q) : bufs[q[i]].pos < j /\ j \in 1 .. L
      BY <1>1 DEF Bytes
    <3>2. i = 1 \/ bufs[q[1]].last <= bufs[q[i]].pos
      BY <2>2, <3>1, PiecesRise
    <3>3. bufs[q[1]].pos \in Nat /\ bufs[q[1]].last \in Nat /\ bufs[q[1]].pos <= bufs[q[1]].last
      BY <2>1, <2>2
    <3>4. bufs[q[i]].pos \in Nat
      BY <2>1, <3>1
    <3>5. bufs[q[1]].pos < j
      BY <3>1, <3>2, <3>3, <3>4
    <3> QED
      BY <3>1, <3>3, <3>5
  <2>5. Bytes(q, L, DOMAIN q) = (bufs[q[1]].pos + 1) .. L
    BY <2>3, <2>4
  <2>6. bufs[q[1]].pos + 1 \in Int /\ bufs[q[1]].pos <= L /\ bufs[q[1]].pos \in Nat
    BY <2>1, <2>2
  <2>7. PICK a \in Int : a = bufs[q[1]].pos + 1
    BY <2>6
  <2>8. Cardinality(a .. L) = IF a > L THEN 0 ELSE L - a + 1
    BY FS_Interval
  <2>9. Cardinality(Bytes(q, L, DOMAIN q)) = L - bufs[q[1]].pos
    <3>1. Bytes(q, L, DOMAIN q) = a .. L
      BY <2>5, <2>7
    <3> QED
      BY SMTT(20), <2>6, <2>7, <2>8, <3>1
  <2> QED
    BY <2>2, <2>6, <2>9
<1> QED
  BY <1>1, <1>2, <1>3

\* The fold over a chain is the number of the bytes that it holds.
LEMMA FoldCounts ==
    ASSUME NEW q \in Seq(BufId), Known(bufs), NEW L \in Nat, NEW r \in Nat, NEW w,
           Flow(q, bufs, L, r, w)
    PROVE  FoldSeq(LAMBDA b, n : SizeOf(b) + n, 0, q) = r - w
<1> DEFINE h == [s \in SUBSET DOMAIN q |-> Cardinality(Bytes(q, L, s))]
           Turn(g, s) == IF s = {} THEN 0 ELSE SizeOf(q[Place(s)]) + g[s \ {Place(s)}]
           g == CHOOSE f : Adds(f, q)
<1>1. \A s \in SUBSET DOMAIN q : s # {} =>
         /\ Place(s) \in s /\ s \ {Place(s)} \in SUBSET DOMAIN q
  BY DEF Place
<1>2. \A s \in SUBSET DOMAIN q : h[s] = Turn(h, s)
  <2>1. h[{}] = 0
    BY FS_EmptySet DEF Bytes
  <2>2. ASSUME NEW s \in SUBSET DOMAIN q, s # {} PROVE h[s] = Turn(h, s)
    <3>1. Cardinality(Bytes(q, L, s))
             = SizeOf(q[Place(s)]) + Cardinality(Bytes(q, L, s \ {Place(s)}))
      BY <1>1, <2>2, BytesAdd
    <3> QED
      BY <1>1, <2>2, <3>1
  <2> QED
    BY <2>1, <2>2
<1>3. Adds(h, q)
  <2>1. h = [s \in SUBSET DOMAIN q |-> Turn(h, s)]
    <3>1. h = [s \in SUBSET DOMAIN q |-> h[s]]
      OBVIOUS
    <3> HIDE DEF h, Turn
    <3> QED
      BY <1>2, <3>1
  <2> QED
    BY <2>1 DEF Adds
<1>4. Adds(g, q)
  <2> HIDE DEF h
  <2> QED
    BY <1>3
<1> HIDE DEF g, h
<1>5. \A s \in SUBSET DOMAIN q : g[s] = Turn(g, s)
  BY <1>4 DEF Adds
<1>6. \A s \in SUBSET DOMAIN q : IsFiniteSet(s) /\ Cardinality(s) \in Nat
  <2>1. IsFiniteSet(DOMAIN q)
    BY FS_Interval
  <2> QED
    BY <2>1, FS_Subset, FS_CardinalityType
<1>7. ASSUME NEW s0 \in SUBSET DOMAIN q, g[s0] # h[s0] PROVE FALSE
  <2> DEFINE S == {Cardinality(s) : s \in {t \in SUBSET DOMAIN q : g[t] # h[t]}}
  <2>1. PICK m \in S : \A n \in S : m <= n
    <3>1. S \in SUBSET Nat /\ S # {}
      BY <1>6, <1>7
    <3> HIDE DEF S
    <3> QED
      BY <3>1, LeastOf
  <2>2. PICK s \in SUBSET DOMAIN q : g[s] # h[s] /\ m = Cardinality(s)
    BY <2>1
  <2>3. s # {}
    BY <1>2, <1>5, <2>2
  <2>4. /\ Place(s) \in s /\ s \ {Place(s)} \in SUBSET DOMAIN q
        /\ Cardinality(s \ {Place(s)}) = Cardinality(s) - 1
    <3>1. Place(s) \in s /\ s \ {Place(s)} \in SUBSET DOMAIN q
      BY <1>1, <2>3
    <3>2. Cardinality(s \ {Place(s)}) = Cardinality(s) - 1
      BY <1>6, <3>1, FS_RemoveElement
    <3> QED
      BY <3>1, <3>2
  <2>5. Cardinality(s) \in Nat /\ Cardinality(s \ {Place(s)}) < Cardinality(s)
    BY <1>6, <2>4
  <2>6. g[s \ {Place(s)}] = h[s \ {Place(s)}]
    <3>1. Cardinality(s \ {Place(s)}) \notin S
      <4> HIDE DEF S
      <4> QED
        BY <2>1, <2>2, <2>4, <2>5
    <3> QED
      BY <2>4, <3>1
  <2> QED
    BY <1>2, <1>5, <2>2, <2>3, <2>6
<1>8. g[DOMAIN q] = h[DOMAIN q]
  BY <1>7
<1>9. h[DOMAIN q] = r - w
  BY BytesOfChain DEF h
<1> QED
  BY <1>8, <1>9, FoldIs DEF g

\* At rest nothing is in out, so what the filter holds is all that is pending.
LEMMA RestHoldsAll == ASSUME RelayInv, Types PROVE NothingLost
<1> SUFFICES ASSUME step \in {"idle", "read"}, connected, NEW d \in Dir
             PROVE  /\ wf[d] = busy[d] /\ out[d] = <<>>
                    /\ received[d] - Len(wire[d])
                          = FoldSeq(LAMBDA b, n : SizeOf(b) + n, 0, wf[d])
                    /\ Dst(d) \in buffered <=> wf[d] # <<>>
  BY DEF NothingLost
<1>1. LiveInv /\ ~Sending(d)
  BY DEF RelayInv, Sending
<1>2. wf[d] = busy[d]
  BY <1>1 DEF LiveInv, DataInv, FilterInv
<1>3. out[d] = <<>> /\ (Dst(d) \in buffered <=> wf[d] # <<>>)
  BY <1>1 DEF LiveInv, FlushInv
<1>4. /\ wf[d] \in Seq(BufId) /\ Known(bufs) /\ last[d] \in Nat /\ received[d] \in Nat
  BY CountTypes
<1>5. Pending(d) = wf[d]
  <2>1. wf[d] \o <<>> = wf[d]
    BY <1>4, ConcatEmptySeq
  <2> QED
    BY <1>1, <1>3, <2>1 DEF Pending
<1>6. Flow(wf[d], bufs, last[d], received[d], Len(wire[d]))
  BY <1>1, <1>5 DEF LiveInv, DataInv, FlowInv
<1>7. FoldSeq(LAMBDA b, n : SizeOf(b) + n, 0, wf[d]) = received[d] - Len(wire[d])
  BY <1>4, <1>6, FoldCounts
<1> QED
  BY <1>2, <1>3, <1>7

\* Whenever the session waits, or is about to read, with its upstream
\* connected, the chains of a direction hold exactly the bytes that were read
\* and are not on the wire, once, and s->connection->buffered says whether there are any.
THEOREM NoByteLost == Spec => []NothingLost
<1> QED
  BY RestHoldsAll, Invariants, PTL

-----------------------------------------------------------------------------
(* The session implements the channels of Relay.                           *)

\* Only the end of a handler passes an end of input on, after the last byte.
LEMMA PassesEnd ==
    ASSUME RelayInv, Types, TimerInv, Finish, HalfCloses
    PROVE  /\ step = "finish" /\ dir \in Dir /\ HalfClose /\ Src(dir) \in eof
           /\ shut' = shut \cup {Dst(dir)}
           /\ Src(dir) \in fin \cup rst
           /\ Len(wire[dir]) = received[dir] /\ Len(wire[dir]) = sent[dir]
<1>1. /\ step = "finish" /\ shut' = shut \cup {Dst(dir)} /\ dir \in Dir
      /\ HalfClose /\ Src(dir) \in eof /\ Dst(dir) \notin buffered
  BY CountTypes DEF Finish, HalfCloses
<1>2. connected /\ LiveInv
  BY <1>1 DEF HalfCloses, DstUp, TimerInv, Relaying, RelayInv
<1>3. Len(wire[dir]) = received[dir]
  BY <1>1, <1>2, PassedOn
<1>4. sent[dir] = received[dir] /\ Src(dir) \in fin \cup rst
  BY <1>1, <1>2 DEF LiveInv, EndInv
<1> QED
  BY <1>1, <1>3, <1>4

\* The steps that end a session other than in order.
Aborts == \E why \in Outcome \ {"none", "disconnected"} : Finalize(why)

\* What of a session module Relay sees.
visible == <<sent, fin, rst, wire, shut>>

\* Every step changes what is visible in one of these ways.
LEMMA VisibleStep ==
    ASSUME RelayInv, Types, TimerInv, Next
    PROVE  \/ step # "done" /\ Aborts
           \/ UNCHANGED <<visible, outcome>> /\ (step' = "done" <=> step = "done")
           \/ \E s : NewUpstream(s) /\ step' \in {"idle", "init"} /\ ~connected
           \/ SendBytes
           \/ Finish /\ HalfCloses
           \/ FinishDisconnected
           \/ \E s \in Side : RemoteSend(s) \/ RemoteFin(s) \/ RemoteReset(s)
<1> DEFINE Quietly == UNCHANGED <<visible, outcome>> /\ (step' = "done" <=> step = "done")
<1>1. ASSUME NextUpstream, step # "done" PROVE Aborts \/ Quietly
  <2>1. CASE Finalize("internal") \/ Finalize("bad gateway")
    BY <2>1 DEF Aborts, Outcome
  <2>2. CASE ~(Finalize("internal") \/ Finalize("bad gateway"))
    BY <1>1, <2>2 DEF NextUpstream, visible
  <2> QED
    BY <2>1, <2>2
<1>2. CASE Connecting
  <2>1. CASE ConnectAgain \/ ConnectNow
    <3>1. step = "dial"
      BY <2>1 DEF ConnectAgain, ConnectNow, NewUpstream
    <3> QED
      BY <2>1, <3>1 DEF ConnectAgain, ConnectNow, TimerInv
  <2>2. CASE Resolved \/ GetPeer
    <3>1. step # "done"
      BY <2>2 DEF Resolved, GetPeer
    <3>2. CASE Finalize("internal") \/ Finalize("bad gateway")
      BY <3>1, <3>2 DEF Aborts, Outcome
    <3>3. CASE ~(Finalize("internal") \/ Finalize("bad gateway"))
      BY <2>2, <3>3 DEF Resolved, GetPeer, visible, kernel, conns
    <3> QED
      BY <3>2, <3>3
  <2>3. CASE DialFails \/ ConnectTimeout
    <3>1. step # "done" /\ (NextUpstream \/ Finalize("internal"))
      BY <2>3 DEF DialFails, ConnectTimeout
    <3>2. CASE Finalize("internal")
      BY <3>1, <3>2 DEF Aborts, Outcome
    <3> QED
      BY <1>1, <3>1, <3>2
  <2>4. CASE InitUpstream
    <3>1. step # "done"
      BY <2>4 DEF InitUpstream
    <3>2. CASE Finalize("internal")
      BY <3>1, <3>2 DEF Aborts, Outcome
    <3>3. CASE ~Finalize("internal") /\ ~NextUpstream
      BY <2>4, <3>3 DEF InitUpstream, visible, kernel, conns
    <3> QED
      BY <1>1, <3>1, <3>2, <3>3
  <2>5. ASSUME NEW e \in UpEvents, ConnectHandler(e) PROVE step # "done" /\ (Aborts \/ Quietly)
    <3>1. step # "done"
      BY <2>5 DEF ConnectHandler
    <3>2. CASE ~NextUpstream
      BY <2>5, <3>2 DEF ConnectHandler, visible, kernel, conns, upstream
    <3> QED
      BY <1>1, <3>1, <3>2
  <2> QED
    BY <1>2, <2>1, <2>2, <2>3, <2>4, <2>5 DEF Connecting
<1>3. CASE Loop
  <2>1. ASSUME NEW e \in Event, Handler(e) \/ DelayTimeout(e) \/ IdleTimeout(e)
        PROVE  step # "done" /\ (Aborts \/ Quietly)
    <3>1. step # "done"
      BY <2>1 DEF Handler, DelayTimeout, IdleTimeout
    <3>2. CASE Finalize("shutdown") \/ Finalize("timed out")
      BY <3>1, <3>2 DEF Aborts, Outcome
    <3>3. CASE Handler(e) /\ ~Finalize("shutdown")
      BY <3>3 DEF Handler, visible, kernel, conns, upstream, run
    <3>4. CASE DelayTimeout(e) /\ ~Finalize("shutdown")
      BY <3>4 DEF DelayTimeout, visible, kernel, conns, upstream, run
    <3> QED
      BY <2>1, <3>1, <3>2, <3>3, <3>4 DEF IdleTimeout
  <2>2. ASSUME NEW s \in Side, DispatchRead(s) \/ DispatchWrite(s) PROVE Quietly
    BY <2>2 DEF DispatchRead, DispatchWrite, visible, kernel, conns, upstream, run
  <2>3. CASE EpollWait \/ ShutdownTimeout
    BY <2>3 DEF EpollWait, ShutdownTimeout, visible, kernel, conns, upstream, run
  <2> QED
    BY <1>3, <2>1, <2>2, <2>3 DEF Loop
<1>4. CASE Process
  <2>1. CASE SendFails \/ RecvNoBuffer \/ ShutdownFails
    BY <2>1 DEF SendFails, RecvNoBuffer, ShutdownFails, MayRead, Aborts, Outcome
  <2>2. CASE WriteFilter
    <3>1. CASE Finalize("write error")
      BY <2>2, <3>1 DEF WriteFilter, Aborts, Outcome
    <3>2. CASE ~Finalize("write error")
      BY <2>2, <3>2 DEF WriteFilter, visible, kernel, upstream
    <3> QED
      BY <3>1, <3>2
  <2>3. CASE SkipWrite \/ SendBlocked \/ SendDone \/ UpdateChains
    BY <2>3 DEF SkipWrite, SendBlocked, SendDone, UpdateChains, visible, kernel, conns, upstream
  <2>4. CASE SkipRead \/ ReadLimited \/ RecvAgain
    BY <2>4 DEF SkipRead, ReadLimited, RecvAgain, MayRead, visible, kernel, conns, upstream
  <2>5. CASE RecvData \/ RecvEnd
    <3>1. step = "read" /\ \E n : Received(n)
      BY <2>5 DEF RecvData, RecvEnd, MayRead
    <3> QED
      BY <3>1 DEF Received, visible, kernel, conns, upstream
  <2>6. CASE Finish /\ ~HalfCloses
    BY <2>6 DEF Finish, visible, kernel
  <2> QED
    BY <1>4, <2>1, <2>2, <2>3, <2>4, <2>5, <2>6 DEF Process
<1>5. CASE Remote
  <2>1. ASSUME NEW s \in Side, RemoteTake(s) PROVE Quietly
    BY <2>1 DEF RemoteTake, visible, conns, upstream, run
  <2>2. CASE ConnectCompletes \/ Tick
    BY <2>2 DEF ConnectCompletes, Tick, visible, kernel, conns, upstream, run
  <2> QED
    BY <1>5, <2>1, <2>2 DEF Remote
<1>6. CASE Done
  BY <1>6 DEF Done, vars, visible, kernel, conns, upstream, run
<1> QED
  BY <1>2, <1>3, <1>4, <1>5, <1>6 DEF Next

\* With half_close an end of input overtakes no byte: the destination is shut
\* down only by the end of a handler, when all that was sent is on the wire.
THEOREM EndAfterLastByte == Spec => HalfCloseAfterFlush
<1> DEFINE Good == \A d \in Dir : Dst(d) \in shut' \ shut =>
                      /\ Src(d) \in eof /\ Len(wire[d]) = received[d]
                      /\ Src(d) \notin rst => Len(wire[d]) = sent[d]
<1>1. ASSUME RelayInv, Types, TimerInv, [Next]_vars PROVE Good
  <2>1. CASE Finish /\ HalfCloses
    <3>1. /\ dir \in Dir /\ Src(dir) \in eof /\ shut' = shut \cup {Dst(dir)}
          /\ Len(wire[dir]) = received[dir] /\ Len(wire[dir]) = sent[dir]
      BY <1>1, <2>1, PassesEnd
    <3>2. \A d \in Dir : d # dir => Dst(d) # Dst(dir)
      BY <3>1 DEF Dst, Dir
    <3>3. ASSUME NEW d \in Dir, Dst(d) \in shut' \ shut PROVE d = dir
      BY <3>1, <3>2, <3>3
    <3> QED
      BY <3>1, <3>3
  <2>2. CASE ~(Finish /\ HalfCloses) /\ Next
    <3>1. shut' \subseteq shut
      <4>1. Aborts => shut' = shut
        BY DEF Aborts, Finalize, conns
      <4>2. \A s : NewUpstream(s) => shut' \subseteq shut
        BY DEF NewUpstream
      <4>3. SendBytes \/ FinishDisconnected => shut' = shut
        BY DEF SendBytes, FinishDisconnected, Finalize, conns
      <4>4. \A s \in Side : RemoteSend(s) \/ RemoteFin(s) \/ RemoteReset(s) => shut' = shut
        BY DEF RemoteSend, RemoteFin, RemoteReset, conns
      <4> QED
        BY <1>1, <2>2, <4>1, <4>2, <4>3, <4>4, VisibleStep DEF visible
    <3> QED
      BY <3>1
  <2>3. CASE UNCHANGED vars
    BY <2>3 DEF vars, conns
  <2> QED
    BY <1>1, <2>1, <2>2, <2>3
<1>2. RelayInv /\ Types /\ TimerInv /\ [Next]_vars => [Good]_vars
  BY <1>1
<1> QED
  BY <1>2, Invariants, PTL DEF Spec, HalfCloseAfterFlush

\* No more is written than was read, no more read than was sent.
NoneInvented == step # "done" => \A d \in Dir : Len(wire[d]) \in Nat /\ Len(wire[d]) <= sent[d]
LEMMA NoMoreThanSent == RelayInv /\ Types => NoneInvented
<1> SUFFICES ASSUME RelayInv, Types, step # "done", NEW d \in Dir
             PROVE  Len(wire[d]) \in Nat /\ Len(wire[d]) <= sent[d]
  BY DEF NoneInvented
<1>1. Flow(Pending(d), bufs, last[d], received[d], Len(wire[d])) /\ received[d] <= sent[d]
  BY DEF RelayInv, LiveInv, DataInv, FlowInv, EndInv
<1>2. /\ received[d] \in Nat /\ sent[d] \in Nat /\ last[d] \in Nat
      /\ Len(wire[d]) \in Nat /\ Len(Pending(d)) \in Nat
  BY CountTypes, ChainTypes, LenProperties
<1>3. CASE Len(Pending(d)) = 0
  BY <1>1, <1>2, <1>3 DEF Flow
<1>4. CASE Len(Pending(d)) > 0
  <2>1. 1 \in 1 .. Len(Pending(d))
    BY <1>2, <1>4
  <2>2. PICK b \in BufId : b = Pending(d)[1]
    BY <2>1, ChainTypes, ElementOfSeq
  <2>3. /\ PieceOK(bufs[b], last[d])
        /\ Len(wire[d]) = received[d] - last[d] + bufs[b].pos
    BY <1>1, <1>4, <2>1, <2>2 DEF Flow
  <2>4. bufs[b].pos \in Nat /\ bufs[b].last \in Nat
    BY CountTypes DEF Known
  <2>5. bufs[b].pos <= last[d]
    BY <1>2, <2>3, <2>4 DEF PieceOK
  <2> QED
    BY <1>1, <1>2, <2>3, <2>4, <2>5
<1> QED
  BY <1>2, <1>3, <1>4

\* The definitions of Relay that do not depend on its variables are the same.
LEMMA SameNames ==
    /\ R!Side = Side /\ R!Dir = Dir
    /\ \A d : R!Src(d) = Src(d) /\ R!Dst(d) = Dst(d)
BY DEF R!Side, R!Dir, R!Src, R!Dst, Side, Dir, Src, Dst

\* A session starts with nothing said.
LEMMA MapsInit == Init => R!Init
BY DEF Init, R!Init, RelayState, R!Dir, Dir

\* Bytes, ends and resets from the remote ends.
LEMMA MapsSource ==
    ASSUME RelayInv, NEW s \in Side, RemoteSend(s) \/ RemoteFin(s) \/ RemoteReset(s)
    PROVE  R!Next
<1>1. step # "done" /\ UNCHANGED <<wire, shut, step, outcome>>
  BY DEF RemoteSend, RemoteFin, RemoteReset, Alive, RelayInv, EndedInv, conns, upstream, run
<1>2. From(s) \in Dir /\ Src(From(s)) = s
  BY DEF From, Src, Dir, Side
<1>3. RelayState = "open" /\ RelayState' = RelayState
  BY <1>1 DEF RelayState
<1>4. R!Source(From(s))
  <2>1. CASE RemoteSend(s)
    <3>1. s \notin fin \cup rst /\ UNCHANGED <<fin, rst>>
          /\ sent' = [sent EXCEPT ![From(s)] = @ + 1]
      BY <2>1 DEF RemoteSend
    <3> QED
      BY <1>1, <1>2, <1>3, <3>1, SameNames DEF R!Source, R!Ended
  <2>2. CASE RemoteFin(s)
    <3>1. fin' = fin \cup {s} /\ UNCHANGED <<sent, rst>>
      BY <2>2 DEF RemoteFin
    <3> QED
      BY <1>1, <1>2, <1>3, <3>1, SameNames DEF R!Source
  <2>3. CASE RemoteReset(s)
    <3>1. rst' = rst \cup {s} /\ UNCHANGED <<sent, fin>>
      BY <2>3 DEF RemoteReset
    <3> QED
      BY <1>1, <1>2, <1>3, <3>1, SameNames DEF R!Source
  <2> QED
    BY <2>1, <2>2, <2>3
<1> QED
  BY <1>2, <1>4, SameNames DEF R!Next

\* Another upstream replaces one nothing was relayed to.
LEMMA MapsRetry ==
    ASSUME RelayInv, NEW s, NewUpstream(s), step' \in {"idle", "init"}, ~connected
    PROVE  R!Next
<1>1. /\ step = "dial" /\ UNCHANGED <<wire, outcome>>
      /\ sent' = [sent EXCEPT !["down"] = 0]
      /\ fin' = fin \ {"u"} /\ rst' = rst \ {"u"} /\ shut' = shut \ {"u"}
  BY DEF NewUpstream, upstream
<1>2. shut = {} /\ \A d \in Dir : wire[d] = <<>>
  BY <1>1 DEF RelayInv, LiveInv, UnconnectedInv
<1>3. RelayState = "open" /\ RelayState' = "open"
  BY <1>1 DEF RelayState
<1>4. R!Retry
  BY <1>1, <1>2, <1>3, SameNames DEF R!Retry
<1> QED
  BY <1>4 DEF R!Next

\* Bytes are forwarded after they were sent.
LEMMA MapsForward ==
    ASSUME RelayInv, Types, RelayInv', Types', SendBytes
    PROVE  R!Next \/ UNCHANGED R!vars
<1>1. /\ step = "send" /\ step' = "send" /\ dir \in Dir
      /\ UNCHANGED <<sent, fin, rst, shut, outcome>>
  BY CountTypes DEF SendBytes, conns, upstream, run
<1>2. LiveInv
  BY <1>1 DEF RelayInv
<1>3. PICK n \in Nat : wire' = [wire EXCEPT ![dir] =
                                  wire[dir] \o [i \in 1 .. n |-> Len(wire[dir]) + i]]
  BY <1>2, SendBytesData DEF LiveInv
<1>4. RelayState = "open" /\ RelayState' = "open"
  BY <1>1 DEF RelayState
<1>5. wire \in [Dir -> Seq(Nat)]
  BY CountTypes
<1>6. CASE n = 0
  <2>1. wire[dir] \o <<>> = wire[dir]
    BY <1>1, <1>5, ConcatEmptySeq
  <2>2. [i \in 1 .. n |-> Len(wire[dir]) + i] = <<>>
    BY <1>6
  <2>3. wire' = wire
    BY <1>1, <1>3, <1>5, <2>1, <2>2
  <2> QED
    BY <1>1, <1>4, <2>3 DEF R!vars
<1>7. CASE n > 0
  <2>1. Len(wire'[dir]) = Len(wire[dir]) + n
    <3>1. wire'[dir] = wire[dir] \o [i \in 1 .. n |-> Len(wire[dir]) + i]
      BY <1>1, <1>3, <1>5
    <3>2. wire[dir] \in Seq(Nat) /\ wire[dir] = [i \in 1 .. Len(wire[dir]) |-> i]
      BY <1>1, <1>5 DEF RelayInv, RelayFIFO
    <3> QED
      BY ONLY <3>1, <3>2, n \in Nat, CountOn
  <2>2. \A d \in Dir : Len(wire'[d]) \in Nat /\ Len(wire'[d]) <= sent'[d]
    <3>1. step' # "done"
      BY <1>1
    <3>2. NoneInvented'
      BY NoMoreThanSent, PTL
    <3> QED
      BY <3>1, <3>2 DEF NoneInvented
  <2>3. Len(wire[dir]) \in Nat /\ sent[dir] \in Nat
    BY <1>1, <1>5, CountTypes, LenProperties
  <2>4. n \in 1 .. sent[dir] - Len(wire[dir])
    BY <1>1, <1>7, <2>1, <2>2, <2>3
  <2>5. R!Forward(dir)
    BY <1>1, <1>3, <1>4, <2>4 DEF R!Forward
  <2> QED
    BY <1>1, <2>5, SameNames DEF R!Next
<1> QED
  BY <1>6, <1>7

\* An end of input is passed on behind the last byte.
LEMMA MapsPassEnd ==
    ASSUME RelayInv, Types, TimerInv, Finish, HalfCloses PROVE R!Next
<1>1. /\ step = "finish" /\ step' = "idle" /\ UNCHANGED <<sent, fin, rst, wire, outcome>>
  BY DEF Finish, kernel
<1>2. /\ dir \in Dir /\ HalfClose /\ shut' = shut \cup {Dst(dir)}
      /\ Src(dir) \in fin \cup rst /\ Len(wire[dir]) = sent[dir]
  BY PassesEnd
<1>3. RelayState = "open" /\ RelayState' = "open"
  BY <1>1 DEF RelayState
<1>4. R!PassEnd(dir)
  BY <1>1, <1>2, <1>3, SameNames DEF R!PassEnd, R!Ended, R!Complete
<1> QED
  BY <1>2, <1>4, SameNames DEF R!Next

\* The session closes in order when nobody still listening misses anything.
LEMMA MapsClose == ASSUME RelayInv, Types, FinishDisconnected PROVE R!Next
<1>1. /\ step = "finish" /\ TestFinalize /\ step' = "done" /\ outcome' = "disconnected"
      /\ UNCHANGED <<sent, fin, rst, wire, shut>>
  BY DEF FinishDisconnected, Finalize, kernel, conns
<1>2. LiveInv /\ connected /\ eof # {} /\ eof \subseteq Side
  BY <1>1 DEF RelayInv, TestFinalize, Types, EventsOK
<1>3. \A d \in Dir : Src(d) \in eof => Src(d) \in fin \cup rst /\ sent[d] = received[d]
  BY <1>2 DEF LiveInv, EndInv
<1>4. eof \subseteq fin \cup rst
  <2>1. \A s \in Side : From(s) \in Dir /\ Src(From(s)) = s
    BY DEF From, Src, Dir, Side
  <2> QED
    BY <1>2, <1>3, <2>1
<1>5. ASSUME NEW d \in Dir, Src(d) \in eof, Dst(d) \notin buffered PROVE Len(wire[d]) = sent[d]
  <2>1. Len(wire[d]) = received[d]
    BY <1>1, <1>2, <1>5, PassedOn
  <2> QED
    BY <1>3, <1>5, <2>1
<1>6. RelayState = "open" /\ RelayState' = "closed"
  BY <1>1 DEF RelayState
<1>7. CASE HalfClose
  <2>1. eof = Side /\ buffered = {}
    BY <1>1, <1>7 DEF TestFinalize
  <2>2. fin \cup rst = Side
    <3>1. fin \subseteq Side /\ rst \subseteq Side
      BY DEF Types, KernelOK
    <3> QED
      BY <1>4, <2>1, <3>1
  <2>3. \A d \in Dir : Len(wire[d]) = sent[d]
    BY <1>5, <2>1 DEF Src, Dir, Side
  <2>4. R!Close
    BY <1>1, <1>6, <1>7, <2>2, <2>3, SameNames DEF R!Close, R!Ended, R!Complete
  <2> QED
    BY <2>4 DEF R!Next
<1>8. CASE ~HalfClose
  <2>1. fin \cup rst # {}
    BY <1>2, <1>4
  <2>2. ASSUME NEW d \in Dir, Dst(d) \notin fin \cup rst PROVE Len(wire[d]) = sent[d]
    <3>1. Dst(d) \notin eof
      BY <1>4, <2>2
    <3>2. Src(d) \in eof
      BY <1>2, <3>1 DEF Src, Dst, Dir, Side
    <3>3. Dst(d) \notin buffered
      BY <1>1, <3>1 DEF TestFinalize, Dst, Dir, Side
    <3> QED
      BY <1>5, <3>2, <3>3
  <2>3. R!Close
    BY <1>1, <1>6, <1>8, <2>1, <2>2, SameNames DEF R!Close, R!Ended, R!Complete
  <2> QED
    BY <2>3 DEF R!Next
<1> QED
  BY <1>7, <1>8

\* Every step of the session is a step of the channels, or none of theirs.
LEMMA MapsStep ==
    RelayInv /\ Types /\ TimerInv /\ RelayInv' /\ Types' /\ [Next]_vars => [R!Next]_(R!vars)
<1> SUFFICES ASSUME RelayInv, Types, TimerInv, RelayInv', Types', [Next]_vars
             PROVE  R!Next \/ UNCHANGED R!vars
  OBVIOUS
<1>1. ASSUME step # "done", Aborts PROVE R!Next
  <2>1. /\ step' = "done" /\ outcome' # "disconnected"
        /\ UNCHANGED <<sent, fin, rst, wire, shut>>
    BY <1>1 DEF Aborts, Finalize, kernel, conns
  <2>2. RelayState = "open" /\ RelayState' = "aborted"
    BY <1>1, <2>1 DEF RelayState
  <2>3. R!Abort
    BY <2>1, <2>2 DEF R!Abort
  <2> QED
    BY <2>3 DEF R!Next
<1>2. ASSUME UNCHANGED <<visible, outcome>>, step' = "done" <=> step = "done"
      PROVE  UNCHANGED R!vars
  BY <1>2 DEF visible, R!vars, RelayState
<1>3. CASE UNCHANGED vars
  <2>1. UNCHANGED <<visible, outcome>> /\ step' = step
    BY <1>3 DEF vars, visible, kernel, conns, upstream, run
  <2> QED
    BY <1>2, <2>1
<1>4. CASE Next
  BY <1>1, <1>2, <1>4, VisibleStep, MapsSource, MapsRetry, MapsForward, MapsPassEnd, MapsClose
<1> QED
  BY <1>3, <1>4

\* The session implements the pair of channels of module Relay: whatever the
\* buffers, events, timers and failures do, each direction is a FIFO channel,
\* ends overtake no byte, and closing in order leaves nobody without what was
\* sent to him.
THEOREM SessionRelays == Spec => ImplementsRelay
<1> QED
  BY MapsInit, MapsStep, Invariants, PTL DEF Spec, ImplementsRelay, R!Spec

-----------------------------------------------------------------------------
(* No event is lost.  NoLostEvent speaks of a session at rest; the         *)
(* invariant follows each input and each blocked output from where the     *)
(* kernel reports it, through the flags of its event, to the handler that  *)
(* deals with it.                                                          *)

\* The client's connection is open to the end of the session; once the shutdown
\* timer has fired, its read event stays posted until then.
ShutdownInv == /\ "c" \in open
               /\ closing # {} => "c" \in closing /\ "cr" \in posted

\* The upstream's connection is registered with epoll from its start, which
\* reports nothing of it before its connect() has completed.
SocketInv ==
    /\ "u" \in open <=> upsock # "none"
    /\ "u" \in open => UpEvents \subseteq active
    /\ step \in {"connect", "dial"} => upsock = "none"
    /\ closing = {} =>
          /\ upsock \in {"none", "inprogress"} =>
                /\ "u" \notin armed /\ posted \cap UpEvents = {}
                /\ \A x \in {"in", "out", "rdhup"} : <<"u", x>> \notin revents
          /\ connected \/ step = "init" => upsock = "established"

\* An event that is not ready is registered, at the latest by the handler that
\* found it so.
Waits(e, d) == e \in ready \/ e \in active \/ (dir = d /\ step \in Relaying)
RegisteredInv == (connected => Waits("cr", "up")) /\ Waits("cw", "down")

\* epoll has an event x of s still to report, or has reported it.
Coming(s, x) == s \in armed \/ << s, x >> \in revents

\* An end of input, input beyond what FIONREAD counted, and input of a socket
\* found drained are reported anew.
InputOf(s) == Rd(s) \in active =>
    /\ s \in fin \cup rst /\ s \notin pendingEof => Coming(s, "in") /\ Coming(s, "rdhup")
    /\ avail[s] >= 0 /\ Queued(s) > avail[s] => Coming(s, "in")
    /\ Rd(s) \notin ready /\ (Queued(s) > 0 \/ s \in fin \cup rst) /\ s \notin eof =>
          Coming(s, "in")

\* So is space in a full socket, unless the remote end has yet to make some.
OutputOf(s) == Wr(s) \notin ready /\ Established(s) =>
    \/ s \in nospace
    \/ Space(s) > 0 /\ (Wr(s) \in active => Coming(s, "out"))

\* What is ready is posted or being worked on; input may wait for a rate limit
\* or for room in the buffer.
WritesOn(s) == dir = To(s) /\ ((step = "write" /\ dw) \/ step = "send")
ReadsOn(s)  == dir = From(s) /\ step \in {"write", "send", "update", "read"}
OutputReady(s) == s \in buffered /\ Wr(s) \in ready /\ connected =>
    Wr(s) \in posted \/ WritesOn(s)
InputReady(s) == Rd(s) \in ready /\ s \notin eof /\ (s = "u" => connected) =>
    Rd(s) \in posted \/ s \in delayed \/ last[From(s)] = BufSize \/ ReadsOn(s)

\* The buffer is empty when no chain holds a part of it.
RewoundInv == \A d \in Dir : busy[d] = <<>> /\ out[d] = <<>> => last[d] = 0

EdgeInv == step # "done" =>
    /\ ShutdownInv /\ SocketInv /\ RegisteredInv
    /\ \A s \in Side : InputOf(s) /\ OutputReady(s) /\ InputReady(s)
    /\ closing = {} => \A s \in Side : OutputOf(s)
    /\ rerror \subseteq eof /\ RewoundInv

\* A step of a session that goes on does not finalize it.
LEMMA NotFinal == ASSUME step' # "done" PROVE \A why : ~Finalize(why)
BY DEF Finalize

\* The next peer: the failed connection is gone with its events.
LEMMA Retried ==
    ASSUME NextUpstream, step' # "done"
    PROVE  /\ step' = "connect" /\ upsock' = "none" /\ "u" \notin buffered
           /\ open' = open \ {"u"} /\ active' = active \ UpEvents
           /\ posted' = posted \ UpEvents /\ armed' = armed \ {"u"}
           /\ revents' = {r \in revents : r[1] # "u"}
           /\ UNCHANGED <<sent, fin, rst, wire, taken, nospace, ready, delayed, eof, rerror,
                          pendingEof, avail, buffered, closing, data, connected, dir>>
BY NotFinal DEF NextUpstream

\* What relaying leaves alone.
LEMMA ProcessFrame ==
    ASSUME Process, step' # "done"
    PROVE  /\ step \in Relaying /\ step' \in Relaying \cup {"idle"}
           /\ UNCHANGED <<open, closing, upsock, posted, sent, fin, rst, taken, revents,
                          pendingEof, connected, dir>>
<1>1. CASE SkipWrite \/ SkipRead
  BY <1>1 DEF SkipWrite, SkipRead, Relaying, kernel, epoll, events, conns, data, upstream
<1>2. CASE WriteFilter
  BY <1>2, NotFinal DEF WriteFilter, Relaying, kernel, epoll, events, upstream
<1>3. CASE SendBlocked \/ SendDone
  BY <1>3 DEF SendBlocked, SendDone, Relaying, kernel, epoll, events, data, upstream
<1>4. CASE SendBytes
  BY <1>4 DEF SendBytes, Relaying, epoll, events, conns, upstream, run
<1>5. CASE UpdateChains
  BY <1>5 DEF UpdateChains, Relaying, kernel, epoll, events, conns, upstream
<1>6. CASE ReadLimited \/ RecvAgain
  BY <1>6 DEF ReadLimited, RecvAgain, MayRead, Relaying, kernel, epoll, conns, data, upstream
<1>7. CASE RecvData \/ RecvEnd
  <2>1. step = "read" /\ \E n : Received(n)
    BY <1>7 DEF RecvData, RecvEnd, MayRead
  <2> QED
    BY <2>1 DEF Received, Relaying, kernel, epoll, conns, upstream
<1>8. CASE Finish
  BY <1>8 DEF Finish, Register, Relaying, kernel, data
<1> QED
  BY <1>1, <1>2, <1>3, <1>4, <1>5, <1>6, <1>7, <1>8, NotFinal
     DEF Process, SendFails, RecvNoBuffer, FinishDisconnected, ShutdownFails

\* What the remote ends, the network and the clock leave alone.
LEMMA RemoteFrame ==
    ASSUME Remote
    PROVE  /\ UNCHANGED <<open, closing, active, revents, ready, posted, delayed, eof, rerror,
                          pendingEof, avail, buffered, last, busy, out, received, wire,
                          connected, step, dir, dw>>
           /\ armed \subseteq armed'
<1>1. ASSUME NEW s \in Side, RemoteSend(s) \/ RemoteFin(s) \/ RemoteReset(s)
      PROVE  /\ UNCHANGED <<conns, active, revents, events, data, wire, connected, step, dir, dw>>
             /\ armed \subseteq armed'
  BY <1>1 DEF RemoteSend, RemoteFin, RemoteReset, Edge, upstream, run
<1>2. ASSUME NEW s \in Side, RemoteTake(s)
      PROVE  /\ UNCHANGED <<conns, active, revents, events, data, wire, connected, step, dir, dw>>
             /\ armed \subseteq armed'
  BY <1>2 DEF RemoteTake, Edge, upstream, run
<1>3. ASSUME ConnectCompletes
      PROVE  /\ UNCHANGED <<conns, active, revents, events, data, wire, connected, step, dir, dw>>
             /\ armed \subseteq armed'
  BY <1>3 DEF ConnectCompletes, Edge, upstream, run
<1>4. ASSUME Tick
      PROVE  /\ UNCHANGED <<conns, active, revents, events, data, wire, connected, step, dir, dw>>
             /\ armed \subseteq armed'
  BY <1>4 DEF Tick, kernel, epoll, run
<1> QED
  BY <1>1, <1>2, <1>3, <1>4 DEF Remote, conns, events, data

\* What the event loop and the event handlers leave alone.
LEMMA LoopFrame ==
    ASSUME Loop, step' # "done"
    PROVE  /\ UNCHANGED <<kernel, eof, rerror, open, buffered, data, connected>>
           /\ step = "idle"
<1>1. CASE EpollWait
  BY <1>1 DEF EpollWait, events, conns, upstream
<1>2. CASE ShutdownTimeout
  BY <1>2 DEF ShutdownTimeout, upstream
<1>3. ASSUME NEW s \in Side, DispatchRead(s)
      PROVE  UNCHANGED <<kernel, eof, rerror, conns, data, upstream>> /\ step = "idle"
  BY <1>3 DEF DispatchRead
<1>4. ASSUME NEW s \in Side, DispatchWrite(s)
      PROVE  UNCHANGED <<kernel, eof, rerror, conns, data, upstream>> /\ step = "idle"
  BY <1>4 DEF DispatchWrite
<1>5. ASSUME NEW e \in Event, Handler(e)
      PROVE  UNCHANGED <<kernel, eof, rerror, conns, data, upstream>> /\ step = "idle"
  BY <1>5, NotFinal DEF Handler
<1>6. ASSUME NEW e \in Event, DelayTimeout(e)
      PROVE  UNCHANGED <<kernel, eof, rerror, conns, data, upstream>> /\ step = "idle"
  BY <1>6, NotFinal DEF DelayTimeout
<1> QED
  BY <1>1, <1>2, <1>3, <1>4, <1>5, <1>6, NotFinal DEF Loop, IdleTimeout, conns, upstream

\* An upstream is connected to on an epoll without the old one's events.
LEMMA Connects ==
    ASSUME Connecting, step' # "done"
    PROVE  \/ /\ step' = "connect" /\ step \in {"idle", "connect"}
              /\ UNCHANGED <<kernel, epoll, events, conns, data, connected, dir>>
              /\ resolving \/ step = "connect"
           \/ /\ step = "connect" /\ step' = "dial" /\ ~connected'
              /\ UNCHANGED <<kernel, epoll, events, conns, data, dir>>
           \/ NextUpstream /\ (step = "idle" => ~connected) /\ step \in {"idle", "dial", "init"}
           \/ ConnectAgain \/ ConnectNow
           \/ /\ step = "idle" /\ step' = "init" /\ ~connected
              /\ \E e \in UpEvents : e \in posted /\ posted' = posted \ {e}
              /\ upsock # "failed" /\ "u" \notin rst
              /\ UNCHANGED <<kernel, epoll, ready, delayed, eof, rerror, pendingEof, avail,
                             conns, data, connected, dir, dw>>
           \/ /\ step = "init" /\ connected'
              /\ posted' = posted \cup ({"ur"} \cap ready)
              /\ step' = "write" /\ dir' = "up" /\ dw'
              /\ UNCHANGED <<kernel, epoll, ready, delayed, eof, rerror, pendingEof, avail,
                             conns, data>>
<1>1. CASE Resolved
  BY <1>1, NotFinal DEF Resolved
<1>2. CASE GetPeer
  BY <1>2, NotFinal DEF GetPeer
<1>3. CASE DialFails
  BY <1>3, NotFinal DEF DialFails
<1>4. CASE ConnectTimeout
  BY <1>4 DEF ConnectTimeout
<1>5. CASE InitUpstream
  BY <1>5, NotFinal DEF InitUpstream
<1>6. ASSUME NEW e \in UpEvents, ConnectHandler(e)
      PROVE  \/ NextUpstream /\ (step = "idle" => ~connected) /\ step \in {"idle", "dial", "init"}
             \/ /\ step = "idle" /\ step' = "init" /\ ~connected
                /\ e \in posted /\ posted' = posted \ {e}
                /\ upsock # "failed" /\ "u" \notin rst
                /\ UNCHANGED <<kernel, epoll, ready, delayed, eof, rerror, pendingEof, avail,
                               conns, data, connected, dir, dw>>
  BY <1>6 DEF ConnectHandler, upstream
<1> QED
  BY <1>1, <1>2, <1>3, <1>4, <1>5, <1>6 DEF Connecting

\* The client's connection stays open, and its posted event is a stop.
LEMMA ShutdownStep ==
    ASSUME ShutdownInv, Next, step' # "done", step # "done" PROVE ShutdownInv'
<1>1. CASE Connecting
  <2>1. CASE ConnectAgain \/ ConnectNow
    <3>1. open' = open \cup {"u"} /\ closing' = closing \ {"u"} /\ posted' = posted \ UpEvents
      BY <2>1 DEF ConnectAgain, ConnectNow, NewUpstream
    <3> QED
      BY <3>1 DEF ShutdownInv, UpEvents
  <2>2. CASE NextUpstream
    BY <2>2, Retried DEF ShutdownInv, UpEvents
  <2>3. CASE ~(ConnectAgain \/ ConnectNow \/ NextUpstream)
    <3>1. UNCHANGED <<open, closing>> /\ ("cr" \in posted => "cr" \in posted')
      BY <1>1, <2>3, Connects DEF conns, events, UpEvents
    <3> QED
      BY <3>1 DEF ShutdownInv
  <2> QED
    BY <2>1, <2>2, <2>3
<1>2. CASE Loop
  <2>1. open' = open
    BY <1>2, LoopFrame
  <2>2. CASE ShutdownTimeout
    <3>1. closing' = open /\ "cr" \in posted'
      BY <2>2 DEF ShutdownTimeout, ShutdownCalls, ShutdownInv, Rd
    <3> QED
      BY <2>1, <3>1 DEF ShutdownInv
  <2>3. CASE \E e \in Event : Handler(e)
    <3>1. PICK e \in Event : Handler(e)
      BY <2>3
    <3>2. closing' = closing /\ posted' = posted \ {e} /\ SideOf(e) \notin closing
      BY <3>1, NotFinal DEF Handler, conns
    <3> QED
      BY <2>1, <3>2 DEF ShutdownInv, SideOf
  <2>4. CASE EpollWait \/ \E e \in Event : DelayTimeout(e)
    <3>1. UNCHANGED <<closing, posted>>
      BY <2>4, NotFinal DEF EpollWait, DelayTimeout, conns, events
    <3> QED
      BY <2>1, <3>1 DEF ShutdownInv
  <2>5. CASE \E s \in Side : DispatchRead(s) \/ DispatchWrite(s)
    <3>1. closing' = closing /\ posted \subseteq posted'
      BY <2>5 DEF DispatchRead, DispatchWrite, conns
    <3> QED
      BY <2>1, <3>1 DEF ShutdownInv
  <2> QED
    BY <1>2, <2>2, <2>3, <2>4, <2>5, NotFinal DEF Loop, IdleTimeout
<1>3. CASE Process
  BY <1>3, ProcessFrame DEF ShutdownInv
<1>4. CASE Remote
  BY <1>4, RemoteFrame DEF ShutdownInv
<1> QED
  BY <1>1, <1>2, <1>3, <1>4 DEF Next, Done

\* A session that is not being shut down was not.
LEMMA NotClosing ==
    ASSUME ShutdownInv, Next, step' # "done", step # "done", closing' = {} PROVE closing = {}
<1>1. CASE Connecting
  <2>1. CASE ConnectAgain \/ ConnectNow
    <3>1. closing' = closing \ {"u"}
      BY <2>1 DEF ConnectAgain, ConnectNow, NewUpstream
    <3> QED
      BY <3>1 DEF ShutdownInv
  <2>2. CASE ~(ConnectAgain \/ ConnectNow)
    BY <1>1, <2>2, Connects, Retried DEF conns
  <2> QED
    BY <2>1, <2>2
<1>2. CASE Loop
  <2>1. CASE ShutdownTimeout
    BY <2>1 DEF ShutdownTimeout, ShutdownInv
  <2>2. CASE ~ShutdownTimeout
    <3>1. CASE \E e \in Event : Handler(e) \/ DelayTimeout(e)
      BY <3>1, NotFinal DEF Handler, DelayTimeout, conns
    <3>2. CASE EpollWait \/ \E s \in Side : DispatchRead(s) \/ DispatchWrite(s)
      BY <3>2 DEF EpollWait, DispatchRead, DispatchWrite, conns
    <3> QED
      BY <1>2, <2>2, <3>1, <3>2, NotFinal DEF Loop, IdleTimeout
  <2> QED
    BY <2>1, <2>2
<1>3. CASE Process \/ Remote
  BY <1>3, ProcessFrame, RemoteFrame
<1> QED
  BY <1>1, <1>2, <1>3 DEF Next, Done

\* What epoll_wait() would report of a socket.
LEMMA Polled ==
    ASSUME NEW s \in Side
    PROVE  /\ Queued(s) > 0 \/ s \in fin \cup rst => "in" \in Poll(s)
           /\ s \in fin \cup rst => "rdhup" \in Poll(s)
           /\ Space(s) > 0 => "out" \in Poll(s)
BY DEF Poll, Hup

\* Registering for events asks epoll about the sockets.
LEMMA Registers ==
    ASSUME NEW E, E \subseteq Event, Register(E)
    PROVE  /\ active' = active \cup E /\ armed \subseteq armed'
           /\ \A s \in Side : s \in armed' \ armed => Rd(s) \in E \/ Wr(s) \in E
           /\ \A s \in Side : Rd(s) \in E /\ (Queued(s) > 0 \/ s \in fin \cup rst) => s \in armed'
           /\ \A s \in Side : Wr(s) \in E /\ Space(s) > 0 => s \in armed'
<1>1. /\ active' = active \cup E
      /\ armed' = armed \cup {s \in Side : /\ \E e \in E : SideOf(e) = s
                                           /\ Poll(s) \cap Interest(s, active \cup E) # {}}
  BY DEF Register
<1>2. \A s \in Side : SideOf(Rd(s)) = s /\ SideOf(Wr(s)) = s
  BY DEF Side, SideOf, Rd, Wr
<1>3. \A s \in Side : \A e \in E : SideOf(e) = s => e = Rd(s) \/ e = Wr(s)
  BY DEF Side, SideOf, Rd, Wr, Event
<1>4. ASSUME NEW s \in Side, Rd(s) \in E, Queued(s) > 0 \/ s \in fin \cup rst PROVE s \in armed'
  <2>1. "in" \in Interest(s, active \cup E)
    BY <1>4 DEF Interest
  <2> QED
    BY <1>1, <1>2, <1>4, <2>1, Polled
<1>5. ASSUME NEW s \in Side, Wr(s) \in E, Space(s) > 0 PROVE s \in armed'
  <2>1. "out" \in Interest(s, active \cup E)
    BY <1>5 DEF Interest
  <2> QED
    BY <1>1, <1>2, <1>5, <2>1, Polled
<1> QED
  BY <1>1, <1>3, <1>4, <1>5

\* An event handler, or the timer of a rate limit, waits for more input or
\* starts to relay.
LEMMA Handles ==
    ASSUME NEW e \in Event, Handler(e) \/ DelayTimeout(e), step' # "done", TimerInv
    PROVE  /\ UNCHANGED <<revents, ready, pendingEof, avail, closing, upsock>>
           /\ SideOf(e) \notin closing /\ (SideOf(e) = "u" => connected)
           /\ Handler(e) => e \in posted /\ posted' = posted \ {e} /\ delayed' = delayed
           /\ ~Handler(e) => /\ Reading(e) /\ SideOf(e) \in delayed
                             /\ posted' = posted /\ delayed' = delayed \ {SideOf(e)}
           /\ \/ /\ Reading(e) /\ SideOf(e) \in delayed /\ UNCHANGED run
                 /\ Register({x \in {e} : Unhandled(x)})
                 /\ ~Handler(e) => e \notin ready
              \/ UNCHANGED <<run, active, armed>> /\ DirOf(e) = "down" /\ ~connected
              \/ /\ step' = "write" /\ dir' = DirOf(e) /\ (Handler(e) => dw' = ~Reading(e))
                 /\ ~connected => DirOf(e) = "up"
                 /\ UNCHANGED <<active, armed>>
<1>1. CASE Handler(e)
  BY <1>1, NotFinal DEF Handler, kernel, conns, Event, DirOf
<1>2. CASE DelayTimeout(e) /\ ~Handler(e)
  <2>1. ~connected => "u" \notin delayed
    BY DEF TimerInv
  <2> QED
    BY <1>2, <2>1, NotFinal DEF DelayTimeout, kernel, conns, Event, DirOf
<1> QED
  BY <1>1, <1>2

\* Relaying registers for events when it finishes, and until then takes no event
\* for ready.
LEMMA Awaits ==
    ASSUME Process, step' # "done"
    PROVE  \/ /\ step' = "idle" /\ UNCHANGED ready
              /\ \E E \in SUBSET Event :
                    /\ Register(E)
                    /\ \A e \in E : e = Rd(Src(dir)) \/ (DstUp /\ e = Wr(Dst(dir)))
                    /\ Unhandled(Rd(Src(dir))) => Rd(Src(dir)) \in E
                    /\ Unhandled(Wr(Dst(dir))) /\ DstUp => Wr(Dst(dir)) \in E
           \/ /\ step' \in Relaying /\ UNCHANGED <<active, armed>>
              /\ ready' \subseteq ready
              /\ ready \subseteq ready' \cup {Rd(Src(dir)), Wr(Dst(dir))}
<1>1. CASE Finish
  <2> DEFINE E == {e \in {Rd(Src(dir))} \cup (IF DstUp THEN {Wr(Dst(dir))} ELSE {}) : Unhandled(e)}
  <2>1. /\ step' = "idle" /\ ready' = ready
        /\ Register(E) /\ E \in SUBSET Event
    BY <1>1 DEF Finish, Event, Rd, Wr
  <2>2. /\ \A e \in E : e = Rd(Src(dir)) \/ (DstUp /\ e = Wr(Dst(dir)))
        /\ Unhandled(Rd(Src(dir))) => Rd(Src(dir)) \in E
        /\ Unhandled(Wr(Dst(dir))) /\ DstUp => Wr(Dst(dir)) \in E
    OBVIOUS
  <2> QED
    BY <2>1, <2>2
<1>2. CASE RecvData \/ RecvEnd
  <2>1. (\E n : Received(n)) /\ ready' \subseteq ready /\ ready \subseteq ready' \cup {Rd(Src(dir))}
    BY <1>2 DEF RecvData, RecvEnd
  <2> QED
    BY <2>1 DEF Received, epoll, Relaying
<1>3. CASE SendBlocked
  BY <1>3 DEF SendBlocked, epoll, Relaying
<1>4. CASE RecvAgain
  BY <1>4 DEF RecvAgain, epoll, Relaying
<1>5. CASE WriteFilter
  BY <1>5, NotFinal DEF WriteFilter, epoll, events, Relaying
<1>6. CASE SendBytes
  BY <1>6 DEF SendBytes, epoll, events, run, Relaying
<1>7. CASE SkipWrite \/ SendDone \/ UpdateChains \/ SkipRead \/ ReadLimited
  BY <1>7 DEF SkipWrite, SendDone, UpdateChains, SkipRead, ReadLimited, epoll, events, Relaying
<1> QED
  BY <1>1, <1>2, <1>3, <1>4, <1>5, <1>6, <1>7, NotFinal
     DEF Process, SendFails, RecvNoBuffer, FinishDisconnected, ShutdownFails

\* The upstream's socket.
LEMMA SocketStep ==
    ASSUME ShutdownInv, SocketInv, TimerInv, Types, Next, step' # "done", step # "done"
    PROVE  SocketInv'
<1> DEFINE Quiescent == /\ "u" \notin armed /\ posted \cap UpEvents = {}
                        /\ \A x \in {"in", "out", "rdhup"} : << "u", x >> \notin revents
<1>1. closing' = {} => closing = {}
  BY NotClosing
<1>2. closing = {} => /\ upsock \in {"none", "inprogress"} => Quiescent
                      /\ connected \/ step = "init" => upsock = "established"
  BY DEF SocketInv
<1>3. ASSUME UNCHANGED <<open, upsock>>, active \subseteq active', step' \notin {"connect", "dial"},
             closing = {} => /\ upsock \in {"none", "inprogress"} => Quiescent'
                             /\ connected' \/ step' = "init" => upsock = "established"
      PROVE  SocketInv'
  BY <1>1, <1>3 DEF SocketInv
<1>4. CASE Connecting
  <2>1. CASE ConnectAgain
    <3>1. /\ step = "dial" /\ open' = open \cup {"u"} /\ active' = active \cup UpEvents
          /\ posted' = posted \ UpEvents /\ upsock' = "inprogress" /\ step' = "idle"
          /\ UNCHANGED <<armed, revents, connected>>
      BY <2>1 DEF ConnectAgain, NewUpstream, upstream
    <3>2. upsock = "none" /\ ~connected
      BY <3>1 DEF SocketInv, TimerInv
    <3>3. closing' = {} => Quiescent'
      BY <1>1, <1>2, <3>1, <3>2
    <3> QED
      BY <3>1, <3>2, <3>3 DEF SocketInv
  <2>2. CASE ConnectNow
    <3>1. /\ open' = open \cup {"u"} /\ active' = active \cup UpEvents
          /\ upsock' = "established" /\ step' = "init"
      BY <2>2 DEF ConnectNow, NewUpstream
    <3> QED
      BY <3>1 DEF SocketInv
  <2>3. CASE NextUpstream /\ (step = "idle" => ~connected) /\ step \in {"idle", "dial", "init"}
    <3>1. /\ step' = "connect" /\ upsock' = "none"
          /\ open' = open \ {"u"} /\ active' = active \ UpEvents
          /\ posted' = posted \ UpEvents /\ armed' = armed \ {"u"}
          /\ revents' = {r \in revents : r[1] # "u"} /\ connected' = connected
      BY <2>3, Retried
    <3>2. ~connected
      BY <2>3 DEF TimerInv
    <3> QED
      BY <3>1, <3>2 DEF SocketInv
  <2>4. CASE /\ step' = "connect" /\ UNCHANGED <<kernel, epoll, events, conns, data, connected, dir>>
             /\ resolving \/ step = "connect"
    <3>1. "u" \notin open /\ ~connected
      BY <2>4 DEF SocketInv, TimerInv
    <3> QED
      BY <1>1, <2>4, <3>1 DEF SocketInv, kernel, epoll, events, conns
  <2>5. CASE /\ step = "connect" /\ step' = "dial" /\ ~connected'
             /\ UNCHANGED <<kernel, epoll, events, conns, data, dir>>
    BY <2>5 DEF SocketInv, kernel, epoll, events, conns
  <2>6. CASE /\ step = "idle" /\ step' = "init" /\ ~connected
             /\ \E e \in UpEvents : e \in posted /\ posted' = posted \ {e}
             /\ upsock # "failed" /\ "u" \notin rst
             /\ UNCHANGED <<kernel, epoll, ready, delayed, eof, rerror, pendingEof, avail,
                            conns, data, connected, dir, dw>>
    <3>1. posted \cap UpEvents # {} /\ UNCHANGED <<open, upsock, active, closing>>
      BY <2>6 DEF kernel, epoll, conns
    <3>2. upsock \in {"none", "inprogress", "established", "failed"}
      BY DEF Types, KernelOK
    <3>3. closing = {} => upsock = "established"
      BY <1>2, <2>6, <3>1, <3>2
    <3> QED
      BY <1>3, <2>6, <3>1, <3>3
  <2>7. CASE /\ step = "init" /\ connected'
             /\ posted' = posted \cup ({"ur"} \cap ready)
             /\ step' = "write" /\ dir' = "up" /\ dw'
             /\ UNCHANGED <<kernel, epoll, ready, delayed, eof, rerror, pendingEof, avail,
                            conns, data>>
    <3>1. UNCHANGED <<open, upsock, active>>
      BY <2>7 DEF kernel, epoll, conns
    <3> QED
      BY <1>2, <1>3, <2>7, <3>1
  <2> QED
    BY <1>4, <2>1, <2>2, <2>3, <2>4, <2>5, <2>6, <2>7, Connects
<1>5. CASE Loop
  <2>1. UNCHANGED <<open, upsock, connected>> /\ step = "idle"
    BY <1>5, LoopFrame DEF kernel
  <2>2. CASE EpollWait
    <3>1. /\ \A r \in revents' : r[1] \in armed
          /\ armed' = {} /\ UNCHANGED <<active, posted, step>>
      BY <2>2 DEF EpollWait, events, run
    <3>2. closing = {} /\ upsock \in {"none", "inprogress"} => Quiescent'
      BY <1>2, <3>1
    <3> QED
      BY <1>2, <1>3, <2>1, <3>1, <3>2
  <2>3. CASE ShutdownTimeout
    <3>1. closing' # {} /\ active' = active /\ step' = step
      BY <2>3 DEF ShutdownTimeout, ShutdownInv, epoll, run
    <3> QED
      BY <2>1, <3>1 DEF SocketInv
  <2>4. ASSUME NEW s \in Side, DispatchRead(s) \/ DispatchWrite(s) PROVE SocketInv'
    <3>1. /\ UNCHANGED <<active, armed, step>> /\ revents' \subseteq revents
          /\ \E x \in {"in", "out"} : <<s, x>> \in revents
          /\ posted' \subseteq posted \cup {Rd(s), Wr(s)}
      BY <2>4 DEF DispatchRead, DispatchWrite, run
    <3>2. closing = {} /\ upsock \in {"none", "inprogress"} => Quiescent'
      <4> SUFFICES ASSUME closing = {}, upsock \in {"none", "inprogress"} PROVE Quiescent'
        OBVIOUS
      <4>1. Quiescent
        BY <1>2
      <4>2. s = "c"
        BY <3>1, <4>1 DEF Side
      <4>3. posted' \cap UpEvents = {}
        BY <3>1, <4>1, <4>2 DEF UpEvents, Rd, Wr
      <4> QED
        BY <3>1, <4>1, <4>3
    <3> QED
      BY <1>2, <1>3, <2>1, <3>1, <3>2
  <2>5. ASSUME NEW e \in Event, Handler(e) \/ DelayTimeout(e) PROVE SocketInv'
    <3>1. /\ UNCHANGED <<revents, closing, upsock>> /\ posted' \subseteq posted
          /\ (SideOf(e) = "u" => connected)
          /\ step' \in {step, "write"}
          /\ Register({x \in {e} : Unhandled(x)}) \/ UNCHANGED <<active, armed>>
      BY <2>5, Handles DEF run
    <3>2. /\ active \subseteq active'
          /\ "u" \in armed' \ armed => Rd("u") = e \/ Wr("u") = e
      BY <3>1, Registers, {x \in {e} : Unhandled(x)} \subseteq Event DEF Side
    <3>3. closing = {} /\ upsock \in {"none", "inprogress"} => Quiescent'
      <4> SUFFICES ASSUME closing = {}, upsock \in {"none", "inprogress"} PROVE Quiescent'
        OBVIOUS
      <4>1. Quiescent /\ ~connected
        BY <1>2
      <4>2. "u" \notin armed'
        BY <3>1, <3>2, <4>1 DEF SideOf, Rd, Wr
      <4> QED
        BY <3>1, <4>1, <4>2
    <3> QED
      BY <1>2, <1>3, <2>1, <3>1, <3>2, <3>3
  <2> QED
    BY <1>5, <2>2, <2>3, <2>4, <2>5, NotFinal DEF Loop, IdleTimeout
<1>6. CASE Process
  <2>1. /\ UNCHANGED <<open, closing, upsock, posted, revents, connected>>
        /\ step' \in Relaying \cup {"idle"} /\ (~connected => dir = "up")
    BY <1>6, ProcessFrame DEF TimerInv
  <2>2. active \subseteq active' /\ (~connected /\ "u" \in armed' => "u" \in armed)
    <3>1. CASE UNCHANGED <<active, armed>>
      BY <3>1
    <3>2. CASE ~UNCHANGED <<active, armed>>
      <4>1. PICK E \in SUBSET Event :
                    /\ Register(E)
                    /\ \A e \in E : e = Rd(Src(dir)) \/ (DstUp /\ e = Wr(Dst(dir)))
        BY <1>6, <3>2, Awaits
      <4>2. ~connected => Rd("u") \notin E /\ Wr("u") \notin E
        BY <2>1, <4>1 DEF DstUp, Src, Dst, Rd, Wr
      <4> QED
        BY <4>1, <4>2, Registers DEF Side
    <3> QED
      BY <3>1, <3>2
  <2>3. closing = {} /\ upsock \in {"none", "inprogress"} => Quiescent'
    BY <1>2, <2>1, <2>2
  <2> QED
    BY <1>2, <1>3, <2>1, <2>2, <2>3 DEF Relaying
<1>7. CASE Remote
  <2>1. /\ UNCHANGED <<open, closing, active, revents, posted, connected, step>>
    BY <1>7, RemoteFrame
  <2>2. CASE ConnectCompletes
    <3>1. "u" \in open /\ upsock = "inprogress" /\ upsock' \in {"established", "failed"}
      BY <2>2 DEF ConnectCompletes
    <3> QED
      BY <2>1, <3>1 DEF SocketInv
  <2>3. CASE ~ConnectCompletes
    <3>1. upsock' = upsock /\ ("u" \in armed' => "u" \in armed \/ upsock = "established")
      <4>1. ASSUME NEW s \in Side, RemoteSend(s) \/ RemoteFin(s) \/ RemoteReset(s) \/ RemoteTake(s)
            PROVE  upsock' = upsock /\ ("u" \in armed' => "u" \in armed \/ upsock = "established")
        BY <4>1 DEF RemoteSend, RemoteFin, RemoteReset, RemoteTake, Edge, Alive
      <4>2. CASE Tick
        BY <4>2 DEF Tick, kernel, epoll
      <4> QED
        BY <1>7, <2>3, <4>1, <4>2 DEF Remote
    <3> QED
      BY <1>2, <1>3, <2>1, <3>1 DEF SocketInv
  <2> QED
    BY <2>2, <2>3
<1> QED
  BY <1>4, <1>5, <1>6, <1>7 DEF Next, Done

\* What is not ready is registered.
LEMMA RegisteredStep ==
    ASSUME RegisteredInv, TimerInv, Types, Next, step' # "done", step # "done"
    PROVE  RegisteredInv'
<1>1. CASE Connecting
  <2>1. /\ step \notin Relaying
        /\ {"cr", "cw"} \cap ready \subseteq ready' /\ {"cr", "cw"} \cap active \subseteq active'
        /\ connected' => connected \/ (dir' = "up" /\ step' = "write")
    <3>1. CASE ConnectAgain \/ ConnectNow
      BY <3>1 DEF ConnectAgain, ConnectNow, NewUpstream, UpEvents, upstream, Relaying
    <3>2. CASE NextUpstream /\ step \in {"idle", "dial", "init"}
      BY <3>2, Retried DEF UpEvents, Relaying
    <3> QED
      BY <1>1, <3>1, <3>2, Connects DEF epoll, events, Relaying
  <2> QED
    BY <2>1 DEF RegisteredInv, Waits, Relaying
<1>2. CASE Loop
  <2>1. connected' = connected /\ step \notin Relaying
    BY <1>2, LoopFrame DEF Relaying
  <2>2. active \subseteq active' /\ ready \subseteq ready'
    <3>1. CASE EpollWait \/ ShutdownTimeout
      BY <3>1 DEF EpollWait, ShutdownTimeout, events, epoll
    <3>2. CASE \E s \in Side : DispatchRead(s) \/ DispatchWrite(s)
      BY <3>2 DEF DispatchRead, DispatchWrite
    <3>3. ASSUME NEW e \in Event, Handler(e) \/ DelayTimeout(e)
          PROVE  active \subseteq active' /\ ready \subseteq ready'
      BY <3>3, Handles DEF Register
    <3> QED
      BY <1>2, <3>1, <3>2, <3>3, NotFinal DEF Loop, IdleTimeout
  <2> QED
    BY <2>1, <2>2 DEF RegisteredInv, Waits
<1>3. CASE Process
  <2>1. UNCHANGED <<connected, dir>> /\ dir \in Dir
    BY <1>3, ProcessFrame DEF Types, RunOK
  <2>2. CASE /\ step' \in Relaying /\ UNCHANGED <<active, armed>>
             /\ ready' \subseteq ready
             /\ ready \subseteq ready' \cup {Rd(Src(dir)), Wr(Dst(dir))}
    BY <2>1, <2>2 DEF RegisteredInv, Waits, Rd, Wr, Src, Dst, Dir
  <2>3. ASSUME UNCHANGED ready, NEW E, Register(E),
               Unhandled(Rd(Src(dir))) => Rd(Src(dir)) \in E,
               Unhandled(Wr(Dst(dir))) /\ DstUp => Wr(Dst(dir)) \in E
        PROVE  RegisteredInv'
    <3>1. active' = active \cup E
      BY <2>3 DEF Register
    <3>2. CASE dir = "up"
      <4>1. "cr" \in ready \/ "cr" \in active'
        BY <2>3, <3>1, <3>2 DEF Unhandled, Rd, Src
      <4> QED
        BY <2>1, <2>3, <3>1, <3>2, <4>1 DEF RegisteredInv, Waits
    <3>3. CASE dir = "down"
      <4>1. "cw" \in ready \/ "cw" \in active'
        BY <2>3, <3>1, <3>3 DEF Unhandled, Wr, Dst, DstUp
      <4> QED
        BY <2>1, <2>3, <3>1, <3>3, <4>1 DEF RegisteredInv, Waits
    <3> QED
      BY <2>1, <3>2, <3>3 DEF Dir
  <2> QED
    BY <1>3, <2>2, <2>3, Awaits
<1>4. CASE Remote
  BY <1>4, RemoteFrame DEF RegisteredInv, Waits
<1> QED
  BY <1>1, <1>2, <1>3, <1>4 DEF Next, Done

\* The buffer is rewound when the last of it is written.
LEMMA RewoundStep ==
    ASSUME RewoundInv, Types, Next, step' # "done", step # "done" PROVE RewoundInv'
<1>1. CASE Connecting
  BY <1>1, Connects, Retried DEF RewoundInv, data, ConnectAgain, ConnectNow, NewUpstream
<1>2. CASE Loop
  BY <1>2, LoopFrame DEF RewoundInv, data
<1>3. CASE Process
  <2>1. CASE UpdateChains
    <3>1. /\ busy \in [Dir -> Seq(BufId)] /\ out \in [Dir -> Seq(BufId)]
          /\ last \in [Dir -> 0 .. BufSize] /\ dir \in Dir
      BY DEF Types, DataOK, RunOK
    <3>2. \E rest : /\ busy' = [busy EXCEPT ![dir] = rest]
                    /\ last' = [last EXCEPT ![dir] = Rewind(rest)]
                    /\ out' = [out EXCEPT ![dir] = <<>>]
      BY <2>1 DEF UpdateChains
    <3> QED
      BY <3>1, <3>2 DEF RewoundInv, Rewind
  <2>2. CASE RecvData \/ RecvEnd
    <3>1. PICK n : Received(n)
      BY <2>2 DEF RecvData, RecvEnd
    <3>2. /\ out \in [Dir -> Seq(BufId)] /\ last \in [Dir -> 0 .. BufSize] /\ dir \in Dir
          /\ \E b : out' = [out EXCEPT ![dir] = Append(@, b)]
          /\ last' = [last EXCEPT ![dir] = @ + n] /\ busy' = busy
      BY <3>1 DEF Received, Types, DataOK, RunOK
    <3>3. out'[dir] # <<>> /\ \A d \in Dir : d # dir => out'[d] = out[d] /\ last'[d] = last[d]
      BY <3>2, AppendProperties
    <3> QED
      BY <3>2, <3>3 DEF RewoundInv
  <2>3. CASE ~(UpdateChains \/ RecvData \/ RecvEnd)
    <3>1. UNCHANGED <<last, busy, out>>
      BY <1>3, <2>3, NotFinal
         DEF Process, SkipWrite, WriteFilter, SendBlocked, SendFails, SendBytes, SendDone, SkipRead,
             ReadLimited, RecvAgain, RecvNoBuffer, FinishDisconnected, ShutdownFails, Finish, data
    <3> QED
      BY <3>1 DEF RewoundInv
  <2> QED
    BY <2>1, <2>2, <2>3
<1>4. CASE Remote
  BY <1>4, RemoteFrame DEF RewoundInv
<1> QED
  BY <1>1, <1>2, <1>3, <1>4 DEF Next, Done

\* A step that takes no edge of s away and finds nothing out about its input.
LEMMA InputKept ==
    ASSUME NEW s \in Side, InputOf(s),
           s \in armed => s \in armed', \A x : << s, x >> \in revents => << s, x >> \in revents',
           Rd(s) \in active' =>
               Rd(s) \in active \/ ((Queued(s) > 0 \/ s \in fin \cup rst) => s \in armed'),
           Rd(s) \in ready => Rd(s) \in ready',
           sent'[From(s)] = sent[From(s)], received'[From(s)] = received[From(s)],
           s \in fin' \cup rst' => s \in fin \cup rst, s \in pendingEof => s \in pendingEof',
           avail'[s] = avail[s], avail[s] \in Int, Queued(s) \in Int, s \in eof => s \in eof'
    PROVE  InputOf(s)'
BY DEF InputOf, Coming, Queued

\* An edge that is still to come tells everything.
LEMMA InputArmed == ASSUME NEW s \in Side, s \in armed' PROVE InputOf(s)'
BY DEF InputOf, Coming

\* Counts are numbers.
LEMMA QueuedType ==
    ASSUME Types, NEW s \in Side
    PROVE  /\ From(s) \in Dir /\ sent[From(s)] \in Nat /\ received[From(s)] \in Nat
           /\ Queued(s) \in Int /\ avail[s] \in Int
<1>1. From(s) \in Dir
  BY DEF From, Dir
<1>2. sent \in [Dir -> Nat] /\ received \in [Dir -> Nat] /\ avail \in [Side -> Int]
  BY DEF Types, KernelOK, DataOK, EventsOK
<1> QED
  BY <1>1, <1>2 DEF Queued

\* A new connection has no input.
LEMMA ConnectingInput ==
    ASSUME NEW s \in Side, InputOf(s), Types, TimerInv, LiveInv, Connecting, step' # "done"
    PROVE  InputOf(s)'
<1>1. CASE ConnectAgain \/ ConnectNow
  <2>1. /\ step = "dial"
        /\ sent' = [sent EXCEPT !["down"] = 0] /\ fin' = fin \ {"u"} /\ rst' = rst \ {"u"}
        /\ active' = active \cup UpEvents
        /\ eof' = eof \ {"u"} /\ pendingEof' = pendingEof \ {"u"} /\ avail' = [avail EXCEPT !["u"] = 0]
        /\ UNCHANGED <<armed, revents, received>>
        /\ ready \ UpEvents \subseteq ready'
    BY <1>1 DEF ConnectAgain, ConnectNow, NewUpstream, data
  <2>2. CASE s = "c"
    <3>1. From(s) = "up" /\ Rd(s) = "cr" /\ "cr" \notin UpEvents
      BY <2>2 DEF From, Rd, UpEvents
    <3>2. /\ sent'["up"] = sent["up"] /\ avail'["c"] = avail["c"]
      BY <2>1 DEF Types, KernelOK, EventsOK, Dir, Side
    <3> QED
      BY <2>1, <2>2, <3>1, <3>2, InputKept, QueuedType
  <2>3. CASE s = "u"
    <3>1. received["down"] = 0
      BY <2>1 DEF LiveInv, UnconnectedInv, TimerInv
    <3>2. sent'["down"] = 0 /\ received' = received
      BY <2>1 DEF Types, KernelOK, Dir
    <3>3. Queued(s)' = 0 /\ s \notin fin' \cup rst'
      BY <2>1, <2>3, <3>1, <3>2 DEF Queued, From
    <3>4. avail'[s] = 0
      BY <2>1, <2>3 DEF Types, EventsOK
    <3> QED
      BY <3>3, <3>4 DEF InputOf
  <2> QED
    BY <2>2, <2>3 DEF Side
<1>2. CASE NextUpstream
  <2>1. /\ active' = active \ UpEvents /\ armed' = armed \ {"u"}
        /\ revents' = {r \in revents : r[1] # "u"}
        /\ UNCHANGED <<sent, fin, rst, ready, eof, pendingEof, avail, received>>
    BY <1>2, Retried DEF data
  <2>2. CASE s = "c"
    <3>1. \A x : << s, x >> \in revents => << s, x >> \in revents'
      BY <2>1, <2>2
    <3> QED
      BY <2>1, <2>2, <3>1, InputKept, QueuedType DEF Rd
  <2>3. CASE s = "u"
    BY <2>1, <2>3 DEF InputOf, Rd, UpEvents
  <2> QED
    BY <2>2, <2>3 DEF Side
<1>3. CASE ~(ConnectAgain \/ ConnectNow \/ NextUpstream)
  <2>1. UNCHANGED <<armed, revents, active, ready, sent, received, fin, rst, pendingEof, avail, eof>>
    BY <1>3, Connects DEF kernel, epoll, events, data
  <2> QED
    BY <2>1, InputKept, QueuedType
<1> QED
  BY <1>1, <1>2, <1>3

\* What epoll reports stays reported until a handler's event is ready.
LEMMA LoopInput ==
    ASSUME NEW s \in Side, InputOf(s), Types, TimerInv, Loop, step' # "done"
    PROVE  InputOf(s)'
<1>1. UNCHANGED <<sent, received, fin, rst, eof>>
  BY LoopFrame DEF kernel, data
<1>2. CASE EpollWait
  <2>1. /\ UNCHANGED <<active, ready, pendingEof, avail>> /\ revents = {}
        /\ revents' = {r \in armed \X {"in", "out", "rdhup"} :
                           r[2] \in Poll(r[1]) /\ (Hup(r[1]) \/ r[2] \in Interest(r[1], active))}
    BY <1>2 DEF EpollWait, events
  <2>2. CASE s \in armed /\ Rd(s) \in active
    <3>1. {"in", "rdhup"} \subseteq Interest(s, active)
      BY <2>2 DEF Interest
    <3>2. \A x \in {"in", "rdhup"} : x \in Poll(s) => << s, x >> \in revents'
      BY <2>1, <2>2, <3>1
    <3>3. Queued(s)' = Queued(s)
      BY <1>1 DEF Queued
    <3> QED
      BY <1>1, <2>1, <3>2, <3>3, Polled, QueuedType DEF InputOf, Coming
  <2>3. CASE ~(s \in armed /\ Rd(s) \in active)
    <3>1. s \in armed => Rd(s) \notin active'
      BY <2>1, <2>3
    <3> QED
      BY <1>1, <2>1, <3>1, InputKept, QueuedType DEF InputOf
  <2> QED
    BY <2>2, <2>3
<1>3. CASE ShutdownTimeout
  <2>1. UNCHANGED <<armed, revents, active, ready, pendingEof, avail>>
    BY <1>3 DEF ShutdownTimeout, epoll
  <2> QED
    BY <1>1, <2>1, InputKept, QueuedType
<1>4. ASSUME NEW t \in Side, DispatchRead(t) PROVE InputOf(s)'
  <2>1. /\ UNCHANGED <<active, armed>> /\ revents' = revents \ {<<t, "in">>, <<t, "rdhup">>}
        /\ ready \subseteq ready' /\ pendingEof \subseteq pendingEof'
        /\ avail' \in {avail, [avail EXCEPT ![t] = -1]}
    BY <1>4 DEF DispatchRead
  <2>2. CASE s # t
    <3>1. \A x : << s, x >> \in revents => << s, x >> \in revents'
      BY <2>1, <2>2
    <3>2. avail'[s] = avail[s]
      BY <2>1, <2>2 DEF Types, EventsOK
    <3> QED
      BY <1>1, <2>1, <3>1, <3>2, InputKept, QueuedType
  <2>3. CASE s = t /\ Rd(s) \in active
    <3>1. Rd(s) \in ready' /\ avail' = [avail EXCEPT ![s] = -1]
          /\ (<<s, "rdhup">> \in revents => s \in pendingEof')
      BY <1>4, <2>3 DEF DispatchRead
    <3>2. avail'[s] = -1
      BY <3>1 DEF Types, EventsOK
    <3>3. s \in fin' \cup rst' /\ s \notin pendingEof' => s \in armed'
      BY <1>1, <2>1, <2>3, <3>1 DEF InputOf, Coming
    <3> QED
      BY <3>1, <3>2, <3>3 DEF InputOf, Coming
  <2>4. CASE s = t /\ Rd(s) \notin active
    BY <2>1, <2>4 DEF InputOf
  <2> QED
    BY <2>2, <2>3, <2>4
<1>5. ASSUME NEW t \in Side, DispatchWrite(t) PROVE InputOf(s)'
  <2>1. /\ UNCHANGED <<active, armed, pendingEof, avail>> /\ ready \subseteq ready'
        /\ revents' = revents \ {<<t, "out">>, <<t, "rdhup">>} /\ <<t, "in">> \notin revents
    BY <1>5 DEF DispatchWrite
  <2>2. CASE s # t
    <3>1. \A x : << s, x >> \in revents => << s, x >> \in revents'
      BY <2>1, <2>2
    <3> QED
      BY <1>1, <2>1, <3>1, InputKept, QueuedType
  <2>3. CASE s = t
    <3>1. Queued(s)' = Queued(s)
      BY <1>1 DEF Queued
    <3> QED
      BY <1>1, <2>1, <2>3, <3>1 DEF InputOf, Coming
  <2> QED
    BY <2>2, <2>3
<1>6. ASSUME NEW e \in Event, Handler(e) \/ DelayTimeout(e) PROVE InputOf(s)'
  <2>1. /\ UNCHANGED <<revents, ready, pendingEof, avail>>
        /\ Register({x \in {e} : Unhandled(x)}) \/ UNCHANGED <<active, armed>>
    BY <1>6, Handles
  <2>2. /\ armed \subseteq armed'
        /\ Rd(s) \in active' =>
               Rd(s) \in active \/ ((Queued(s) > 0 \/ s \in fin \cup rst) => s \in armed')
    BY <2>1, Registers, {x \in {e} : Unhandled(x)} \subseteq Event
  <2> QED
    BY <1>1, <2>1, <2>2, InputKept, QueuedType
<1> QED
  BY <1>2, <1>3, <1>4, <1>5, <1>6, NotFinal DEF Loop, IdleTimeout

\* New input is an edge.
LEMMA RemoteInput ==
    ASSUME NEW s \in Side, InputOf(s), Types, Remote
    PROVE  InputOf(s)'
<1>1. /\ UNCHANGED <<active, revents, ready, eof, pendingEof, avail, received>>
      /\ armed \subseteq armed'
  BY RemoteFrame
<1>2. CASE RemoteSend(s) \/ RemoteFin(s) \/ RemoteReset(s)
  <2>1. Rd(s) \in active => s \in armed'
    BY <1>2 DEF RemoteSend, RemoteFin, RemoteReset, Edge, Registered
  <2> QED
    BY <1>1, <2>1, InputArmed DEF InputOf
<1>3. CASE ~(RemoteSend(s) \/ RemoteFin(s) \/ RemoteReset(s))
  <2>1. /\ sent'[From(s)] = sent[From(s)]
        /\ s \in fin' \cup rst' => s \in fin \cup rst
    <3>1. ASSUME NEW t \in Side, t # s, RemoteSend(t)
          PROVE  sent'[From(s)] = sent[From(s)] /\ UNCHANGED <<fin, rst>>
      BY <3>1 DEF RemoteSend, From, Side, Types, KernelOK, Dir
    <3>2. ASSUME NEW t \in Side, t # s, RemoteFin(t) \/ RemoteReset(t)
          PROVE  sent' = sent /\ (s \in fin' \cup rst' => s \in fin \cup rst)
      BY <3>2 DEF RemoteFin, RemoteReset
    <3>3. ASSUME (\E t \in Side : RemoteTake(t)) \/ ConnectCompletes \/ Tick
          PROVE  UNCHANGED <<sent, fin, rst>>
      BY <3>3 DEF RemoteTake, ConnectCompletes, Tick, kernel
    <3> QED
      BY <1>3, <3>1, <3>2, <3>3 DEF Remote
  <2> QED
    BY <1>1, <2>1, InputKept, QueuedType
<1> QED
  BY <1>2, <1>3

\* What a read leaves in the socket is reported anew, or counted.
LEMMA RecvDataInput ==
    ASSUME NEW s \in Side, InputOf(s), Types, RecvData PROVE InputOf(s)'
<1>1. dir \in Dir /\ Src(dir) \in Side /\ From(Src(dir)) = dir
  BY DEF Types, RunOK, Dir, Src, From, Side
<1>2. PICK n \in 1 .. BufSize :
         /\ n = IF Queued(Src(dir)) < RecvSize THEN Queued(Src(dir)) ELSE RecvSize
         /\ avail' = [avail EXCEPT ![Src(dir)] = Available(Src(dir), n)]
         /\ ready' = IF \/ avail[Src(dir)] >= 0 /\ avail[Src(dir)] < n
                        \/ n < RecvSize /\ Src(dir) \notin pendingEof
                     THEN ready \ {Rd(Src(dir))} ELSE ready
         /\ eof' = eof
         /\ Received(n)
  BY DEF RecvData
<1>3. /\ received' = [received EXCEPT ![dir] = @ + n]
      /\ UNCHANGED <<sent, fin, rst, pendingEof, armed, revents, active>>
  BY <1>2 DEF Received, kernel, epoll
<1>4. received \in [Dir -> Nat] /\ avail \in [Side -> Int]
  BY DEF Types, DataOK, EventsOK
<1>5. CASE s # Src(dir)
  <2>1. From(s) # dir /\ Rd(s) # Rd(Src(dir))
    BY <1>1, <1>5 DEF From, Side, Dir, Src, Rd
  <2>2. received'[From(s)] = received[From(s)] /\ avail'[s] = avail[s]
    BY <1>2, <1>3, <1>4, <1>5, <2>1, QueuedType
  <2> QED
    BY <1>2, <1>3, <2>1, <2>2, InputKept, QueuedType
<1>6. CASE s = Src(dir)
  <2> DEFINE q == Queued(s)
             a == avail[s]
             r == RecvSize
  <2>1. q \in Int /\ a \in Int /\ r \in Int /\ n \in Nat /\ n = (IF q < r THEN q ELSE r)
    BY <1>2, <1>6, RoomInBuffer, QueuedType
  <2>2. Queued(s)' = q - n
    <3>1. received'[From(s)] = received[From(s)] + n
      BY <1>1, <1>3, <1>4, <1>6
    <3> QED
      BY <1>3, <3>1, <2>1, QueuedType DEF Queued
  <2>3. avail'[s] = IF n < r \/ (a >= 0 /\ a < n) THEN 0 ELSE IF a >= 0 THEN a - n ELSE q - n
    BY <1>2, <1>4, <1>6 DEF Available
  <2>4. Rd(s) \notin ready' => \/ a >= 0 /\ a < n
                               \/ n < r /\ s \notin pendingEof
    BY <1>2, <1>6 DEF RecvData, MayRead, Reads
  <2>5. Rd(s) \in active => /\ s \in fin \cup rst /\ s \notin pendingEof =>
                                  Coming(s, "in") /\ Coming(s, "rdhup")
                            /\ a >= 0 /\ q > a => Coming(s, "in")
    BY DEF InputOf
  <2>6. Coming(s, "in")' = Coming(s, "in") /\ Coming(s, "rdhup")' = Coming(s, "rdhup")
    BY <1>3 DEF Coming
  <2> HIDE DEF q, a, r
  <2>7. avail'[s] >= 0 /\ q - n > avail'[s] => a >= 0 /\ q > a
    BY <2>1, <2>3
  <2>8. Rd(s) \notin ready' => (a >= 0 /\ q > a) \/ (q - n = 0 /\ s \notin pendingEof)
    BY <2>1, <2>4
  <2>9. Rd(s) \notin ready' /\ (q - n > 0 \/ s \in fin \cup rst) =>
            (a >= 0 /\ q > a) \/ (s \in fin \cup rst /\ s \notin pendingEof)
    BY <2>1, <2>8
  <2> QED
    BY <1>3, <2>2, <2>5, <2>6, <2>7, <2>9 DEF InputOf
<1> QED
  BY <1>5, <1>6

\* Input is taken for drained only if it is, or if what is left of it is still
\* to be reported.
LEMMA ProcessInput ==
    ASSUME NEW s \in Side, InputOf(s), Types, Process, step' # "done"
    PROVE  InputOf(s)'
<1>1. /\ UNCHANGED <<sent, fin, rst, revents, pendingEof, dir>> /\ dir \in Dir
  BY ProcessFrame DEF Types, RunOK
<1>2. /\ armed \subseteq armed'
      /\ Rd(s) \in active' =>
             Rd(s) \in active \/ ((Queued(s) > 0 \/ s \in fin \cup rst) => s \in armed')
  BY Awaits, Registers
<1>3. CASE RecvAgain
  <2>1. /\ s # Src(dir) => (Rd(s) \in ready => Rd(s) \in ready')
        /\ UNCHANGED <<received, avail, eof, active, armed>>
    BY <1>1, <1>3 DEF RecvAgain, Rd, Side, Src, Dir, data, epoll
  <2>2. CASE s = Src(dir)
    <3>1. \/ avail[s] = 0 /\ s \notin pendingEof
          \/ Queued(s) = 0 /\ s \notin fin \cup rst
      BY <1>3, <2>2 DEF RecvAgain
    <3>2. Queued(s)' = Queued(s)
      BY <1>1, <2>1 DEF Queued
    <3> QED
      BY <1>1, <2>1, <3>1, <3>2, QueuedType DEF InputOf, Coming
  <2>3. CASE s # Src(dir)
    BY <1>1, <1>2, <2>1, <2>3, InputKept, QueuedType
  <2> QED
    BY <2>2, <2>3
<1>4. CASE RecvData
  BY <1>4, RecvDataInput
<1>5. CASE RecvEnd
  <2>1. /\ Received(0) /\ ready' = ready \ {Rd(Src(dir))} /\ eof' = eof \cup {Src(dir)}
        /\ avail' = avail
    BY <1>5 DEF RecvEnd
  <2>2. received' = [received EXCEPT ![dir] = @ + 0] /\ UNCHANGED <<active, armed>>
    BY <2>1 DEF Received, epoll
  <2>3. received' = received
    BY <1>1, <2>2 DEF Types, DataOK
  <2>4. CASE s = Src(dir)
    <3>1. Queued(s)' = Queued(s)
      BY <1>1, <2>3 DEF Queued
    <3> QED
      BY <1>1, <2>1, <2>2, <2>4, <3>1 DEF InputOf, Coming
  <2>5. CASE s # Src(dir)
    <3>1. Rd(s) # Rd(Src(dir))
      BY <1>1, <2>5 DEF Rd, Side, Src, Dir
    <3> QED
      BY <1>1, <1>2, <2>1, <2>3, <3>1, InputKept, QueuedType
  <2> QED
    BY <2>4, <2>5
<1>6. CASE ~(RecvAgain \/ RecvData \/ RecvEnd)
  <2>1. UNCHANGED <<received, avail, eof>> /\ (Rd(s) \in ready => Rd(s) \in ready')
    <3>1. CASE SendBlocked
      BY <3>1 DEF SendBlocked, data, Rd, Wr
    <3> QED
      BY <1>6, <3>1, NotFinal
         DEF Process, SkipWrite, WriteFilter, SendFails, SendBytes, SendDone, UpdateChains,
             SkipRead, ReadLimited, RecvNoBuffer, FinishDisconnected, ShutdownFails, Finish,
             data, events
  <2> QED
    BY <1>1, <1>2, <2>1, InputKept, QueuedType
<1> QED
  BY <1>3, <1>4, <1>5, <1>6

LEMMA InputStep ==
    ASSUME NEW s \in Side, InputOf(s), Types, TimerInv, LiveInv, Next, step' # "done", step # "done"
    PROVE  InputOf(s)'
BY ConnectingInput, LoopInput, ProcessInput, RemoteInput DEF Next, Done

\* A step that takes no edge of s away and uses no space of its socket.
LEMMA OutputKept ==
    ASSUME NEW s \in Side, OutputOf(s),
           s \in armed => s \in armed', << s, "out" >> \in revents => << s, "out" >> \in revents',
           Wr(s) \in active' => Wr(s) \in active \/ (Space(s) > 0 => s \in armed'),
           Wr(s) \in ready => Wr(s) \in ready', s \in nospace => s \in nospace',
           upsock' = upsock, wire'[To(s)] = wire[To(s)], taken'[To(s)] = taken[To(s)]
    PROVE  OutputOf(s)'
BY DEF OutputOf, Coming, Space, Established

\* The free space of a socket.
LEMMA SpaceType ==
    ASSUME Types, NEW s \in Side
    PROVE  /\ To(s) \in Dir /\ Len(wire[To(s)]) \in Nat /\ taken[To(s)] \in Nat
           /\ SockBuf \in Nat /\ SockBuf > 0 /\ Space(s) \in Int
<1>1. To(s) \in Dir
  BY DEF To, Dir
<1>2. wire[To(s)] \in Seq(Nat) /\ taken[To(s)] \in Nat
  BY <1>1 DEF Types, KernelOK
<1>3. SockBuf \in Nat /\ SockBuf > 0
  BY ConstantsAssumption
<1>4. Len(wire[To(s)]) \in Nat
  BY <1>2, LenProperties
<1> QED
  BY <1>1, <1>2, <1>3, <1>4 DEF Space

\* A new connection is writable or not yet established.
LEMMA ConnectingOutput ==
    ASSUME NEW s \in Side, OutputOf(s), Types, Connecting, step' # "done" PROVE OutputOf(s)'
<1>1. CASE ConnectAgain \/ ConnectNow
  <2>1. /\ active' = active \cup UpEvents /\ nospace' = nospace \ {"u"}
        /\ UNCHANGED <<armed, revents, wire, taken>>
        /\ ready \ UpEvents \subseteq ready'
        /\ upsock' = "inprogress" \/ (upsock' = "established" /\ "uw" \in ready')
    BY <1>1 DEF ConnectAgain, ConnectNow, NewUpstream
  <2>2. CASE s = "c"
    <3>1. Wr(s) = "cw" /\ "cw" \notin UpEvents
      BY <2>2 DEF Wr, UpEvents
    <3>2. Space(s)' = Space(s) /\ Established(s)
      BY <2>1, <2>2 DEF Space, Established
    <3> QED
      BY <2>1, <2>2, <3>1, <3>2 DEF OutputOf, Coming
  <2>3. CASE s = "u"
    BY <2>1, <2>3 DEF OutputOf, Established, Wr
  <2> QED
    BY <2>2, <2>3 DEF Side
<1>2. CASE NextUpstream
  <2>1. /\ active' = active \ UpEvents /\ armed' = armed \ {"u"} /\ upsock' = "none"
        /\ revents' = {r \in revents : r[1] # "u"}
        /\ UNCHANGED <<wire, taken, nospace, ready>>
    BY <1>2, Retried
  <2>2. CASE s = "c"
    <3>1. << s, "out" >> \in revents => << s, "out" >> \in revents'
      BY <2>1, <2>2
    <3>2. Space(s)' = Space(s) /\ Established(s)
      BY <2>1, <2>2 DEF Space, Established
    <3> QED
      BY <2>1, <2>2, <3>1, <3>2 DEF OutputOf, Coming
  <2>3. CASE s = "u"
    BY <2>1, <2>3 DEF OutputOf, Established
  <2> QED
    BY <2>2, <2>3 DEF Side
<1>3. CASE ~(ConnectAgain \/ ConnectNow \/ NextUpstream)
  <2>1. UNCHANGED <<armed, revents, active, ready, nospace, upsock, wire, taken>>
    BY <1>3, Connects DEF kernel, epoll, events
  <2> QED
    BY <2>1, OutputKept
<1> QED
  BY <1>1, <1>2, <1>3

\* Space that epoll reports stays reported until the event is ready.
LEMMA LoopOutput ==
    ASSUME NEW s \in Side, OutputOf(s), TimerInv, Loop, step' # "done" PROVE OutputOf(s)'
<1>1. UNCHANGED <<nospace, upsock, wire, taken>>
  BY LoopFrame DEF kernel
<1>2. CASE EpollWait
  <2>1. /\ UNCHANGED <<active, ready>> /\ revents = {}
        /\ revents' = {r \in armed \X {"in", "out", "rdhup"} :
                           r[2] \in Poll(r[1]) /\ (Hup(r[1]) \/ r[2] \in Interest(r[1], active))}
    BY <1>2 DEF EpollWait, events
  <2>2. s \in armed /\ Wr(s) \in active /\ Space(s) > 0 => << s, "out" >> \in revents'
    <3>1. Wr(s) \in active => "out" \in Interest(s, active)
      BY DEF Interest
    <3> QED
      BY <2>1, <3>1, Polled
  <2>3. Space(s)' = Space(s) /\ Established(s)' = Established(s)
    BY <1>1 DEF Space, Established
  <2> QED
    BY <1>1, <2>1, <2>2, <2>3 DEF OutputOf, Coming
<1>3. CASE ShutdownTimeout
  <2>1. UNCHANGED <<armed, revents, active, ready>>
    BY <1>3 DEF ShutdownTimeout, epoll
  <2> QED
    BY <1>1, <2>1, OutputKept
<1>4. ASSUME NEW t \in Side, DispatchRead(t) PROVE OutputOf(s)'
  <2>1. /\ UNCHANGED <<active, armed>> /\ revents' = revents \ {<<t, "in">>, <<t, "rdhup">>}
        /\ ready \subseteq ready'
    BY <1>4 DEF DispatchRead
  <2> QED
    BY <1>1, <2>1, OutputKept
<1>5. ASSUME NEW t \in Side, DispatchWrite(t) PROVE OutputOf(s)'
  <2>1. /\ UNCHANGED <<active, armed>> /\ ready \subseteq ready'
        /\ revents' = revents \ {<<t, "out">>, <<t, "rdhup">>}
        /\ Wr(t) \in active => Wr(t) \in ready'
    BY <1>5 DEF DispatchWrite
  <2>2. CASE s # t
    <3>1. << s, "out" >> \in revents => << s, "out" >> \in revents'
      BY <2>1, <2>2
    <3> QED
      BY <1>1, <2>1, <3>1, OutputKept
  <2>3. CASE s = t
    <3>1. Space(s)' = Space(s) /\ Established(s)' = Established(s)
      BY <1>1 DEF Space, Established
    <3> QED
      BY <1>1, <2>1, <2>3, <3>1 DEF OutputOf
  <2> QED
    BY <2>2, <2>3
<1>6. ASSUME NEW e \in Event, Handler(e) \/ DelayTimeout(e) PROVE OutputOf(s)'
  <2>1. /\ UNCHANGED <<revents, ready>>
        /\ Register({x \in {e} : Unhandled(x)}) \/ UNCHANGED <<active, armed>>
    BY <1>6, Handles
  <2>2. /\ armed \subseteq armed'
        /\ Wr(s) \in active' => Wr(s) \in active \/ (Space(s) > 0 => s \in armed')
    BY <2>1, Registers, {x \in {e} : Unhandled(x)} \subseteq Event
  <2> QED
    BY <1>1, <2>1, <2>2, OutputKept
<1> QED
  BY <1>2, <1>3, <1>4, <1>5, <1>6, NotFinal DEF Loop, IdleTimeout

\* A write stops for want of space only, and the kernel is told so.
LEMMA ProcessOutput ==
    ASSUME NEW s \in Side, OutputOf(s), Types, Process, step' # "done" PROVE OutputOf(s)'
<1>1. UNCHANGED <<upsock, taken, revents, dir>> /\ dir \in Dir
  BY ProcessFrame DEF Types, RunOK
<1>2. /\ armed \subseteq armed'
      /\ Wr(s) \in active' => Wr(s) \in active \/ (Space(s) > 0 => s \in armed')
  BY Awaits, Registers
<1>3. CASE SendBlocked
  <2>1. /\ nospace \subseteq nospace' /\ UNCHANGED <<active, armed, wire>>
        /\ Wr(Dst(dir)) \in ready =>
              ready' = ready \ {Wr(Dst(dir))} /\ Dst(dir) \in nospace'
        /\ Wr(Dst(dir)) \notin ready => ready' = ready
    BY <1>3 DEF SendBlocked, data, epoll
  <2>2. CASE s = Dst(dir) /\ Wr(s) \in ready
    BY <2>1, <2>2 DEF OutputOf
  <2>3. CASE ~(s = Dst(dir) /\ Wr(s) \in ready)
    <3>1. Wr(s) \in ready => Wr(s) \in ready'
      BY <1>1, <2>1, <2>3 DEF Wr, Dst, Dir, Side
    <3> QED
      BY <1>1, <1>2, <2>1, <3>1, OutputKept
  <2> QED
    BY <2>2, <2>3
<1>4. CASE SendBytes
  <2>1. /\ Wr(Dst(dir)) \in ready /\ UNCHANGED <<ready, nospace>>
        /\ \E t : wire' = [wire EXCEPT ![dir] = t]
    BY <1>4 DEF SendBytes, events
  <2>2. CASE s = Dst(dir)
    BY <2>1, <2>2 DEF OutputOf
  <2>3. CASE s # Dst(dir)
    <3>1. wire'[To(s)] = wire[To(s)]
      BY <1>1, <2>1, <2>3 DEF To, Dst, Dir, Side, Types, KernelOK
    <3> QED
      BY <1>1, <1>2, <2>1, <3>1, OutputKept
  <2> QED
    BY <2>2, <2>3
<1>5. CASE ~(SendBlocked \/ SendBytes)
  <2>1. UNCHANGED <<nospace, wire>> /\ (Wr(s) \in ready => Wr(s) \in ready')
    <3>1. CASE RecvData \/ RecvEnd
      <4>1. (\E n : Received(n)) /\ ready' \in {ready, ready \ {Rd(Src(dir))}}
        BY <3>1 DEF RecvData, RecvEnd
      <4> QED
        BY <4>1 DEF Received, kernel, Rd, Wr
    <3>2. CASE RecvAgain
      BY <3>2 DEF RecvAgain, kernel, Rd, Wr
    <3> QED
      BY <1>5, <3>1, <3>2, NotFinal
         DEF Process, SkipWrite, WriteFilter, SendFails, SendDone, UpdateChains, SkipRead,
             ReadLimited, RecvNoBuffer, FinishDisconnected, ShutdownFails, Finish, kernel, events
  <2> QED
    BY <1>1, <1>2, <2>1, OutputKept
<1> QED
  BY <1>3, <1>4, <1>5

\* The remote end makes space, and tells if a write was waiting for it.
LEMMA RemoteOutput ==
    ASSUME NEW s \in Side, OutputOf(s), Types, SocketInv, LiveInv, closing = {}, Remote
    PROVE  OutputOf(s)'
<1>1. UNCHANGED <<active, revents, ready, wire>> /\ armed \subseteq armed'
  BY RemoteFrame
<1>2. CASE \E t \in Side : RemoteSend(t) \/ RemoteFin(t) \/ RemoteReset(t)
  <2>1. UNCHANGED <<upsock, taken, nospace>>
    BY <1>2 DEF RemoteSend, RemoteFin, RemoteReset
  <2> QED
    BY <1>1, <2>1, OutputKept
<1>3. CASE Tick
  <2>1. UNCHANGED <<upsock, taken, nospace>>
    BY <1>3 DEF Tick, kernel
  <2> QED
    BY <1>1, <2>1, OutputKept
<1>4. ASSUME NEW t \in Side, RemoteTake(t) PROVE OutputOf(s)'
  <2>1. /\ Alive(t) /\ taken' = [taken EXCEPT ![To(t)] = Len(wire[To(t)])]
        /\ nospace' = nospace \ {t} /\ upsock' = upsock
        /\ t \in nospace => Edge(t)
    BY <1>4 DEF RemoteTake
  <2>2. CASE s # t
    <3>1. taken'[To(s)] = taken[To(s)]
      BY <2>1, <2>2 DEF To, Side, Types, KernelOK, Dir
    <3> QED
      BY <1>1, <2>1, <2>2, <3>1, OutputKept
  <2>3. CASE s = t
    <3>1. Established(s) /\ Established(s)'
      BY <2>1, <2>3 DEF Alive, Established
    <3>2. taken'[To(s)] = Len(wire[To(s)])
      BY <2>1, <2>3, SpaceType DEF Types, KernelOK
    <3>3. Space(s)' = SockBuf - (Len(wire[To(s)]) - Len(wire[To(s)]))
      BY <1>1, <3>1, <3>2 DEF Space
    <3>4. Space(s)' > 0
      BY <3>3, SpaceType
    <3>5. s \in nospace /\ Wr(s) \in active => s \in armed'
      BY <2>1, <2>3 DEF Edge, Registered
    <3> QED
      BY <1>1, <3>1, <3>4, <3>5 DEF OutputOf, Coming
  <2> QED
    BY <2>2, <2>3
<1>5. CASE ConnectCompletes
  <2>1. /\ upsock = "inprogress" /\ Edge("u") /\ UNCHANGED <<taken, nospace>>
    BY <1>5 DEF ConnectCompletes
  <2>2. CASE s = "c"
    <3>1. Space(s)' = Space(s) /\ Established(s)
      BY <1>1, <2>1, <2>2 DEF Space, Established
    <3> QED
      BY <1>1, <2>1, <3>1 DEF OutputOf, Coming
  <2>3. CASE s = "u"
    <3>1. ~connected
      BY <2>1 DEF SocketInv
    <3>2. wire["up"] = <<>> /\ Len(wire["up"]) = 0
      BY <3>1 DEF LiveInv, UnconnectedInv, Dir
    <3>3. Established(s)' => Space(s)' = SockBuf - (0 - taken["up"])
      BY <1>1, <2>1, <2>3, <3>2 DEF Space, To
    <3>4. Established(s)' => Space(s)' > 0
      <4>1. taken["up"] \in Nat /\ SockBuf \in Nat /\ SockBuf > 0
        BY <2>3, SpaceType DEF To
      <4> QED
        BY <3>3, <4>1
    <3>5. Wr(s) \in active => s \in armed'
      BY <2>1, <2>3 DEF Edge, Registered
    <3> QED
      BY <1>1, <3>4, <3>5 DEF OutputOf, Coming
  <2> QED
    BY <2>2, <2>3 DEF Side
<1> QED
  BY <1>2, <1>3, <1>4, <1>5 DEF Remote

LEMMA OutputStep ==
    ASSUME NEW s \in Side, OutputOf(s), Types, TimerInv, SocketInv, LiveInv, closing = {},
           Next, step' # "done", step # "done"
    PROVE  OutputOf(s)'
BY ConnectingOutput, LoopOutput, ProcessOutput, RemoteOutput DEF Next, Done

\* Nothing is buffered for a session that is not connected.
LEMMA NothingBuffered == ASSUME LiveInv, Types, ~connected PROVE buffered = {}
<1>1. \A d \in Dir : wf[d] = <<>> /\ step # "send"
  BY DEF LiveInv, UnconnectedInv
<1>2. \A d \in Dir : Dst(d) \notin buffered
  BY <1>1 DEF LiveInv, FlushInv
<1> QED
  BY <1>2 DEF Types, ConnsOK, Side, Dir, Dst

\* Connecting is done by a session that is not connected.
LEMMA NotYetConnected ==
    ASSUME TimerInv, Connecting, step' # "done"
    PROVE  ~connected /\ (connected' => step = "init" /\ step' = "write") /\ step \notin Relaying
<1>1. CASE ConnectAgain \/ ConnectNow
  BY <1>1 DEF ConnectAgain, ConnectNow, NewUpstream, TimerInv, Relaying, upstream
<1>2. CASE NextUpstream /\ (step = "idle" => ~connected) /\ step \in {"idle", "dial", "init"}
  BY <1>2, Retried DEF TimerInv, Relaying
<1> QED
  BY <1>1, <1>2, Connects DEF TimerInv, Relaying

\* Output that can be written is.
LEMMA OutputReadyStep ==
    ASSUME NEW s \in Side, OutputReady(s), Types, TimerInv, LiveInv, Next,
           step' # "done", step # "done"
    PROVE  OutputReady(s)'
<1>1. CASE Connecting
  <2>1. buffered = {}
    BY <1>1, NotYetConnected, NothingBuffered
  <2>2. buffered' \subseteq buffered
    BY <1>1, Connects, Retried DEF ConnectAgain, ConnectNow, NewUpstream, conns
  <2> QED
    BY <2>1, <2>2 DEF OutputReady
<1>2. CASE Loop
  <2>1. UNCHANGED <<buffered, connected>> /\ step = "idle"
    BY <1>2, LoopFrame
  <2>2. s \in buffered /\ Wr(s) \in ready /\ connected => Wr(s) \in posted
    BY <2>1 DEF OutputReady, WritesOn
  <2>3. CASE EpollWait \/ ShutdownTimeout
    BY <2>1, <2>2, <2>3 DEF EpollWait, ShutdownTimeout, OutputReady, events
  <2>4. ASSUME NEW t \in Side, DispatchRead(t) PROVE OutputReady(s)'
    <3>1. posted \subseteq posted' /\ ready' \subseteq ready \cup {Rd(t)}
      BY <2>4 DEF DispatchRead
    <3> QED
      BY <2>1, <2>2, <3>1 DEF OutputReady, Rd, Wr
  <2>5. ASSUME NEW t \in Side, DispatchWrite(t) PROVE OutputReady(s)'
    <3>1. /\ posted \subseteq posted'
          /\ ready' = ready \/ (ready' = ready \cup {Wr(t)} /\ Wr(t) \in posted')
      BY <2>5 DEF DispatchWrite
    <3> QED
      BY <2>1, <2>2, <3>1 DEF OutputReady
  <2>6. ASSUME NEW e \in Event, Handler(e) \/ DelayTimeout(e) PROVE OutputReady(s)'
    <3>1. ready' = ready /\ (Handler(e) => posted' = posted \ {e}) /\ (~Handler(e) => posted' = posted)
      BY <2>6, Handles
    <3>2. CASE Handler(e) /\ e = Wr(s) /\ connected
      <4>1. ~Reading(e) /\ DirOf(e) = To(s)
        BY <3>2 DEF Reading, DirOf, Wr, To, Side
      <4>2. step' = "write" /\ dir' = To(s) /\ dw'
        BY <3>2, <4>1, Handles
      <4> QED
        BY <4>2 DEF OutputReady, WritesOn
    <3>3. CASE ~(Handler(e) /\ e = Wr(s) /\ connected)
      BY <2>1, <2>2, <3>1, <3>3 DEF OutputReady
    <3> QED
      BY <3>2, <3>3
  <2> QED
    BY <1>2, <2>3, <2>4, <2>5, <2>6, NotFinal DEF Loop, IdleTimeout
<1>3. CASE Process
  <2>1. UNCHANGED <<posted, connected, dir>> /\ step \in Relaying /\ dir \in Dir /\ ready' \subseteq ready
    BY <1>3, ProcessFrame, Awaits DEF Types, RunOK
  <2>2. dir = To(s) <=> s = Dst(dir)
    BY <2>1 DEF To, Dst, Dir, Side
  <2>3. CASE SkipWrite
    <3>1. buffered' = buffered /\ step = "write" /\ ~Writes
      BY <2>3 DEF SkipWrite, conns
    <3>2. WritesOn(s) /\ s \in buffered /\ connected => FALSE
      BY <2>2, <3>1 DEF WritesOn, Writes, DstUp
    <3> QED
      BY <2>1, <3>1, <3>2 DEF OutputReady
  <2>4. CASE WriteFilter
    <3>1. /\ step = "write" /\ buffered' \subseteq buffered
          /\ step' = "send" \/ Dst(dir) \notin buffered'
      BY <2>4, NotFinal DEF WriteFilter
    <3> QED
      BY <2>1, <2>2, <3>1 DEF OutputReady, WritesOn
  <2>5. CASE SendBlocked
    <3>1. Wr(Dst(dir)) \notin ready' /\ buffered' = buffered \cup {Dst(dir)} /\ step = "send"
      BY <2>5 DEF SendBlocked
    <3> QED
      BY <2>1, <2>2, <3>1 DEF OutputReady, WritesOn
  <2>6. CASE SendDone
    <3>1. buffered' = buffered \ {Dst(dir)} /\ step = "send"
      BY <2>6 DEF SendDone
    <3> QED
      BY <2>1, <2>2, <3>1 DEF OutputReady, WritesOn
  <2>7. CASE SendBytes
    <3>1. UNCHANGED <<buffered, step, dw>> /\ step = "send"
      BY <2>7 DEF SendBytes, conns, run
    <3> QED
      BY SMTT(20), <2>1, <3>1 DEF OutputReady, WritesOn
  <2>8. CASE ~(SkipWrite \/ WriteFilter \/ SendBlocked \/ SendDone \/ SendBytes)
    <3>1. buffered' = buffered /\ step \notin {"write", "send"}
      <4>1. CASE RecvData \/ RecvEnd
        <5>1. (\E n : Received(n)) /\ step = "read"
          BY <4>1 DEF RecvData, RecvEnd, MayRead
        <5> QED
          BY <5>1 DEF Received, conns
      <4> QED
        BY <1>3, <2>8, <4>1, NotFinal
           DEF Process, SendFails, UpdateChains, SkipRead, ReadLimited, RecvAgain, MayRead,
               RecvNoBuffer, FinishDisconnected, ShutdownFails, Finish, conns
    <3> QED
      BY <2>1, <3>1 DEF OutputReady, WritesOn
  <2> QED
    BY <2>3, <2>4, <2>5, <2>6, <2>7, <2>8
<1>4. CASE Remote
  BY <1>4, RemoteFrame DEF OutputReady, WritesOn
<1> QED
  BY <1>1, <1>2, <1>3, <1>4 DEF Next, Done

\* A connection in error has no more input.
LEMMA ErrorStep ==
    ASSUME rerror \subseteq eof, Next, step' # "done", step # "done" PROVE rerror' \subseteq eof'
<1>1. CASE Connecting
  <2>1. CASE ConnectAgain \/ ConnectNow
    BY <2>1 DEF ConnectAgain, ConnectNow, NewUpstream
  <2> QED
    BY <1>1, <2>1, Connects, Retried DEF events
<1>2. CASE Loop
  BY <1>2, LoopFrame
<1>3. CASE Process
  <2>1. CASE RecvEnd
    BY <2>1 DEF RecvEnd
  <2>2. CASE ~RecvEnd
    BY <1>3, <2>2, NotFinal
       DEF Process, SkipWrite, WriteFilter, SendBlocked, SendFails, SendBytes, SendDone,
           UpdateChains, SkipRead, ReadLimited, RecvAgain, RecvData, RecvNoBuffer,
           FinishDisconnected, ShutdownFails, Finish, events
  <2> QED
    BY <2>1, <2>2
<1>4. CASE Remote
  BY <1>4, RemoteFrame
<1> QED
  BY <1>1, <1>2, <1>3, <1>4 DEF Next, Done

\* Input that can be read is, unless a rate limit or a full buffer forbids it.
LEMMA InputReadyStep ==
    ASSUME NEW s \in Side, InputReady(s), rerror \subseteq eof, Types, TimerInv, LiveInv, Next,
           step' # "done", step # "done"
    PROVE  InputReady(s)'
<1>1. CASE Connecting
  <2>1. /\ ~connected /\ (connected' => step = "init" /\ step' = "write") /\ step \notin Relaying
    BY <1>1, NotYetConnected
  <2>2. CASE s = "c"
    <3>1. /\ "cr" \in ready' => "cr" \in ready
          /\ "cr" \in posted => "cr" \in posted'
          /\ s \in delayed => s \in delayed'
          /\ s \in eof => s \in eof'
          /\ last' = last
      <4>1. CASE ConnectAgain \/ ConnectNow
        BY <2>2, <4>1 DEF ConnectAgain, ConnectNow, NewUpstream, UpEvents, data
      <4>2. CASE ~(ConnectAgain \/ ConnectNow)
        BY <1>1, <4>2, Connects, Retried DEF events, data, UpEvents
      <4> QED
        BY <4>1, <4>2
    <3>2. "cr" \in ready /\ s \notin eof =>
              "cr" \in posted \/ s \in delayed \/ last[From(s)] = BufSize
      BY <2>1, <2>2 DEF InputReady, ReadsOn, Rd, Relaying
    <3> QED
      BY <2>2, <3>1, <3>2 DEF InputReady, Rd
  <2>3. CASE s = "u"
    <3>1. connected' /\ "ur" \in ready' => "ur" \in posted'
      <4>1. CASE ConnectAgain \/ ConnectNow
        BY <2>1, <4>1 DEF ConnectAgain, ConnectNow, NewUpstream
      <4>2. CASE NextUpstream
        BY <2>1, <4>2, Retried
      <4> QED
        BY <1>1, <2>1, <4>1, <4>2, Connects
    <3> QED
      BY <2>3, <3>1 DEF InputReady, Rd
  <2> QED
    BY <2>2, <2>3 DEF Side
<1>2. CASE Loop
  <2>1. UNCHANGED <<eof, last, connected>> /\ step = "idle"
    BY <1>2, LoopFrame DEF data
  <2>2. Rd(s) \in ready /\ s \notin eof /\ (s = "u" => connected) =>
            Rd(s) \in posted \/ s \in delayed \/ last[From(s)] = BufSize
    BY <2>1 DEF InputReady, ReadsOn
  <2>3. CASE EpollWait \/ ShutdownTimeout
    <3>1. UNCHANGED <<ready, delayed>> /\ posted \subseteq posted'
      BY <2>3 DEF EpollWait, ShutdownTimeout, events
    <3> QED
      BY <2>1, <2>2, <3>1 DEF InputReady
  <2>4. ASSUME NEW t \in Side, DispatchRead(t) PROVE InputReady(s)'
    <3>1. /\ posted \subseteq posted' /\ delayed' = delayed
          /\ ready' = ready \/ (ready' = ready \cup {Rd(t)} /\ Rd(t) \in posted')
      BY <2>4 DEF DispatchRead
    <3> QED
      BY <2>1, <2>2, <3>1 DEF InputReady
  <2>5. ASSUME NEW t \in Side, DispatchWrite(t) PROVE InputReady(s)'
    <3>1. posted \subseteq posted' /\ ready' \subseteq ready \cup {Wr(t)} /\ delayed' = delayed
      BY <2>5 DEF DispatchWrite
    <3> QED
      BY <2>1, <2>2, <3>1 DEF InputReady, Rd, Wr
  <2>6. ASSUME NEW e \in Event, Handler(e) \/ DelayTimeout(e) PROVE InputReady(s)'
    <3>1. /\ ready' = ready
          /\ Handler(e) => posted' = posted \ {e} /\ delayed' = delayed
          /\ ~Handler(e) => /\ posted' = posted /\ delayed' = delayed \ {SideOf(e)} /\ Reading(e)
      BY <2>6, Handles
    <3>2. CASE e = Rd(s)
      <4>1. Reading(e) /\ SideOf(e) = s /\ DirOf(e) = From(s) /\ (DirOf(e) = "down" => s = "u")
        BY <3>2 DEF Reading, SideOf, DirOf, Rd, From, Side
      <4>2. \/ Handler(e) /\ SideOf(e) \in delayed
            \/ ~Handler(e) /\ e \notin ready
            \/ DirOf(e) = "down" /\ ~connected
            \/ step' = "write" /\ dir' = DirOf(e)
        BY <2>6, Handles
      <4> QED
        BY <2>1, <3>1, <3>2, <4>1, <4>2 DEF InputReady, ReadsOn
    <3>3. CASE e # Rd(s)
      <4>1. Reading(e) => SideOf(e) # s
        BY <3>3 DEF Reading, SideOf, Rd, Side
      <4> QED
        BY <2>1, <2>2, <3>1, <3>3, <4>1 DEF InputReady
    <3> QED
      BY <3>2, <3>3
  <2> QED
    BY <1>2, <2>3, <2>4, <2>5, <2>6, NotFinal DEF Loop, IdleTimeout
<1>3. CASE Process
  <2>1. UNCHANGED <<posted, connected, dir>> /\ dir \in Dir /\ ready' \subseteq ready
    BY <1>3, ProcessFrame, Awaits DEF Types, RunOK
  <2>2. dir = From(s) <=> s = Src(dir)
    BY <2>1 DEF From, Src, Dir, Side
  <2>3. last \in [Dir -> 0 .. BufSize] /\ BufSize \in Nat /\ From(s) \in Dir
    BY ConstantsAssumption DEF Types, DataOK, From, Dir
  <2>4. /\ eof \subseteq eof' /\ delayed \subseteq delayed'
        /\ \A d \in Dir : d # dir => last'[d] = last[d]
        /\ \/ step \in {"write", "send", "update"} /\ step' \in {"write", "send", "update", "read"}
           \/ RecvData \/ RecvEnd
           \/ last' = last /\ step \in {"read", "finish"}
    <3>1. CASE RecvData \/ RecvEnd
      <4>1. PICK n : Received(n) /\ eof \subseteq eof'
        BY <3>1 DEF RecvData, RecvEnd
      <4>2. delayed \subseteq delayed' /\ last' = [last EXCEPT ![dir] = @ + n]
        BY <4>1 DEF Received
      <4> QED
        BY <2>3, <3>1, <4>1, <4>2
    <3>2. CASE UpdateChains
      <4>1. /\ \E x : last' = [last EXCEPT ![dir] = x]
            /\ UNCHANGED <<eof, delayed>> /\ step = "update" /\ step' = "read"
        BY <3>2 DEF UpdateChains, events
      <4> QED
        BY <2>3, <4>1
    <3>3. CASE WriteFilter \/ SkipWrite \/ SendBlocked \/ SendBytes \/ SendDone
      BY <3>3, NotFinal
         DEF WriteFilter, SkipWrite, SendBlocked, SendBytes, SendDone, data, events, run
    <3>4. CASE SkipRead \/ ReadLimited \/ RecvAgain \/ Finish
      BY <3>4 DEF SkipRead, ReadLimited, RecvAgain, MayRead, Finish, data, events
    <3> QED
      BY <1>3, <3>1, <3>2, <3>3, <3>4, NotFinal
         DEF Process, SendFails, RecvNoBuffer, FinishDisconnected, ShutdownFails
  <2>5. CASE s # Src(dir)
    BY <2>1, <2>2, <2>3, <2>4, <2>5 DEF InputReady, ReadsOn
  <2>6. CASE s = Src(dir) /\ step' \in {"write", "send", "update", "read"}
    BY <2>1, <2>2, <2>6 DEF InputReady, ReadsOn
  <2>7. CASE s = Src(dir) /\ step' \notin {"write", "send", "update", "read"}
    <3>1. CASE SkipRead
      <4>1. ~Reads
        BY <3>1 DEF SkipRead
      <4>2. UNCHANGED <<ready, eof, delayed, last>>
        BY <3>1 DEF SkipRead, events, data
      <4>3. last[dir] = BufSize \/ Rd(s) \notin ready \/ s \in delayed \/ s \in eof
        <5>1. last[dir] \in 0 .. BufSize
          BY <2>1, <2>3
        <5>2. Room > 0 \/ last[dir] = BufSize
          BY <2>3, <5>1 DEF Room
        <5> QED
          BY <2>7, <4>1, <5>2 DEF Reads
      <4> QED
        BY <2>2, <2>7, <4>2, <4>3 DEF InputReady
    <3>2. CASE ReadLimited
      BY <2>7, <3>2 DEF ReadLimited, InputReady
    <3>3. CASE RecvAgain
      BY <2>7, <3>3 DEF RecvAgain, InputReady
    <3>4. CASE RecvData \/ RecvEnd
      <4>1. \E n : Received(n)
        BY <3>4 DEF RecvData, RecvEnd
      <4> QED
        BY <2>7, <4>1 DEF Received
    <3>5. CASE Finish
      <4>1. step = "finish" /\ UNCHANGED <<ready, eof, delayed, last>>
        BY <3>5 DEF Finish, data
      <4> QED
        BY <2>1, <4>1 DEF InputReady, ReadsOn
    <3> QED
      BY <1>3, <2>7, <3>1, <3>2, <3>3, <3>4, <3>5, NotFinal
         DEF Process, SkipWrite, WriteFilter, SendBlocked, SendFails, SendBytes, SendDone,
             UpdateChains, RecvNoBuffer, FinishDisconnected, ShutdownFails, run
  <2> QED
    BY <2>5, <2>6, <2>7
<1>4. CASE Remote
  BY <1>4, RemoteFrame DEF InputReady, ReadsOn
<1> QED
  BY <1>1, <1>2, <1>3, <1>4 DEF Next, Done

\* Every step keeps the invariant.
LEMMA EdgeStep == EdgeInv /\ RelayInv /\ Types /\ TimerInv /\ [Next]_vars => EdgeInv'
<1> SUFFICES ASSUME EdgeInv, RelayInv, Types, TimerInv, [Next]_vars, step' # "done" PROVE EdgeInv'
  BY DEF EdgeInv
<1>1. CASE UNCHANGED vars
  BY <1>1
     DEF vars, kernel, epoll, events, conns, data, upstream, run, EdgeInv, ShutdownInv, SocketInv,
         RegisteredInv, Waits, InputOf, OutputOf, OutputReady, InputReady, WritesOn, ReadsOn,
         Coming, Queued, Space, Established, RewoundInv
<1>2. CASE Next /\ step # "done"
  <2>1. /\ LiveInv /\ ShutdownInv /\ SocketInv /\ RegisteredInv /\ RewoundInv /\ rerror \subseteq eof
        /\ \A s \in Side : InputOf(s) /\ OutputReady(s) /\ InputReady(s)
        /\ closing = {} => \A s \in Side : OutputOf(s)
    BY <1>2 DEF RelayInv, EdgeInv
  <2>2. ShutdownInv' /\ SocketInv' /\ RegisteredInv' /\ RewoundInv' /\ rerror' \subseteq eof'
    BY <1>2, <2>1, ShutdownStep, SocketStep, RegisteredStep, RewoundStep, ErrorStep
  <2>3. ASSUME NEW s \in Side PROVE InputOf(s)' /\ OutputReady(s)' /\ InputReady(s)'
    BY <1>2, <2>1, InputStep, OutputReadyStep, InputReadyStep
  <2>4. ASSUME closing' = {}, NEW s \in Side PROVE OutputOf(s)'
    <3>1. closing = {}
      BY <1>2, <2>1, <2>4, NotClosing
    <3> QED
      BY <1>2, <2>1, <3>1, OutputStep
  <2> QED
    BY <2>2, <2>3, <2>4 DEF EdgeInv
<1>3. CASE Next /\ step = "done" /\ ~UNCHANGED vars
  <2>1. CASE Connecting
    BY <1>3, <2>1, Connects DEF ConnectAgain, ConnectNow, NewUpstream
  <2>2. CASE Loop \/ Process \/ Remote
    BY <1>3, <2>2, LoopFrame, ProcessFrame, RemoteFrame DEF Relaying
  <2> QED
    BY <1>3, <2>1, <2>2 DEF Next, Done
<1> QED
  BY <1>1, <1>2, <1>3

LEMMA EdgeInit == Init => EdgeInv
<1> SUFFICES ASSUME Init PROVE EdgeInv
  OBVIOUS
<1>1. /\ open = {"c"} /\ closing = {} /\ upsock = "none" /\ active = {} /\ armed = {} /\ revents = {}
      /\ posted \subseteq {"cr"} /\ ~connected /\ "cw" \in ready /\ rerror = {} /\ buffered = {}
      /\ ("cr" \in ready => "cr" \in posted) /\ step \in {"idle", "connect"}
      /\ \A d \in Dir : last[d] = 0
  BY DEF Init
<1>2. ShutdownInv /\ SocketInv /\ RegisteredInv /\ RewoundInv
  BY <1>1 DEF ShutdownInv, SocketInv, RegisteredInv, Waits, RewoundInv, UpEvents
<1>3. \A s \in Side : InputOf(s) /\ OutputOf(s) /\ OutputReady(s) /\ InputReady(s)
  BY <1>1 DEF InputOf, OutputOf, Established, OutputReady, InputReady, Rd, Wr, Side
<1> QED
  BY <1>1, <1>2, <1>3 DEF EdgeInv

\* A session at rest with an event outstanding would have noticed it.
LEMMA NothingOutstanding == EdgeInv /\ RelayInv /\ Types /\ TimerInv => NoLostEvent
<1> SUFFICES ASSUME EdgeInv, RelayInv, Types, TimerInv, Quiet, connected, NEW d \in Dir
             PROVE  /\ Dst(d) \in buffered => Dst(d) \in nospace
                    /\ (Queued(Src(d)) > 0 \/ Src(d) \in fin \cup rst) /\ Src(d) \notin eof =>
                          \/ Src(d) \in delayed /\ Rd(Src(d)) \in timer
                          \/ last[d] = BufSize /\ Dst(d) \in nospace
  BY DEF NoLostEvent
<1>1. step = "idle" /\ posted = {} /\ revents = {} /\ armed = {}
  BY DEF Quiet
<1>2. /\ LiveInv /\ ShutdownInv /\ SocketInv /\ RegisteredInv /\ RewoundInv
      /\ \A s \in Side : InputOf(s) /\ OutputReady(s) /\ InputReady(s)
      /\ closing = {} => \A s \in Side : OutputOf(s)
  BY <1>1 DEF RelayInv, EdgeInv
<1>3. closing = {} /\ upsock = "established" /\ "u" \in open
  BY <1>1, <1>2 DEF ShutdownInv, SocketInv
<1>4. /\ Src(d) \in Side /\ Dst(d) \in Side /\ From(Src(d)) = d /\ To(Dst(d)) = d
  BY DEF Src, Dst, Side, From, To, Dir
<1>5. \A s \in Side : (Rd(s) \in ready \/ Rd(s) \in active) /\ (Wr(s) \in ready \/ Wr(s) \in active)
  BY <1>1, <1>2, <1>3 DEF RegisteredInv, Waits, SocketInv, UpEvents, Rd, Wr, Side, Relaying
<1>6. \A s \in Side, x \in {"in", "out", "rdhup"} : ~Coming(s, x)
  BY <1>1 DEF Coming
<1>7. Dst(d) \in buffered => Dst(d) \in nospace
  <2> SUFFICES ASSUME Dst(d) \in buffered PROVE Dst(d) \in nospace
    OBVIOUS
  <2>1. Wr(Dst(d)) \notin ready
    BY <1>1, <1>2, <1>4 DEF OutputReady, WritesOn
  <2>2. Established(Dst(d))
    BY <1>3 DEF Established
  <2> QED
    BY <1>2, <1>3, <1>4, <1>5, <1>6, <2>1, <2>2 DEF OutputOf
<1>8. ASSUME Queued(Src(d)) > 0 \/ Src(d) \in fin \cup rst, Src(d) \notin eof
      PROVE  \/ Src(d) \in delayed /\ Rd(Src(d)) \in timer
             \/ last[d] = BufSize /\ Dst(d) \in nospace
  <2>1. Rd(Src(d)) \in ready
    BY <1>2, <1>4, <1>5, <1>6, <1>8 DEF InputOf
  <2>2. Src(d) \in delayed \/ last[d] = BufSize
    BY <1>1, <1>2, <1>4, <1>8, <2>1 DEF InputReady, ReadsOn
  <2>3. CASE Src(d) \in delayed
    BY <1>1, <1>4, <2>3 DEF TimerInv
  <2>4. CASE last[d] = BufSize
    <3>1. last[d] # 0
      BY <2>4, ConstantsAssumption
    <3>2. out[d] = <<>> /\ wf[d] = busy[d]
      BY <1>1, <1>2 DEF LiveInv, FlushInv, DataInv, FilterInv, Sending
    <3>3. wf[d] # <<>>
      BY <1>2, <3>1, <3>2 DEF RewoundInv
    <3>4. Dst(d) \in buffered
      BY <1>1, <1>2, <3>3 DEF LiveInv, FlushInv
    <3> QED
      BY <1>7, <2>4, <3>4
  <2> QED
    BY <2>2, <2>3, <2>4
<1> QED
  BY <1>7, <1>8

\* When the worker has nothing to do for a connected session, each unsent
\* output waits for space its socket has yet to get, and each unread input for
\* the timer of a rate limit or for such space: no edge of the edge triggered
\* epoll is lost between epoll_wait(), the flags ready, available and
\* pending_eof of the event, the posted queue and the handlers, for every
\* interleaving of the remote ends with them.
THEOREM NoEdgeLost == Spec => []NoLostEvent
<1> QED
  BY NothingOutstanding, EdgeInit, EdgeStep, Invariants, PTL DEF Spec

=============================================================================
