-------------------------- MODULE UdpSessionProofs --------------------------
(***************************************************************************)
(* For any number of clients and connections, any sizes and any            *)
(* configuration: no UDP session lingers, that is, one whose handlers have *)
(* returned is not one that should be over, and a timer is set that will   *)
(* end it; and the datagrams of a session are all accounted for, in order. *)
(***************************************************************************)
EXTENDS UdpSession, FiniteSetTheorems, WellFoundedInduction, TLAPS

Fields == {"state", "client", "bound", "first", "requests", "responses", "chain",
           "used", "freed", "given", "dropped", "ready", "delayed", "timer",
           "error", "replies", "refused"}

(* Inside a handler: the timers of the delays agree with the delays; the   *)
(* idle timer is whatever it was before.                                   *)
Running(s) ==
    /\ DOMAIN s = Fields
    /\ s.state \in {"free", "resolving", "open"}
    /\ s.requests \in Nat
    /\ s.delayed \subseteq {"c", "u"}
    /\ s.state = "open" => s.timer \ {"idle"} = s.delayed
    /\ s.state = "resolving" => s.timer = s.delayed

(* Between handlers: what NoneLingers says of one session, with its types *)
AtRest(s) ==
    /\ Running(s)
    /\ s.state = "open" =>
          /\ ~Complete(s)
          /\ s.bound => (conf.requests > 0 => s.requests < conf.requests)
          /\ s.timer = IF s.delayed = {} THEN {"idle"} ELSE s.delayed

LingerInv ==
    /\ conf \in Configurations
    /\ DOMAIN sess = Slots
    /\ \A i \in Slots : AtRest(sess[i])

LEMMA FreeAtRest == Running(Free) /\ AtRest(Free)
BY DEF Running, AtRest, Free, Fields

LEMMA FailingAtRest == \A s \in Failing : AtRest(s) /\ Running(s)
BY FreeAtRest DEF Failing

-----------------------------------------------------------------------------
(* The parts of a handler keep the timers and the delays in step.          *)

LEMMA WriteRuns ==
    ASSUME NEW s, Running(s)
    PROVE  \A w \in WriteUp(s) : Running(w)
<1>1. \A v : Running(v) => Running(UpdateChains(v))
  BY DEF Running, UpdateChains, Fields
<1>2. \A p : Running(Sent(s, p))
  BY DEF Running, Sent, Fields
<1>3. Running(SendTwice(s))
  BY DEF Running, SendTwice, Fields
<1> QED
  BY <1>1, <1>2, <1>3, FreeAtRest, FailingAtRest DEF WriteUp

LEMMA DelayRuns ==
    ASSUME NEW s, Running(s), NEW x \in {"c", "u"}
    PROVE  Running(Delay(s, x))
BY DEF Running, Delay, Fields

\* The end of process() leaves a session that is at rest, or has ended it.
LEMMA FinishRests ==
    ASSUME NEW s, Running(s), conf \in Configurations
    PROVE  AtRest(Finish(s))
<1> DEFINE b == Unbind(s)
<1>1. conf.requests \in Nat
  BY UdpAssumption
<1>2. Running(b)
  BY DEF Running, Unbind, Fields
<1>3. b.bound => (conf.requests > 0 => b.requests < conf.requests)
  <2>1. b.requests = s.requests /\ b.bound = (s.bound /\ (conf.requests > 0 => ~Enough(s)))
    BY DEF Unbind, Running, Fields
  <2>2. conf.requests > 0 /\ ~Enough(s) => s.requests < conf.requests
    BY <1>1 DEF Enough, Running
  <2> QED
    BY <2>1, <2>2, Zenon
<1> HIDE DEF b
<1>4. CASE s.state = "free"
  BY <1>4, FreeAtRest DEF Finish
<1>5. CASE Complete(b)
  BY <1>5, FreeAtRest DEF Finish, b
<1>6. ASSUME b.state = "open", ~Complete(b) PROVE AtRest(IdleTimer(b))
  <2> DEFINE t == IdleTimer(b)
  <2>1. /\ DOMAIN t = Fields
        /\ t.timer = IF b.delayed = {} THEN b.timer \cup {"idle"} ELSE b.timer \ {"idle"}
        /\ \A f \in Fields \ {"timer"} : t[f] = b[f]
    BY <1>2 DEF IdleTimer, Running, Fields
  <2>2. /\ t.state = b.state /\ t.requests = b.requests /\ t.delayed = b.delayed
        /\ t.bound = b.bound /\ t.responses = b.responses /\ t.chain = b.chain
    BY <2>1 DEF Fields
  <2>3. t.timer = IF t.delayed = {} THEN {"idle"} ELSE t.delayed
    BY <1>2, <1>6, <2>1, <2>2 DEF Running
  <2> HIDE DEF t
  <2>4. Running(t)
    BY <1>2, <1>6, <2>1, <2>2, <2>3 DEF Running
  <2>5. ~Complete(t)
    BY <1>6, <2>2 DEF Complete, Enough
  <2> QED
    BY <1>3, <2>2, <2>3, <2>4, <2>5 DEF AtRest, t
<1>7. CASE s.state # "free" /\ b.state # "open" /\ ~Complete(b)
  BY <1>2, <1>7 DEF Finish, AtRest, b
<1> QED
  BY <1>4, <1>5, <1>6, <1>7 DEF Finish, b

-----------------------------------------------------------------------------
(* The handlers leave sessions at rest.                                    *)

LEMMA InitUpstreamRests ==
    ASSUME NEW s, Running(s), s.state = "resolving", conf \in Configurations
    PROVE  \A t \in InitUpstream(s) : AtRest(t)
<1> DEFINE o == [PrependBuffer(s) EXCEPT !.state = "open", !.ready = TRUE]
<1>1. Running(o)
  BY DEF Running, PrependBuffer, Fields
<1> HIDE DEF o
<1> QED
  BY <1>1, WriteRuns, FinishRests, FreeAtRest DEF InitUpstream, o

LEMMA ConnectRests ==
    ASSUME NEW s, NEW n, Running(s), s.state = "resolving", conf \in Configurations
    PROVE  \A t \in Connect(s, n) : AtRest(t)
<1>1. Running(Forget(s)) /\ Forget(s).state = "resolving"
  BY DEF Running, Forget, Fields
<1> QED
  BY <1>1, InitUpstreamRests, FreeAtRest, FailingAtRest DEF Connect

LEMMA FromClientRests ==
    ASSUME NEW s, NEW n, AtRest(s), conf \in Configurations
    PROVE  \A t \in FromClient(s, n) : AtRest(t)
<1> DEFINE m == SharedRecv(n, BufSize - s.used)
<1>1. Running(s)
  BY DEF AtRest
<1>2. Running(Take(s, m))
  BY <1>1 DEF Running, Take, Fields
<1>3. Running(Delay(Take(s, m), "c")) /\ Running(Delay(s, "c"))
  BY <1>1, <1>2, DelayRuns
<1>4. \A w \in WriteUp(Take(s, m)) : Running(w)
  BY <1>2, WriteRuns
<1>5. \A w \in WriteUp(Delay(Take(s, m), "c")) : Running(w)
  BY <1>3, WriteRuns
<1> HIDE DEF m
<1>6. \A t \in FromClient(s, n) :
         t = s \/ \E w : Running(w) /\ t = Finish(w)
  BY <1>1, <1>2, <1>3, <1>4, <1>5, FailingAtRest DEF FromClient, m
<1> QED
  BY <1>6, FinishRests

LEMMA FromUpstreamRests ==
    ASSUME NEW s, Running(s), conf \in Configurations
    PROVE  \A t \in FromUpstream(s) : AtRest(t)
<1>1. \A k : Running(Pass(s, k))
  BY DEF Running, Pass, Fields
<1>2. \A k : Running(RecvError(Pass(s, k)))
  <2>1. \A v : Running(v) => Running(RecvError(v))
    BY DEF Running, RecvError, Fields
  <2> QED
    BY <1>1, <2>1
<1>3. \A k : Running(Delay(Pass(s, k), "u"))
  BY <1>1, DelayRuns
<1>4. \A r \in ReadReplies(s) : Running(r)
  <2>1. ASSUME NEW r \in ReadReplies(s)
        PROVE  \/ r = s
               \/ \E k : r \in {Pass(s, k), RecvError(Pass(s, k)), Delay(Pass(s, k), "u")}
               \/ r \in Failing
    <3>1. CASE s.error
      BY <2>1, <3>1 DEF ReadReplies
    <3>2. CASE ~s.error /\ s.refused
      BY <2>1, <3>2 DEF ReadReplies
    <3>3. CASE ~s.error /\ ~s.refused
      BY <2>1, <3>3 DEF ReadReplies
    <3> QED
      BY <3>1, <3>2, <3>3
  <2> QED
    BY <1>1, <1>2, <1>3, <2>1, FailingAtRest
<1> QED
  BY <1>4, FinishRests, FreeAtRest DEF FromUpstream

LEMMA ClientDelayRests ==
    ASSUME NEW s, AtRest(s), "c" \in s.timer, conf \in Configurations
    PROVE  AtRest(ClientDelayOver(s))
<1> DEFINE e == Expired(s, "c")
           t == ClientDelayOver(s)
<1>1. /\ DOMAIN e = Fields
      /\ e.timer = s.timer \ {"c"} /\ e.delayed = s.delayed \ {"c"}
      /\ e.state = s.state /\ e.requests = s.requests /\ e.bound = s.bound
      /\ e.responses = s.responses /\ e.chain = s.chain
  BY DEF AtRest, Running, Expired, Fields
<1> HIDE DEF e
<1>2. /\ DOMAIN t = Fields
      /\ t.delayed = e.delayed
      /\ t.state = e.state /\ t.requests = e.requests /\ t.bound = e.bound
      /\ t.responses = e.responses /\ t.chain = e.chain
      /\ t.timer = IF e.state = "open" /\ e.delayed = {} THEN e.timer \cup {"idle"} ELSE e.timer
  BY <1>1 DEF ClientDelayOver, IdleTimer, Fields, e
<1> HIDE DEF t
<1>3. s.state = "open" => s.timer = s.delayed
  BY DEF AtRest
<1>4. t.state = "open" => t.timer = IF t.delayed = {} THEN {"idle"} ELSE t.delayed
  BY <1>1, <1>2, <1>3
<1>5. Running(t)
  BY <1>1, <1>2, <1>3, <1>4 DEF AtRest, Running
<1>6. t.state = "open" => ~Complete(t)
  BY <1>1, <1>2 DEF AtRest, Complete, Enough
<1> QED
  BY <1>1, <1>2, <1>4, <1>5, <1>6 DEF AtRest, t

-----------------------------------------------------------------------------
(* The steps.                                                              *)

LEMMA UpdateRests ==
    ASSUME NEW i \in Slots, NEW results, LingerInv, conf' = conf,
           Update(i, results), \A s \in results : AtRest(s)
    PROVE  LingerInv'
<1>1. PICK r \in results : sess' = [sess EXCEPT ![i] = r]
  BY DEF Update
<1>2. ASSUME NEW j \in Slots, conf' = conf
      PROVE  AtRest(sess[j])'
  <2>1. sess'[j] = (IF j = i THEN r ELSE sess[j])
    BY <1>1 DEF LingerInv
  <2>2. AtRest(sess'[j])
    BY <1>1, <2>1 DEF LingerInv
  <2> QED
    BY <1>2, <2>2 DEF AtRest, Running, Complete, Enough
<1> QED
  BY <1>1, <1>2 DEF LingerInv, Slots

\* Steps that change no session but what waits at its upstream socket
LEMMA WaitingRests ==
    ASSUME NEW i \in Slots, LingerInv, NEW s, NEW f \in {"replies", "refused"},
           DOMAIN s = Fields, \A g \in Fields \ {f} : s[g] = sess[i][g]
    PROVE  AtRest(s)
<1>1. AtRest(sess[i])
  BY DEF LingerInv
<1>2. /\ s.state = sess[i].state /\ s.requests = sess[i].requests
      /\ s.delayed = sess[i].delayed /\ s.timer = sess[i].timer
      /\ s.bound = sess[i].bound /\ s.responses = sess[i].responses
      /\ s.chain = sess[i].chain
  BY DEF Fields
<1> QED
  BY <1>1, <1>2 DEF AtRest, Running, Complete, Enough

LEMMA InitRests == Init => LingerInv
BY FreeAtRest DEF Init, LingerInv

\* Where there is a connection there is a slot.
LEMMA FreeSlot ==
    ASSUME ConnectionsUsed < ConnectionN
    PROVE  (CHOOSE i \in Slots : sess[i].state = "free") \in Slots
<1>1. \E i \in Slots : sess[i].state = "free"
  <2> SUFFICES ASSUME \A i \in Slots : sess[i].state # "free" PROVE FALSE
    OBVIOUS
  <2>1. {i \in Slots : sess[i].state # "free"} = 1..ConnectionN
    BY DEF Slots
  <2>2. IsFiniteSet(1..ConnectionN) /\ Cardinality(1..ConnectionN) = ConnectionN
    BY FS_Interval, UdpAssumption
  <2>3. Cardinality({i \in Slots : sess[i].state = "open"}) \in Nat
    BY <2>2, FS_Subset, FS_CardinalityType DEF Slots
  <2>4. Cardinality({i \in Slots : sess[i].state # "free"}) = ConnectionN
    BY <2>1, <2>2, Zenon
  <2> QED
    BY <2>3, <2>4, UdpAssumption DEF ConnectionsUsed
<1> QED
  BY <1>1

LEMMA NextRests == LingerInv /\ [Next]_vars => LingerInv'
<1> SUFFICES ASSUME LingerInv, [Next]_vars PROVE LingerInv'
  OBVIOUS
<1>1. conf \in Configurations /\ \A i \in Slots : AtRest(sess[i]) /\ Running(sess[i])
  BY DEF LingerInv, AtRest
<1>2. ASSUME NEW cl \in Clients, NEW n \in Sizes, DatagramOfKnown(cl, n)
      PROVE  LingerInv'
  <2>1. PICK i \in Slots : Update(i, FromClient(sess[i], n))
    BY <1>2 DEF DatagramOfKnown, Known
  <2> QED
    BY <1>1, <1>2, <2>1, FromClientRests, UpdateRests DEF DatagramOfKnown
<1>3. ASSUME NEW cl \in Clients, NEW n \in Sizes, DatagramOfNew(cl, n)
      PROVE  LingerInv'
  <2> DEFINE free == CHOOSE i \in Slots : sess[i].state = "free"
             s == NewSession(cl, n)
             results == (IF conf.resolver THEN {s} ELSE Connect(s, ConnectionsUsed + 1))
                        \cup Failing
  <2>1. Running(s) /\ AtRest(s) /\ s.state = "resolving"
    BY DEF Running, AtRest, NewSession, Free, Fields
  <2>2. \A t \in results : AtRest(t)
    BY <1>1, <2>1, ConnectRests, FailingAtRest
  <2>3. Update(free, results) /\ conf' = conf
    BY <1>3 DEF DatagramOfNew
  <2>4. free \in Slots
    BY <1>3, FreeSlot DEF DatagramOfNew
  <2> HIDE DEF free, results
  <2> QED
    BY <2>2, <2>3, <2>4, UpdateRests
<1>4. ASSUME NEW i \in Slots, Resolved(i) PROVE LingerInv'
  <2>1. \A t \in Connect(sess[i], ConnectionsUsed) \cup Failing : AtRest(t)
    BY <1>1, <1>4, ConnectRests, FailingAtRest DEF Resolved
  <2> QED
    BY <1>4, <2>1, UpdateRests DEF Resolved
<1>5. ASSUME NEW i \in Slots, Reply(i) \/ Refusal(i) PROVE LingerInv'
  <2>1. PICK f \in {"replies", "refused"} :
           \E v : sess' = [sess EXCEPT ![i] = [@ EXCEPT ![f] = v]]
    BY <1>5 DEF Reply, Refusal
  <2>5. PICK v : sess' = [sess EXCEPT ![i] = [@ EXCEPT ![f] = v]]
    BY <2>1
  <2> DEFINE s == [sess[i] EXCEPT ![f] = v]
  <2>2. DOMAIN s = Fields /\ \A g \in Fields \ {f} : s[g] = sess[i][g]
    BY <1>1 DEF Running
  <2>3. AtRest(s)
    BY <2>2, WaitingRests
  <2>4. Update(i, {s}) /\ conf' = conf
    BY <1>5, <2>5 DEF Update, Reply, Refusal
  <2> HIDE DEF s
  <2> QED
    BY <2>3, <2>4, UpdateRests
<1>6. ASSUME NEW i \in Slots, UpstreamReadable(i) PROVE LingerInv'
  BY <1>1, <1>6, FromUpstreamRests, UpdateRests DEF UpstreamReadable
<1>7. ASSUME NEW i \in Slots, UpstreamWritable(i) PROVE LingerInv'
  <2> DEFINE s == [sess[i] EXCEPT !.ready = TRUE]
             results == IF exiting THEN {Free} ELSE {Finish(w) : w \in WriteUp(s)}
  <2>1. Running(s)
    BY <1>1 DEF Running, Fields
  <2> HIDE DEF s
  <2>2. \A t \in results : AtRest(t)
    BY <1>1, <2>1, WriteRuns, FinishRests, FreeAtRest
  <2>3. Update(i, results) /\ conf' = conf
    BY <1>7 DEF UpstreamWritable, s
  <2> HIDE DEF results
  <2> QED
    BY <2>2, <2>3, UpdateRests
<1>8. ASSUME NEW i \in Slots, DelayExpires(i) PROVE LingerInv'
  <2>1. CASE "c" \in sess[i].timer /\ Update(i, {ClientDelayOver(sess[i])})
    BY <1>1, <1>8, <2>1, ClientDelayRests, UpdateRests DEF DelayExpires
  <2>2. CASE "u" \in sess[i].timer /\ Update(i, FromUpstream(Expired(sess[i], "u")))
    <3>1. Running(Expired(sess[i], "u"))
      BY <1>1 DEF Running, Expired, Fields
    <3> QED
      BY <1>1, <1>8, <2>2, <3>1, FromUpstreamRests, UpdateRests DEF DelayExpires
  <2> QED
    BY <1>8, <2>1, <2>2 DEF DelayExpires
<1>9. ASSUME NEW i \in Slots, IdleExpires(i) PROVE LingerInv'
  BY <1>9, FreeAtRest, UpdateRests DEF IdleExpires
<1>10. CASE Exit \/ UNCHANGED vars
  BY <1>10 DEF Exit, vars, LingerInv, AtRest, Running, Complete, Enough, Slots
<1> QED
  BY <1>2, <1>3, <1>4, <1>5, <1>6, <1>7, <1>8, <1>9, <1>10 DEF Next

\* Between two handlers a UDP session is never one that should be over, and
\* never without the timer that ends it, whatever is lost, limited or fails.
THEOREM SessionsEnd == Spec => []NoneLingers
<1>1. LingerInv => NoneLingers
  BY DEF LingerInv, AtRest, Running, NoneLingers
<1> QED
  BY <1>1, InitRests, NextRests, PTL DEF Spec

-----------------------------------------------------------------------------
(* Induction over the natural numbers, for sets: the library's theorems    *)
(* for operators are out of the provers' reach, the well-foundedness of    *)
(* the order of finite sets is not.                                        *)

\* Among the numbers of a set there is a least one.
LEMMA LeastNumber ==
    ASSUME NEW T, T \subseteq Nat, T # {}
    PROVE  \E n \in T : \A m \in T : n <= m
<1>1. PICK k \in T : TRUE OBVIOUS
<1> DEFINE C == {0 .. m : m \in {i \in T : i <= k}}
<1>2. C \subseteq FiniteSubsetsOf(0 .. k)
  <2>1. \A m \in T : m <= k => 0 .. m \in SUBSET (0 .. k) BY <1>1
  <2>2. \A m \in T : IsFiniteSet(0 .. m) BY FS_Interval
  <2> QED BY <2>1, <2>2 DEF FiniteSubsetsOf
<1>3. C # {} BY <1>1
<1>4. IsWellFoundedOn(StrictSubsetOrdering(0 .. k), FiniteSubsetsOf(0 .. k))
  BY FS_StrictSubsetOrderingWellFounded
<1>5. PICK X \in C : \A Y \in C : <<Y, X>> \notin StrictSubsetOrdering(0 .. k)
  <2> HIDE DEF C
  <2> QED BY <1>2, <1>3, <1>4, WFMin
<1>6. PICK n \in T : n <= k /\ X = 0 .. n BY <1>5
<1>7. SUFFICES ASSUME NEW m \in T, m < n PROVE FALSE BY <1>6
<1>8. 0 .. m \in C BY <1>6, <1>7
<1>9. 0 .. m \subseteq 0 .. n /\ 0 .. m # 0 .. n
  <2>1. n \in 0 .. n /\ n \notin 0 .. m BY <1>7
  <2>2. 0 .. m \subseteq 0 .. n BY <1>7
  <2> QED BY <2>1, <2>2
<1>10. 0 .. m \in SUBSET (0 .. k) /\ 0 .. n \in SUBSET (0 .. k) BY <1>6, <1>7
<1>11. <<0 .. m, X>> \in StrictSubsetOrdering(0 .. k)
  BY <1>6, <1>9, <1>10 DEF StrictSubsetOrdering
<1> QED BY <1>5, <1>8, <1>11

\* Induction, for a set of numbers
LEMMA NumbersInduction ==
    ASSUME NEW T, 0 \in T, \A n \in Nat : n \in T => n + 1 \in T
    PROVE  \A n \in Nat : n \in T
<1> SUFFICES ASSUME NEW k \in Nat, k \notin T PROVE FALSE OBVIOUS
<1> DEFINE N == {i \in Nat : i \notin T}
<1>1. PICK n \in N : \A m \in N : n <= m
  <2>1. N \subseteq Nat /\ N # {} OBVIOUS
  <2> HIDE DEF N
  <2> QED BY <2>1, LeastNumber
<1>2. n # 0 /\ n - 1 \in Nat BY <1>1
<1>3. n - 1 \notin N BY <1>1, <1>2
<1>4. n - 1 + 1 = n BY <1>1
<1> QED BY <1>1, <1>2, <1>3, <1>4

-----------------------------------------------------------------------------
(* Sequences of numbers that rise                                          *)

Rising(q) == \A j, k \in DOMAIN q : j < k => q[j] < q[k]

\* One more, above all there are
LEMMA RisingAppend ==
    ASSUME NEW q \in Seq(Nat), Rising(q), NEW x \in Nat, \A y \in ToSet(q) : y < x
    PROVE  /\ Append(q, x) \in Seq(Nat) /\ Rising(Append(q, x))
           /\ ToSet(Append(q, x)) = ToSet(q) \cup {x}
<1> DEFINE r == Append(q, x)
           n == Len(q)
<1>1. /\ n \in Nat /\ DOMAIN q = 1..n /\ \A i \in 1..n : q[i] \in Nat
      /\ r \in Seq(Nat) /\ Len(r) = n + 1 /\ DOMAIN r = 1..(n + 1)
      /\ \A i \in 1..n : r[i] = q[i]
      /\ r[n + 1] = x
  OBVIOUS
<1> HIDE DEF r, n
<1>2. \A i \in 1..n : q[i] < x
  BY <1>1 DEF ToSet
<1>3. Rising(r)
  <2> SUFFICES ASSUME NEW j \in 1..(n + 1), NEW k \in 1..(n + 1), j < k PROVE r[j] < r[k]
    BY <1>1 DEF Rising
  <2>1. CASE k = n + 1
    BY <1>1, <1>2, <2>1
  <2>2. CASE k # n + 1
    <3>1. j \in 1..n /\ k \in 1..n BY <1>1, <2>2
    <3> QED BY <1>1, <3>1 DEF Rising
  <2> QED BY <2>1, <2>2
<1>4. ToSet(r) = ToSet(q) \cup {x}
  <2>1. ASSUME NEW y \in ToSet(r) PROVE y \in ToSet(q) \cup {x}
    <3>1. PICK i \in 1..(n + 1) : y = r[i] BY <1>1 DEF ToSet
    <3>2. CASE i = n + 1 BY <1>1, <3>1, <3>2
    <3>3. CASE i # n + 1
      <4>1. i \in 1..n BY <1>1, <3>3
      <4> QED BY <1>1, <3>1, <4>1 DEF ToSet
    <3> QED BY <3>2, <3>3
  <2>2. ASSUME NEW y \in ToSet(q) \cup {x} PROVE y \in ToSet(r)
    <3>1. CASE y = x
      <4>1. n + 1 \in 1..(n + 1) BY <1>1
      <4> QED BY <1>1, <3>1, <4>1 DEF ToSet
    <3>2. CASE y \in ToSet(q)
      <4>1. PICK i \in 1..n : y = q[i] BY <1>1, <3>2 DEF ToSet
      <4>2. i \in 1..(n + 1) /\ y = r[i] BY <1>1, <4>1
      <4> QED BY <1>1, <4>2 DEF ToSet
    <3> QED BY <2>2, <3>1, <3>2
  <2> QED BY <2>1, <2>2
<1> QED
  BY <1>1, <1>3, <1>4 DEF r

\* One after the other
LEMMA RisingConcat ==
    ASSUME NEW a \in Seq(Nat), NEW b \in Seq(Nat)
    PROVE  /\ a \o b \in Seq(Nat)
           /\ ToSet(a \o b) = ToSet(a) \cup ToSet(b)
           /\ Rising(a) /\ Rising(b) /\ (\A x \in ToSet(a), y \in ToSet(b) : x < y)
                 => Rising(a \o b)
<1> DEFINE r == a \o b
           m == Len(a)
           n == Len(b)
<1>1. /\ m \in Nat /\ DOMAIN a = 1..m
      /\ n \in Nat /\ DOMAIN b = 1..n
      /\ r \in Seq(Nat) /\ DOMAIN r = 1..(m + n)
      /\ \A i \in 1..m : r[i] = a[i]
      /\ \A i \in 1..n : r[m + i] = b[i]
  OBVIOUS
<1> HIDE DEF r, m, n
<1>2. ASSUME NEW i \in 1..(m + n), i \notin 1..m
      PROVE  i - m \in 1..n /\ r[i] = b[i - m]
  <2>1. i - m \in 1..n /\ m + (i - m) = i BY <1>1, <1>2
  <2> QED BY <1>1, <2>1
<1>3. ToSet(r) = ToSet(a) \cup ToSet(b)
  <2>1. ASSUME NEW y \in ToSet(r) PROVE y \in ToSet(a) \cup ToSet(b)
    <3>1. PICK i \in 1..(m + n) : y = r[i] BY <1>1 DEF ToSet
    <3>2. CASE i \in 1..m BY <1>1, <3>1, <3>2 DEF ToSet
    <3>3. CASE i \notin 1..m BY <1>1, <1>2, <3>1, <3>3 DEF ToSet
    <3> QED BY <3>2, <3>3
  <2>2. ASSUME NEW y \in ToSet(a) PROVE y \in ToSet(r)
    <3>1. PICK i \in 1..m : y = a[i] BY <1>1, <2>2 DEF ToSet
    <3>2. i \in 1..(m + n) /\ y = r[i] BY <1>1, <3>1
    <3> QED BY <1>1, <3>2 DEF ToSet
  <2>3. ASSUME NEW y \in ToSet(b) PROVE y \in ToSet(r)
    <3>1. PICK i \in 1..n : y = b[i] BY <1>1, <2>3 DEF ToSet
    <3>2. m + i \in 1..(m + n) /\ y = r[m + i] BY <1>1, <3>1
    <3> QED BY <1>1, <3>2 DEF ToSet
  <2> QED BY <2>1, <2>2, <2>3
<1>4. ASSUME Rising(a), Rising(b), \A x \in ToSet(a), y \in ToSet(b) : x < y
      PROVE  Rising(r)
  <2> SUFFICES ASSUME NEW j \in 1..(m + n), NEW k \in 1..(m + n), j < k PROVE r[j] < r[k]
    BY <1>1 DEF Rising
  <2>1. CASE k \in 1..m
    <3>1. j \in 1..m BY <1>1, <2>1
    <3> QED BY <1>1, <1>4, <2>1, <3>1 DEF Rising
  <2>2. CASE j \notin 1..m
    <3>1. k \notin 1..m BY <1>1, <2>2
    <3>2. /\ j - m \in 1..n /\ r[j] = b[j - m]
          /\ k - m \in 1..n /\ r[k] = b[k - m]
      BY <1>2, <2>2, <3>1
    <3>3. j - m < k - m BY <1>1
    <3> QED BY <1>1, <1>4, <3>2, <3>3 DEF Rising
  <2>3. CASE j \in 1..m /\ k \notin 1..m
    <3>1. r[j] \in ToSet(a) BY <1>1, <2>3 DEF ToSet
    <3>2. r[k] \in ToSet(b) BY <1>1, <1>2, <2>3 DEF ToSet
    <3> QED BY <1>4, <3>1, <3>2
  <2> QED BY <2>1, <2>2, <2>3
<1> QED
  BY <1>1, <1>3, <1>4 DEF r

-----------------------------------------------------------------------------
(* The datagrams of a session: given is what was sent, q what waits, d     *)
(* what was dropped, r how many were counted.                              *)

Chains == Seq([id : Nat, size : Int])

Increasing(q) == \A j, k \in DOMAIN q : j < k => q[j].id < q[k].id

Accounted(given, q, d, r) ==
    /\ Rising(given) /\ Increasing(q)
    /\ \A x \in ToSet(given), y \in Ids(q) : x < y
    /\ ToSet(given) \cup Ids(q) \cup d = 1..r
    /\ ToSet(given) \cap d = {} /\ Ids(q) \cap d = {}
    /\ 1 \notin d

LEMMA ChainFacts ==
    ASSUME NEW q \in Chains
    PROVE  /\ Len(q) \in Nat /\ DOMAIN q = 1..Len(q)
           /\ \A k \in 1..Len(q) : q[k].id \in Nat /\ q[k].id \in Ids(q)
           /\ Ids(q) \subseteq Nat
           /\ \A y \in Ids(q) : \E k \in 1..Len(q) : y = q[k].id
<1>1. Len(q) \in Nat /\ DOMAIN q = 1..Len(q) BY DEF Chains
<1>2. \A k \in 1..Len(q) : q[k] \in [id : Nat, size : Int]
  <2>1. ASSUME NEW S, q \in Seq(S) PROVE \A k \in 1..Len(q) : q[k] \in S
    BY <2>1
  <2> QED BY <2>1 DEF Chains
<1>3. \A k \in 1..Len(q) : q[k].id \in Nat /\ q[k].id \in Ids(q) BY <1>1, <1>2 DEF Ids
<1>4. \A y \in Ids(q) : \E k \in 1..Len(q) : y = q[k].id BY <1>1 DEF Ids
<1> QED BY <1>1, <1>3, <1>4

(* What SentIds computes *)
Filters(g, q, p) ==
    g = [k \in 0..p |-> IF k = 0 THEN <<>>
                        ELSE IF k = 1 \/ q[k].size > 0 THEN Append(g[k - 1], q[k].id)
                        ELSE g[k - 1]]

KeptOf(q, p) == {q[j].id : j \in {i \in 1..p : i = 1 \/ q[i].size > 0}}

LEMMA FilterExists == ASSUME NEW q, NEW p \in Nat PROVE \E g : Filters(g, q, p)
<1> DEFINE T == {n \in Nat : \E g : Filters(g, q, n)}
<1>1. 0 \in T
  <2> DEFINE g == [k \in 0..0 |-> <<>>]
  <2>1. g = [k \in 0..0 |-> IF k = 0 THEN <<>>
                            ELSE IF k = 1 \/ q[k].size > 0 THEN Append(g[k - 1], q[k].id)
                            ELSE g[k - 1]]
    OBVIOUS
  <2> HIDE DEF g
  <2> QED BY <2>1 DEF Filters
<1>2. ASSUME NEW n \in Nat, n \in T PROVE n + 1 \in T
  <2>1. PICK g : Filters(g, q, n) BY <1>2
  <2> DEFINE h == [k \in 0..(n + 1) |->
                     IF k # n + 1 THEN g[k]
                     ELSE IF k = 1 \/ q[k].size > 0 THEN Append(g[n], q[k].id) ELSE g[n]]
  <2>2. \A k \in 0..n : h[k] = g[k] OBVIOUS
  <2>3. h[n + 1] = IF n + 1 = 1 \/ q[n + 1].size > 0 THEN Append(g[n], q[n + 1].id) ELSE g[n]
    OBVIOUS
  <2>4. DOMAIN h = 0..(n + 1) /\ h = [k \in 0..(n + 1) |-> h[k]] OBVIOUS
  <2> HIDE DEF h
  <2>5. ASSUME NEW k \in 0..(n + 1)
        PROVE  h[k] = IF k = 0 THEN <<>>
                      ELSE IF k = 1 \/ q[k].size > 0 THEN Append(h[k - 1], q[k].id)
                      ELSE h[k - 1]
    <3>1. CASE k = n + 1
      <4>1. n \in 0..n /\ k - 1 = n /\ k # 0 BY <3>1
      <4> QED BY <2>2, <2>3, <3>1, <4>1
    <3>2. CASE k # n + 1
      <4>1. k \in 0..n BY <3>2
      <4>2. k # 0 => k - 1 \in 0..n BY <4>1
      <4>3. g[k] = IF k = 0 THEN <<>>
                   ELSE IF k = 1 \/ q[k].size > 0 THEN Append(g[k - 1], q[k].id)
                   ELSE g[k - 1]
        BY <2>1, <4>1 DEF Filters
      <4> QED BY <2>2, <4>1, <4>2, <4>3
    <3> QED BY <3>1, <3>2
  <2>6. Filters(h, q, n + 1) BY <2>4, <2>5 DEF Filters
  <2> QED BY <2>6
<1> HIDE DEF T
<1>3. p \in T BY <1>1, <1>2, NumbersInduction
<1> QED BY <1>3 DEF T

LEMMA FilterKeeps ==
    ASSUME NEW q \in Chains, Increasing(q), NEW p \in 0..Len(q), NEW g, Filters(g, q, p)
    PROVE  g[p] \in Seq(Nat) /\ Rising(g[p]) /\ ToSet(g[p]) = KeptOf(q, p)
<1> DEFINE Good(k) == g[k] \in Seq(Nat) /\ Rising(g[k]) /\ ToSet(g[k]) = KeptOf(q, k)
           T == {k \in Nat : k <= p => Good(k)}
<1>1. Len(q) \in Nat /\ DOMAIN q = 1..Len(q) /\ p \in Nat /\ p <= Len(q)
      /\ \A k \in 1..Len(q) : q[k].id \in Nat
  BY ChainFacts
<1>2. 0 \in T
  <2>1. g[0] = <<>> BY <1>1 DEF Filters
  <2>2. <<>> \in Seq(Nat) /\ Rising(<<>>) /\ ToSet(<<>>) = {} BY DEF Rising, ToSet
  <2>3. KeptOf(q, 0) = {} BY DEF KeptOf
  <2> QED BY <2>1, <2>2, <2>3
<1>3. ASSUME NEW n \in Nat, n \in T, n + 1 <= p PROVE Good(n + 1)
  <2> DEFINE k == n + 1
  <2>1. Good(n) BY <1>1, <1>3
  <2>2. k \in 1..Len(q) /\ k \in 0..p /\ k - 1 = n /\ k # 0 BY <1>1, <1>3
  <2>3. g[k] = IF k = 1 \/ q[k].size > 0 THEN Append(g[n], q[k].id) ELSE g[n]
    BY <2>2 DEF Filters
  <2>4. KeptOf(q, k) = IF k = 1 \/ q[k].size > 0 THEN KeptOf(q, n) \cup {q[k].id}
                                                  ELSE KeptOf(q, n)
    <3>1. \A j : j \in 1..k <=> j \in 1..n \/ j = k BY <1>3
    <3> QED BY <3>1, Zenon DEF KeptOf
  <2>5. ASSUME NEW y \in KeptOf(q, n) PROVE y < q[k].id
    <3>1. PICK j \in 1..n : y = q[j].id BY DEF KeptOf
    <3>2. j \in DOMAIN q /\ k \in DOMAIN q /\ j < k BY <1>1, <1>3, <3>1, <2>2
    <3> QED BY <3>1, <3>2 DEF Increasing
  <2>6. q[k].id \in Nat BY <1>1, <2>2
  <2> HIDE DEF k
  <2>7. CASE k = 1 \/ q[k].size > 0
    <3>1. \A y \in ToSet(g[n]) : y < q[k].id BY <2>1, <2>5
    <3>2. /\ Append(g[n], q[k].id) \in Seq(Nat) /\ Rising(Append(g[n], q[k].id))
          /\ ToSet(Append(g[n], q[k].id)) = ToSet(g[n]) \cup {q[k].id}
      BY <2>1, <2>6, <3>1, RisingAppend
    <3> QED BY <2>1, <2>3, <2>4, <2>7, <3>2 DEF k
  <2>8. CASE ~(k = 1 \/ q[k].size > 0)
    BY <2>1, <2>3, <2>4, <2>8 DEF k
  <2> QED BY <2>7, <2>8
<1>4. \A n \in Nat : n \in T => n + 1 \in T BY <1>3
<1> HIDE DEF T
<1>5. p \in T BY <1>1, <1>2, <1>4, NumbersInduction
<1> QED BY <1>5 DEF T

\* The first datagram and those with data are sent, in their order.
LEMMA SentIdsOf ==
    ASSUME NEW q \in Chains, Increasing(q), NEW p \in 0..Len(q)
    PROVE  /\ SentIds(q, p) \in Seq(Nat) /\ Rising(SentIds(q, p))
           /\ ToSet(SentIds(q, p)) = KeptOf(q, p)
<1> DEFINE g == CHOOSE g : Filters(g, q, p)
<1>1. p \in Nat BY ChainFacts
<1>2. Filters(g, q, p) BY <1>1, FilterExists
<1>3. SentIds(q, p) = g[p] BY DEF SentIds, Filters
<1> HIDE DEF g
<1> QED BY <1>2, <1>3, FilterKeeps

-----------------------------------------------------------------------------
(* Each operation keeps the account.                                       *)

LEMMA TakeAccounts ==
    ASSUME NEW G, NEW q \in Chains, NEW D, NEW r \in Nat, NEW n \in Int,
           Accounted(G, q, D, r), G \in Seq(Nat)
    PROVE  LET e == Append(q, [id |-> r + 1, size |-> n])
           IN e \in Chains /\ Accounted(G, e, D, r + 1)
<1> DEFINE x == [id |-> r + 1, size |-> n]
           e == Append(q, x)
           m == Len(q)
<1>1. /\ m \in Nat /\ DOMAIN q = 1..m
      /\ x \in [id : Nat, size : Int] /\ x.id = r + 1
      /\ e \in Chains /\ DOMAIN e = 1..(m + 1)
      /\ \A k \in 1..m : e[k] = q[k]
      /\ e[m + 1] = x
  BY DEF Chains
<1>2. /\ \A k \in 1..m : q[k].id \in Nat /\ q[k].id \in Ids(q)
      /\ \A y \in Ids(q) : \E k \in 1..m : y = q[k].id
  BY ChainFacts
<1> HIDE DEF x, e, m
<1>3. \A y \in ToSet(G) \cup Ids(q) \cup D : y \in 1..r BY DEF Accounted
<1>4. Increasing(e)
  <2> SUFFICES ASSUME NEW j \in 1..(m + 1), NEW k \in 1..(m + 1), j < k PROVE e[j].id < e[k].id
    BY <1>1 DEF Increasing
  <2>1. j \in 1..m BY <1>1
  <2>2. CASE k = m + 1
    <3>1. q[j].id \in 1..r BY <1>2, <1>3, <2>1
    <3> QED BY <1>1, <2>1, <2>2, <3>1
  <2>3. CASE k # m + 1
    <3>1. k \in 1..m BY <1>1, <2>3
    <3> QED BY <1>1, <2>1, <3>1 DEF Increasing, Accounted
  <2> QED BY <2>2, <2>3
<1>5. Ids(e) = Ids(q) \cup {r + 1}
  <2>1. ASSUME NEW y \in Ids(e) PROVE y \in Ids(q) \cup {r + 1}
    <3>1. PICK k \in 1..(m + 1) : y = e[k].id BY <1>1 DEF Ids
    <3>2. CASE k \in 1..m BY <1>1, <1>2, <3>1, <3>2
    <3>3. CASE k \notin 1..m
      <4>1. k = m + 1 BY <1>1, <3>3
      <4> QED BY <1>1, <3>1, <4>1
    <3> QED BY <3>2, <3>3
  <2>2. \A k \in 1..(m + 1) : e[k].id \in Ids(e) BY <1>1 DEF Ids
  <2>3. r + 1 \in Ids(e)
    <3>1. m + 1 \in 1..(m + 1) BY <1>1
    <3> QED BY <1>1, <2>2, <3>1
  <2>4. ASSUME NEW y \in Ids(q) PROVE y \in Ids(e)
    <3>1. PICK k \in 1..m : y = q[k].id BY <1>2
    <3>2. k \in 1..(m + 1) /\ e[k] = q[k] BY <1>1
    <3> QED BY <2>2, <3>1, <3>2
  <2> QED BY <2>1, <2>3, <2>4
<1>6. 1..(r + 1) = 1..r \cup {r + 1} /\ r + 1 \notin 1..r OBVIOUS
<1>7. ToSet(G) \cup Ids(e) \cup D = 1..(r + 1) BY <1>5, <1>6 DEF Accounted
<1>8. ToSet(G) \cap D = {} /\ Ids(e) \cap D = {} /\ 1 \notin D
  BY <1>3, <1>5, <1>6 DEF Accounted
<1>9. ASSUME NEW y \in ToSet(G), NEW z \in Ids(e) PROVE y < z
  <2>1. CASE z \in Ids(q) BY <2>1 DEF Accounted
  <2>2. CASE z = r + 1
    <3>1. y \in 1..r BY <1>3
    <3> QED BY <2>2, <3>1
  <2> QED BY <1>5, <2>1, <2>2
<1>10. Accounted(G, e, D, r + 1)
  BY <1>4, <1>7, <1>8, <1>9 DEF Accounted
<1> QED BY <1>1, <1>10 DEF e, x

\* The two parts of a chain that is cut
LEMMA CutChain ==
    ASSUME NEW q \in Chains, NEW p \in 0..Len(q)
    PROVE  LET gone == SubSeq(q, 1, p)
               rest == SubSeq(q, p + 1, Len(q))
           IN /\ rest \in Chains
              /\ Ids(gone) = {q[j].id : j \in 1..p}
              /\ DOMAIN rest = 1..(Len(q) - p)
              /\ \A j \in 1..(Len(q) - p) : rest[j] = q[p + j]
              /\ Ids(rest) = {q[j].id : j \in (p + 1)..Len(q)}
<1> DEFINE gone == SubSeq(q, 1, p)
           rest == SubSeq(q, p + 1, Len(q))
           m == Len(q)
<1>1. m \in Nat /\ DOMAIN q = 1..m /\ p \in Nat /\ p <= m BY ChainFacts
<1>2. DOMAIN gone = 1..p /\ \A j \in 1..p : gone[j] = q[j]
  BY <1>1 DEF Chains
<1>3. rest \in Chains /\ DOMAIN rest = 1..(m - p) /\ \A j \in 1..(m - p) : rest[j] = q[p + j]
  <2>1. ASSUME NEW S, q \in Seq(S) PROVE rest \in Seq(S)
    BY <1>1, <2>1
  <2>2. DOMAIN rest = 1..(m - p) /\ \A j \in 1..(m - p) : rest[j] = q[p + j]
    BY <1>1 DEF Chains
  <2> QED BY <2>1, <2>2 DEF Chains
<1> HIDE DEF gone, rest, m
<1>4. Ids(gone) = {q[j].id : j \in 1..p} BY <1>2 DEF Ids
<1>5. Ids(rest) = {q[j].id : j \in (p + 1)..m}
  <2>1. ASSUME NEW y \in Ids(rest) PROVE y \in {q[j].id : j \in (p + 1)..m}
    <3>1. PICK j \in 1..(m - p) : y = rest[j].id BY <1>3 DEF Ids
    <3>2. p + j \in (p + 1)..m BY <1>1
    <3> QED BY <1>3, <3>1, <3>2
  <2>2. ASSUME NEW j \in (p + 1)..m PROVE q[j].id \in Ids(rest)
    <3>1. j - p \in 1..(m - p) /\ p + (j - p) = j BY <1>1
    <3>2. rest[j - p] = q[j] BY <1>3, <3>1
    <3> QED BY <1>3, <3>1, <3>2 DEF Ids
  <2> QED BY <2>1, <2>2
<1> QED BY <1>3, <1>4, <1>5 DEF gone, rest, m

LEMMA SentAccounts ==
    ASSUME NEW G \in Seq(Nat), NEW q \in Chains, NEW D, NEW r \in Nat,
           NEW p \in 0..Len(q), Accounted(G, q, D, r)
    PROVE  /\ G \o SentIds(q, p) \in Seq(Nat)
           /\ SubSeq(q, p + 1, Len(q)) \in Chains
           /\ Accounted(G \o SentIds(q, p), SubSeq(q, p + 1, Len(q)),
                        D \cup (Ids(SubSeq(q, 1, p)) \ ToSet(SentIds(q, p))), r)
<1> DEFINE out == SentIds(q, p)
           rest == SubSeq(q, p + 1, Len(q))
           gone == Ids(SubSeq(q, 1, p))
           m == Len(q)
<1>1. m \in Nat /\ DOMAIN q = 1..m /\ p \in Nat /\ p <= m
      /\ (\A k \in 1..m : q[k].id \in Nat /\ q[k].id \in Ids(q))
      /\ (\A y \in Ids(q) : \E k \in 1..m : y = q[k].id)
  BY ChainFacts
<1>2. out \in Seq(Nat) /\ Rising(out) /\ ToSet(out) = KeptOf(q, p)
  BY SentIdsOf DEF Accounted
<1>3. /\ rest \in Chains
      /\ gone = {q[j].id : j \in 1..p}
      /\ DOMAIN rest = 1..(m - p)
      /\ \A j \in 1..(m - p) : rest[j] = q[p + j]
      /\ Ids(rest) = {q[j].id : j \in (p + 1)..m}
  BY CutChain
<1> HIDE DEF out, rest, gone, m
<1>4. ToSet(out) \subseteq gone BY <1>2, <1>3 DEF KeptOf
<1>5. gone \cup Ids(rest) = Ids(q)
  <2>1. \A j : j \in 1..m <=> j \in 1..p \/ j \in (p + 1)..m BY <1>1
  <2> QED BY <1>1, <1>3, <2>1
<1>6. ASSUME NEW x \in gone, NEW y \in Ids(rest) PROVE x < y
  <2>1. PICK j \in 1..p : x = q[j].id BY <1>3
  <2>2. PICK k \in (p + 1)..m : y = q[k].id BY <1>3
  <2>3. j \in 1..m /\ k \in 1..m /\ j < k BY <1>1
  <2> QED BY <1>1, <2>1, <2>2, <2>3 DEF Accounted, Increasing
<1>7. Increasing(rest)
  <2> SUFFICES ASSUME NEW j \in 1..(m - p), NEW k \in 1..(m - p), j < k
               PROVE  rest[j].id < rest[k].id
    BY <1>3 DEF Increasing
  <2>1. p + j \in 1..m /\ p + k \in 1..m /\ p + j < p + k BY <1>1
  <2>2. \A a, b \in 1..m : a < b => q[a].id < q[b].id BY <1>1 DEF Accounted, Increasing
  <2>3. q[p + j].id < q[p + k].id BY <2>1, <2>2
  <2> QED BY <1>3, <2>3
<1>8. ASSUME 1 \in gone PROVE 1 \in ToSet(out)
  <2>1. PICK j \in 1..p : 1 = q[j].id BY <1>3, <1>8
  <2>2. CASE j = 1 BY <1>2, <2>1, <2>2 DEF KeptOf
  <2>3. CASE j # 1
    <3>1. 1 \in 1..m /\ j \in 1..m /\ 1 < j BY <1>1, <2>3
    <3>2. q[1].id < 1 BY <1>1, <2>1, <3>1 DEF Accounted, Increasing
    <3>3. q[1].id \in 1..r BY <1>1, <3>1 DEF Accounted
    <3> QED BY <3>2, <3>3
  <2> QED BY <2>2, <2>3
<1>9. G \o out \in Seq(Nat) /\ ToSet(G \o out) = ToSet(G) \cup ToSet(out) /\ Rising(G \o out)
  <2>1. \A x \in ToSet(G), y \in ToSet(out) : x < y BY <1>4, <1>5 DEF Accounted
  <2>2. Rising(G) BY DEF Accounted
  <2> QED BY <1>2, <2>1, <2>2, RisingConcat
<1>10. \A x \in ToSet(G \o out), y \in Ids(rest) : x < y
  BY <1>4, <1>5, <1>6, <1>9 DEF Accounted
<1>11. ToSet(G) \cap Ids(q) = {}
  <2>1. ASSUME NEW x \in ToSet(G), x \in Ids(q) PROVE FALSE
    <3>1. x < x /\ x \in 1..r BY <2>1 DEF Accounted
    <3> QED BY <3>1
  <2> QED BY <2>1
<1>12. gone \cap Ids(rest) = {}
  <2>1. ASSUME NEW x \in gone, x \in Ids(rest) PROVE FALSE
    <3>1. x < x /\ x \in 1..r BY <1>5, <1>6, <2>1 DEF Accounted
    <3> QED BY <3>1
  <2> QED BY <2>1
<1> DEFINE d == D \cup (gone \ ToSet(out))
<1>13. ToSet(G \o out) \cup Ids(rest) \cup d = 1..r
  BY <1>4, <1>5, <1>9 DEF Accounted
<1>14. ToSet(G \o out) \cap d = {} /\ Ids(rest) \cap d = {} /\ 1 \notin d
  BY <1>4, <1>5, <1>8, <1>9, <1>11, <1>12 DEF Accounted
<1> HIDE DEF d
<1>15. Accounted(G \o out, rest, d, r)
  BY <1>7, <1>9, <1>10, <1>13, <1>14 DEF Accounted
<1> QED BY <1>3, <1>9, <1>15 DEF out, rest, gone, d, m

LEMMA PrependAccounts ==
    ASSUME NEW q \in Chains, NEW D, NEW r \in Nat, NEW n \in Int, Accounted(<< 1 >>, q, D, r)
    PROVE  LET e == <<[id |-> 1, size |-> n]>> \o q
           IN e \in Chains /\ Accounted(<<>>, e, D, r)
<1> DEFINE x == [id |-> 1, size |-> n]
           e == <<x>> \o q
           m == Len(q)
<1>1. /\ m \in Nat /\ DOMAIN q = 1..m
      /\ x \in [id : Nat, size : Int] /\ x.id = 1
      /\ e \in Chains /\ DOMAIN e = 1..(m + 1)
      /\ \A k \in 2..(m + 1) : e[k] = q[k - 1]
      /\ e[1] = x
  BY DEF Chains
<1>2. /\ \A k \in 1..m : q[k].id \in Nat /\ q[k].id \in Ids(q)
      /\ \A y \in Ids(q) : \E k \in 1..m : y = q[k].id
  BY ChainFacts
<1> HIDE DEF x, e, m
<1>3. ToSet(<<1>>) = {1} BY DEF ToSet
<1>4. \A y \in Ids(q) : 1 < y BY <1>3 DEF Accounted
<1>5. Increasing(e)
  <2> SUFFICES ASSUME NEW j \in 1..(m + 1), NEW k \in 1..(m + 1), j < k PROVE e[j].id < e[k].id
    BY <1>1 DEF Increasing
  <2>1. k \in 2..(m + 1) /\ k - 1 \in 1..m BY <1>1
  <2>2. CASE j = 1
    <3>1. 1 < q[k - 1].id BY <1>2, <1>4, <2>1
    <3> QED BY <1>1, <2>1, <2>2, <3>1
  <2>3. CASE j # 1
    <3>1. j \in 2..(m + 1) /\ j - 1 \in 1..m /\ j - 1 < k - 1 BY <1>1, <2>3
    <3> QED BY <1>1, <2>1, <3>1 DEF Accounted, Increasing
  <2> QED BY <2>2, <2>3
<1>6. Ids(e) = {1} \cup Ids(q)
  <2>1. ASSUME NEW k \in 1..(m + 1) PROVE e[k].id \in {1} \cup Ids(q)
    <3>1. CASE k = 1 BY <1>1, <3>1
    <3>2. CASE k # 1
      <4>1. k \in 2..(m + 1) /\ k - 1 \in 1..m BY <1>1, <3>2
      <4> QED BY <1>1, <1>2, <4>1
    <3> QED BY <3>1, <3>2
  <2>2. ASSUME NEW y \in Ids(e) PROVE y \in {1} \cup Ids(q)
    <3>1. PICK k \in 1..(m + 1) : y = e[k].id BY <1>1, <2>2 DEF Ids
    <3> QED BY <2>1, <3>1
  <2>3. 1 \in Ids(e)
    <3>1. 1 \in 1..(m + 1) BY <1>1
    <3> QED BY <1>1, <3>1 DEF Ids
  <2>4. ASSUME NEW y \in Ids(q) PROVE y \in Ids(e)
    <3>1. PICK k \in 1..m : y = q[k].id BY <1>2
    <3>2. k + 1 \in 2..(m + 1) /\ k + 1 \in 1..(m + 1) /\ (k + 1) - 1 = k BY <1>1
    <3>3. e[k + 1] = q[k] BY <1>1, <3>2
    <3> QED BY <1>1, <3>1, <3>2, <3>3 DEF Ids
  <2> QED BY <2>2, <2>3, <2>4
<1>7. ToSet(<<>>) = {} /\ Rising(<<>>) BY DEF ToSet, Rising
<1>8. Accounted(<<>>, e, D, r)
  BY <1>3, <1>5, <1>6, <1>7 DEF Accounted
<1> QED BY <1>1, <1>8 DEF e, x

LEMMA ForgetAccounts ==
    ASSUME NEW q \in Chains, NEW D, NEW r \in Nat, Accounted(<< 1 >>, q, D, r)
    PROVE  <<>> \in Chains /\ Accounted(<<1>>, <<>>, D \cup Ids(q), r)
<1>1. ToSet(<<1>>) = {1} BY DEF ToSet
<1>2. \A y \in Ids(q) : 1 < y BY <1>1 DEF Accounted
<1>3. 1 \notin Ids(q) BY <1>2
<1>4. <<>> \in Chains /\ Ids(<<>>) = {} /\ Increasing(<<>>) BY DEF Chains, Ids, Increasing
<1> QED BY <1>1, <1>3, <1>4 DEF Accounted

(* The account in the words of the property *)
LineOf(given, q) == given \o [k \in DOMAIN q |-> q[k].id]

InLine(line, d, r) ==
    /\ \A j, k \in DOMAIN line : j < k => line[j] < line[k]
    /\ ToSet(line) \cup d = 1..r
    /\ ToSet(line) \cap d = {}
    /\ 1 \notin d

LEMMA AccountedLine ==
    ASSUME NEW G \in Seq(Nat), NEW q \in Chains, NEW D, NEW r \in Nat, Accounted(G, q, D, r)
    PROVE  InLine(LineOf(G, q), D, r)
<1> DEFINE queued == [k \in DOMAIN q |-> q[k].id]
<1>1. /\ DOMAIN q = 1..Len(q) /\ Len(q) \in Nat
      /\ \A k \in 1..Len(q) : q[k].id \in Nat
  BY ChainFacts
<1>2. queued \in Seq(Nat) /\ DOMAIN queued = DOMAIN q /\ \A k \in DOMAIN q : queued[k] = q[k].id
  BY <1>1
<1> HIDE DEF queued
<1>3. ToSet(queued) = Ids(q) BY <1>2 DEF ToSet, Ids
<1>4. Rising(queued) BY <1>2 DEF Rising, Accounted, Increasing
<1>5. ToSet(G \o queued) = ToSet(G) \cup ToSet(queued) /\ Rising(G \o queued)
  <2>1. Rising(G) /\ \A x \in ToSet(G), y \in ToSet(queued) : x < y BY <1>3 DEF Accounted
  <2> QED BY <1>2, <1>4, <2>1, RisingConcat
<1>6. /\ ToSet(G \o queued) \cup D = 1..r
      /\ ToSet(G \o queued) \cap D = {}
      /\ 1 \notin D
  BY <1>3, <1>5 DEF Accounted
<1> QED BY <1>5, <1>6 DEF queued, Rising, InLine, LineOf

-----------------------------------------------------------------------------
(* The account of a session, in and between handlers                       *)

Typed(s) ==
    /\ DOMAIN s = Fields
    /\ s.state \in {"free", "resolving", "open"}
    /\ s.freed \in {"no", "yes", "taken", "spent"}
    /\ s.chain \in Chains /\ s.given \in Seq(Nat)
    /\ s.requests \in Nat /\ s.used \in Int /\ s.first \in Int

\* Sent, or about to be: the datagram that made the session waits in c->buffer.
Before(s) == IF s.state = "resolving" THEN <<1>> ELSE s.given

Numbered(s) ==
    s.state # "free" /\ s.freed \in {"no", "yes"} =>
       /\ s.state = "resolving" => s.given = <<>>
       /\ Accounted(Before(s), s.chain, s.dropped, s.requests)

\* The most datagrams a session takes
Most(k) == IF k.resolver /\ k.requests = 1 THEN 2 ELSE k.requests

Within(k, s) == s.state # "free" /\ k.requests > 0 => s.requests <= Most(k)

InOrder(k, s) == Typed(s) /\ Numbered(s) /\ Within(k, s)

\* Between handlers a session in the tree has room for another datagram.
Settled(k, s) ==
    /\ InOrder(k, s)
    /\ s.state = "free" => ~s.bound
    /\ s.bound /\ k.requests > 0 => s.requests + 1 <= Most(k)

RequestsInv ==
    /\ conf \in Configurations
    /\ DOMAIN sess = Slots
    /\ \A i \in Slots : Settled(conf, sess[i])

LEMMA FreeSettled == ASSUME NEW k PROVE Settled(k, Free) /\ InOrder(k, Free)
BY DEF Settled, InOrder, Typed, Numbered, Within, Free, Fields, Chains

LEMMA FailingInOrder == ASSUME NEW k, NEW s \in Failing PROVE Settled(k, s) /\ InOrder(k, s)
BY FreeSettled DEF Failing

\* t differs from s in nothing the account speaks of.
SameAccount(t, s) ==
    /\ DOMAIN t = Fields
    /\ t.state = s.state /\ t.chain = s.chain /\ t.given = s.given
    /\ t.dropped = s.dropped /\ t.requests = s.requests /\ t.first = s.first
    /\ t.used \in Int
    /\ t.freed \in {"no", "yes", "taken", "spent"}
    /\ t.freed \in {"no", "yes"} => s.freed \in {"no", "yes"}

LEMMA SameInOrder ==
    ASSUME NEW k, NEW s, NEW t, InOrder(k, s), SameAccount(t, s)
    PROVE  InOrder(k, t)
<1>1. Typed(t) BY DEF InOrder, Typed, SameAccount
<1>2. Numbered(t) BY DEF InOrder, Numbered, Before, SameAccount
<1>3. Within(k, t) BY DEF InOrder, Within, SameAccount
<1> QED BY <1>1, <1>2, <1>3 DEF InOrder

LEMMA SameSettled ==
    ASSUME NEW k, NEW s, NEW t, Settled(k, s), SameAccount(t, s), t.bound = s.bound
    PROVE  Settled(k, t)
<1>1. InOrder(k, t) BY SameInOrder DEF Settled
<1>2. t.state = s.state /\ t.requests = s.requests BY DEF SameAccount
<1> QED BY <1>1, <1>2 DEF Settled

LEMMA UpdateChainsInOrder ==
    ASSUME NEW k, NEW s, InOrder(k, s) PROVE InOrder(k, UpdateChains(s))
<1> DEFINE t == UpdateChains(s)
<1>1. Typed(s) BY DEF InOrder
<1>2. /\ DOMAIN t = Fields
      /\ t.state = s.state /\ t.chain = s.chain /\ t.given = s.given
      /\ t.dropped = s.dropped /\ t.requests = s.requests /\ t.first = s.first
      /\ t.used \in {s.used, 0}
      /\ t.freed = IF s.freed \in {"taken", "spent"} THEN s.freed
                   ELSE IF s.chain # <<>> /\ Head(s.chain).size = 0 THEN "yes" ELSE "no"
  BY <1>1 DEF UpdateChains, Typed, Fields
<1> HIDE DEF t
<1>3. SameAccount(t, s) BY <1>1, <1>2 DEF SameAccount, Typed
<1> QED BY <1>3, SameInOrder DEF t

LEMMA DelayInOrder ==
    ASSUME NEW k, NEW s, NEW x, InOrder(k, s)
    PROVE  InOrder(k, Delay(s, x)) /\ Delay(s, x).bound = s.bound
<1>1. SameAccount(Delay(s, x), s) /\ Delay(s, x).bound = s.bound
  BY DEF InOrder, Typed, Delay, SameAccount, Fields
<1> QED BY <1>1, SameInOrder

\* Sending keeps what is sent and what waits in order, and drops what it skips.
LEMMA SentInOrder ==
    ASSUME NEW k, NEW s, NEW p \in 0..Len(s.chain), InOrder(k, s), s.state = "open",
           s.freed \in {"no", "yes"}
    PROVE  InOrder(k, Sent(s, p))
<1> DEFINE t == Sent(s, p)
<1>1. Typed(s) BY DEF InOrder
<1>2. /\ DOMAIN t = Fields
      /\ t.state = s.state /\ t.requests = s.requests /\ t.first = s.first
      /\ t.used = s.used /\ t.freed = s.freed
      /\ t.chain = SubSeq(s.chain, p + 1, Len(s.chain))
      /\ t.given = s.given \o SentIds(s.chain, p)
      /\ t.dropped = s.dropped \cup (Ids(SubSeq(s.chain, 1, p)) \ ToSet(SentIds(s.chain, p)))
  BY <1>1 DEF Sent, Typed, Fields
<1> HIDE DEF t
<1>3. t.chain \in Chains BY <1>1, <1>2, CutChain DEF Typed
<1>4. Accounted(s.given, s.chain, s.dropped, s.requests)
  BY DEF InOrder, Numbered, Before
<1>5. /\ s.given \o SentIds(s.chain, p) \in Seq(Nat)
      /\ Accounted(s.given \o SentIds(s.chain, p), SubSeq(s.chain, p + 1, Len(s.chain)),
                   s.dropped \cup (Ids(SubSeq(s.chain, 1, p)) \ ToSet(SentIds(s.chain, p))),
                   s.requests)
  BY <1>1, <1>4, SentAccounts DEF Typed
<1>6. t.given \in Seq(Nat) /\ Accounted(t.given, t.chain, t.dropped, t.requests)
  BY <1>2, <1>5
<1>7. Typed(t) BY <1>1, <1>2, <1>3, <1>6 DEF Typed
<1>8. Numbered(t) BY <1>2, <1>6 DEF Numbered, Before
<1> QED BY <1>2, <1>7, <1>8 DEF InOrder, Within, t

LEMMA WriteUpInOrder ==
    ASSUME NEW s, InOrder(conf, s), s.state = "open"
    PROVE  \A w \in WriteUp(s) : InOrder(conf, w)
<1>1. \A v : InOrder(conf, v) => InOrder(conf, UpdateChains(v)) BY UpdateChainsInOrder
<1>2. ASSUME s.freed \notin {"taken", "spent"}, NEW p \in Cuts(s.chain)
      PROVE  InOrder(conf, UpdateChains(Sent(s, p)))
  <2>1. s.freed \in {"no", "yes"} BY <1>2 DEF InOrder, Typed
  <2>2. p \in 0..Len(s.chain) BY DEF Cuts
  <2>3. InOrder(conf, Sent(s, p)) BY <2>1, <2>2, SentInOrder
  <2> QED BY <1>1, <2>3
<1>3. ASSUME s.freed = "taken" PROVE InOrder(conf, SendTwice(s))
  <2>1. SameAccount(SendTwice(s), s)
    BY DEF InOrder, Typed, SendTwice, SameAccount, Fields
  <2> QED BY <2>1, SameInOrder
<1>4. InOrder(conf, Free) /\ \A w \in Failing : InOrder(conf, w)
  BY FreeSettled, FailingInOrder
<1> QED
  BY <1>1, <1>2, <1>3, <1>4 DEF WriteUp

\* The end of process() leaves room in a session that stays in the tree.
LEMMA FinishSettles ==
    ASSUME NEW s, InOrder(conf, s), conf \in Configurations
    PROVE  Settled(conf, Finish(s))
<1> DEFINE b == Unbind(s)
<1>1. conf.requests \in Nat
  BY UdpAssumption
<1>2. SameAccount(b, s)
  BY DEF InOrder, Typed, Unbind, SameAccount, Fields
<1>3. b.bound => (conf.requests > 0 => b.requests + 1 <= Most(conf))
  <2>1. b.bound = (s.bound /\ (conf.requests > 0 => ~Enough(s)))
    BY DEF Unbind, InOrder, Typed, Fields
  <2>2. conf.requests > 0 /\ ~Enough(s) => s.requests < conf.requests
    BY <1>1 DEF Enough, InOrder, Typed
  <2>3. conf.requests > 0 => Most(conf) \in Nat /\ conf.requests <= Most(conf)
    BY <1>1 DEF Most
  <2>4. b.requests = s.requests /\ s.requests \in Nat BY <1>2 DEF SameAccount, InOrder, Typed
  <2>5. s.requests < conf.requests /\ conf.requests <= Most(conf) /\ Most(conf) \in Nat
           => s.requests + 1 <= Most(conf)
    BY <1>1, <2>4
  <2> QED BY <2>1, <2>2, <2>3, <2>4, <2>5, Zenon
<1>4. InOrder(conf, b) BY <1>2, SameInOrder
<1> HIDE DEF b
<1>5. CASE s.state = "free" \/ Complete(b)
  BY <1>5, FreeSettled DEF Finish, b
<1>6. CASE s.state # "free" /\ ~Complete(b)
  <2>1. b.state # "free" BY <1>2, <1>6 DEF SameAccount
  <2>2. Settled(conf, b) BY <1>3, <1>4, <2>1 DEF Settled
  <2>3. SameAccount(IdleTimer(b), b) /\ IdleTimer(b).bound = b.bound
    BY <1>4 DEF InOrder, Typed, IdleTimer, SameAccount, Fields
  <2>4. Settled(conf, IdleTimer(b)) BY <2>2, <2>3, SameSettled
  <2> QED BY <1>6, <2>2, <2>4 DEF Finish, b
<1> QED BY <1>5, <1>6

-----------------------------------------------------------------------------
(* The handlers                                                            *)

LEMMA InitUpstreamSettles ==
    ASSUME NEW s, InOrder(conf, s), s.state = "resolving", conf \in Configurations
    PROVE  \A t \in InitUpstream(s) : Settled(conf, t)
<1> DEFINE e == <<[id |-> 1, size |-> s.first]>> \o s.chain
           o == [PrependBuffer(s) EXCEPT !.state = "open", !.ready = TRUE]
<1>1. Typed(s) BY DEF InOrder
<1>2. /\ DOMAIN o = Fields
      /\ o.state = "open" /\ o.requests = s.requests /\ o.first = s.first
      /\ o.used = s.used /\ o.freed = s.freed
      /\ o.chain = e /\ o.given = s.given /\ o.dropped = s.dropped
  BY <1>1 DEF PrependBuffer, Typed, Fields
<1>3. e \in Chains
  <2>1. ASSUME NEW S, s.chain \in Seq(S), [id |-> 1, size |-> s.first] \in S PROVE e \in Seq(S)
    BY <2>1
  <2>2. [id |-> 1, size |-> s.first] \in [id : Nat, size : Int] BY <1>1 DEF Typed
  <2> QED BY <1>1, <2>1, <2>2 DEF Typed, Chains
<1> HIDE DEF o, e
<1>4. Typed(o) BY <1>1, <1>2, <1>3 DEF Typed
<1>5. Numbered(o)
  <2> SUFFICES ASSUME s.freed \in {"no", "yes"}
               PROVE  Accounted(o.given, o.chain, o.dropped, o.requests)
    BY <1>2 DEF Numbered, Before
  <2>1. s.given = <<>> /\ Accounted(<<1>>, s.chain, s.dropped, s.requests)
    BY DEF InOrder, Numbered, Before
  <2>2. Accounted(<<>>, e, s.dropped, s.requests)
    BY <1>1, <2>1, PrependAccounts DEF Typed, e
  <2> QED BY <1>2, <2>1, <2>2
<1>6. InOrder(conf, o) BY <1>2, <1>4, <1>5 DEF InOrder, Within
<1>7. \A w \in WriteUp(o) : InOrder(conf, w) BY <1>2, <1>6, WriteUpInOrder
<1>8. \A w \in WriteUp(o) : Settled(conf, Finish(w)) BY <1>7, FinishSettles
<1> QED
  BY <1>8, FreeSettled DEF InitUpstream, o

LEMMA ConnectSettles ==
    ASSUME NEW s, NEW n, InOrder(conf, s), s.state = "resolving", conf \in Configurations
    PROVE  \A t \in Connect(s, n) : Settled(conf, t)
<1> DEFINE f == Forget(s)
<1>1. Typed(s) BY DEF InOrder
<1>2. /\ DOMAIN f = Fields
      /\ f.state = s.state /\ f.requests = s.requests /\ f.first = s.first
      /\ f.used = s.used /\ f.freed = s.freed /\ f.given = s.given
      /\ f.chain = <<>> /\ f.dropped = s.dropped \cup Ids(s.chain)
  BY <1>1 DEF Forget, Typed, Fields
<1> HIDE DEF f
<1>3. Typed(f) BY <1>1, <1>2 DEF Typed, Chains
<1>4. Numbered(f)
  <2> SUFFICES ASSUME s.freed \in {"no", "yes"}
               PROVE  f.given = <<>> /\ Accounted(<<1>>, f.chain, f.dropped, f.requests)
    BY <1>2 DEF Numbered, Before
  <2>1. s.given = <<>> /\ Accounted(<<1>>, s.chain, s.dropped, s.requests)
    BY DEF InOrder, Numbered, Before
  <2>2. Accounted(<<1>>, <<>>, s.dropped \cup Ids(s.chain), s.requests)
    BY <1>1, <2>1, ForgetAccounts DEF Typed
  <2> QED BY <1>2, <2>1, <2>2
<1>5. InOrder(conf, f) BY <1>2, <1>3, <1>4 DEF InOrder, Within
<1>6. \A t \in InitUpstream(f) : Settled(conf, t) BY <1>2, <1>5, InitUpstreamSettles
<1>7. \A t \in InitUpstream(s) : Settled(conf, t) BY InitUpstreamSettles
<1> QED
  BY <1>6, <1>7, FreeSettled, FailingInOrder DEF Connect, f

LEMMA TakeInOrder ==
    ASSUME NEW s, NEW n \in Int, Settled(conf, s), s.bound
    PROVE  InOrder(conf, Take(s, n)) /\ Take(s, n).state = s.state
<1> DEFINE t == Take(s, n)
           e == Append(s.chain, [id |-> s.requests + 1, size |-> n])
<1>1. Typed(s) /\ s.state # "free" BY DEF Settled, InOrder
<1>2. /\ DOMAIN t = Fields
      /\ t.state = s.state /\ t.requests = s.requests + 1 /\ t.first = s.first
      /\ t.used = s.used + n /\ t.given = s.given
      /\ t.freed = IF s.freed = "yes" /\ n > 0 THEN "taken" ELSE s.freed
      /\ t.chain = e /\ t.dropped = s.dropped
  BY <1>1 DEF Take, Typed, Fields
<1>3. e \in Chains
  <2>1. ASSUME NEW S, s.chain \in Seq(S), [id |-> s.requests + 1, size |-> n] \in S
        PROVE  e \in Seq(S)
    BY <2>1
  <2>2. [id |-> s.requests + 1, size |-> n] \in [id : Nat, size : Int] BY <1>1 DEF Typed
  <2> QED BY <1>1, <2>1, <2>2 DEF Typed, Chains
<1> HIDE DEF t, e
<1>4. Typed(t) BY <1>1, <1>2, <1>3 DEF Typed
<1>5. Numbered(t)
  <2> SUFFICES ASSUME s.freed \in {"no", "yes"}
               PROVE  /\ s.state = "resolving" => s.given = <<>>
                      /\ Accounted(Before(s), e, s.dropped, s.requests + 1)
    BY <1>1, <1>2 DEF Numbered, Before
  <2>1. /\ s.state = "resolving" => s.given = <<>>
        /\ Accounted(Before(s), s.chain, s.dropped, s.requests)
    BY <1>1 DEF Settled, InOrder, Numbered
  <2>2. Before(s) \in Seq(Nat) BY <1>1 DEF Before, Typed
  <2> QED BY <1>1, <2>1, <2>2, TakeAccounts DEF Typed, e
<1>6. Within(conf, t) BY <1>2 DEF Settled, Within
<1> QED BY <1>2, <1>4, <1>5, <1>6 DEF InOrder, t

LEMMA FromClientSettles ==
    ASSUME NEW s, NEW n \in Int, Settled(conf, s), s.bound, conf \in Configurations
    PROVE  \A t \in FromClient(s, n) : Settled(conf, t)
<1> DEFINE m == SharedRecv(n, BufSize - s.used)
           d == Delay(Take(s, m), "c")
<1>1. m \in Int
  BY UdpAssumption DEF Settled, InOrder, Typed, SharedRecv
<1>2. InOrder(conf, s) BY DEF Settled
<1>3. InOrder(conf, Take(s, m)) /\ Take(s, m).state = s.state BY <1>1, TakeInOrder
<1>4. InOrder(conf, d) /\ d.state = s.state
  BY <1>3, DelayInOrder DEF Delay, InOrder, Typed, Fields
<1>5. InOrder(conf, Delay(s, "c")) BY <1>2, DelayInOrder
<1>6. s.state = "open" => /\ \A w \in WriteUp(Take(s, m)) : InOrder(conf, w)
                          /\ \A w \in WriteUp(d) : InOrder(conf, w)
  BY <1>3, <1>4, WriteUpInOrder
<1> HIDE DEF m
<1>7. \A t \in FromClient(s, n) :
         t = s \/ \E w : InOrder(conf, w) /\ t = Finish(w)
  BY <1>2, <1>3, <1>4, <1>5, <1>6, FailingInOrder DEF FromClient, m
<1> QED
  BY <1>7, FinishSettles

LEMMA FromUpstreamSettles ==
    ASSUME NEW s, InOrder(conf, s), conf \in Configurations
    PROVE  \A t \in FromUpstream(s) : Settled(conf, t)
<1>1. \A k : InOrder(conf, Pass(s, k))
  <2>1. \A k : SameAccount(Pass(s, k), s)
    BY DEF InOrder, Typed, Pass, SameAccount, Fields
  <2> QED BY <2>1, SameInOrder
<1>2. \A v : InOrder(conf, v) => InOrder(conf, RecvError(v))
  <2>1. \A v : InOrder(conf, v) => SameAccount(RecvError(v), v)
    BY DEF InOrder, Typed, RecvError, SameAccount, Fields
  <2> QED BY <2>1, SameInOrder
<1>3. \A k : InOrder(conf, Delay(Pass(s, k), "u"))
  BY <1>1, DelayInOrder
<1>4. \A r \in ReadReplies(s) : InOrder(conf, r)
  <2>1. ASSUME NEW r \in ReadReplies(s)
        PROVE  \/ r = s
               \/ \E k : r \in {Pass(s, k), RecvError(Pass(s, k)), Delay(Pass(s, k), "u")}
               \/ r \in Failing
    <3>1. CASE s.error
      BY <2>1, <3>1 DEF ReadReplies
    <3>2. CASE ~s.error /\ s.refused
      BY <2>1, <3>2 DEF ReadReplies
    <3>3. CASE ~s.error /\ ~s.refused
      BY <2>1, <3>3 DEF ReadReplies
    <3> QED
      BY <3>1, <3>2, <3>3
  <2> QED
    BY <1>1, <1>2, <1>3, <2>1, FailingInOrder
<1> QED
  BY <1>4, FinishSettles, FreeSettled DEF FromUpstream

-----------------------------------------------------------------------------
(* The steps                                                               *)

LEMMA UpdateSettles ==
    ASSUME NEW i \in Slots, NEW results, RequestsInv, conf' = conf,
           Update(i, results), \A s \in results : Settled(conf, s)
    PROVE  RequestsInv'
<1>1. PICK r \in results : sess' = [sess EXCEPT ![i] = r]
  BY DEF Update
<1>2. ASSUME NEW j \in Slots PROVE Settled(conf, sess'[j])
  BY <1>1 DEF RequestsInv
<1>3. DOMAIN sess' = Slots BY <1>1 DEF RequestsInv
<1> QED
  BY <1>2, <1>3 DEF RequestsInv, Slots

LEMMA InitSettled == Init => RequestsInv
BY FreeSettled DEF Init, RequestsInv

LEMMA NextSettled == RequestsInv /\ [Next]_vars => RequestsInv'
<1> SUFFICES ASSUME RequestsInv, [Next]_vars PROVE RequestsInv'
  OBVIOUS
<1>1. /\ conf \in Configurations
      /\ \A i \in Slots : Settled(conf, sess[i]) /\ InOrder(conf, sess[i]) /\ Typed(sess[i])
  BY DEF RequestsInv, Settled, InOrder
<1>2. ASSUME NEW cl \in Clients, NEW n \in Sizes, DatagramOfKnown(cl, n)
      PROVE  RequestsInv'
  <2>1. PICK i \in Slots : sess[i].bound /\ Update(i, FromClient(sess[i], n))
    BY <1>2 DEF DatagramOfKnown, Known
  <2>2. n \in Int BY UdpAssumption
  <2> QED
    BY <1>1, <1>2, <2>1, <2>2, FromClientSettles, UpdateSettles DEF DatagramOfKnown
<1>3. ASSUME NEW cl \in Clients, NEW n \in Sizes, DatagramOfNew(cl, n)
      PROVE  RequestsInv'
  <2> DEFINE free == CHOOSE i \in Slots : sess[i].state = "free"
             s == NewSession(cl, n)
             results == (IF conf.resolver THEN {s} ELSE Connect(s, ConnectionsUsed + 1))
                        \cup Failing
  <2>1. /\ DOMAIN s = Fields
        /\ s.state = "resolving" /\ s.requests = 1 /\ s.first = n /\ s.used = 0
        /\ s.freed = "no" /\ s.chain = <<>> /\ s.given = <<>> /\ s.dropped = {}
    BY DEF NewSession, Free, Fields
  <2> HIDE DEF s
  <2>2. InOrder(conf, s)
    <3>1. Typed(s) BY <2>1, UdpAssumption DEF Typed, Chains
    <3>2. Accounted(<<1>>, <<>>, {}, 1)
      <4>1. ToSet(<<1>>) = {1} /\ Ids(<<>>) = {} /\ 1..1 = {1} BY DEF ToSet, Ids
      <4>2. Rising(<<1>>) /\ Increasing(<<>>) BY DEF Rising, Increasing
      <4> QED BY <4>1, <4>2 DEF Accounted
    <3>3. Numbered(s) BY <2>1, <3>2 DEF Numbered, Before
    <3>4. Within(conf, s) BY <1>1, <2>1, UdpAssumption DEF Within, Most
    <3> QED BY <3>1, <3>3, <3>4 DEF InOrder
  <2>3. conf.resolver => Settled(conf, s)
    BY <1>1, <2>1, <2>2, UdpAssumption DEF Settled, Most
  <2>4. \A t \in results : Settled(conf, t)
    BY <1>1, <2>1, <2>2, <2>3, ConnectSettles, FailingInOrder
  <2>5. Update(free, results) /\ conf' = conf
    BY <1>3 DEF DatagramOfNew, s
  <2>6. free \in Slots BY <1>3, FreeSlot DEF DatagramOfNew
  <2> HIDE DEF free, results
  <2> QED
    BY <2>4, <2>5, <2>6, UpdateSettles
<1>4. ASSUME NEW i \in Slots, Resolved(i) PROVE RequestsInv'
  <2>1. \A t \in Connect(sess[i], ConnectionsUsed) \cup Failing : Settled(conf, t)
    BY <1>1, <1>4, ConnectSettles, FailingInOrder DEF Resolved
  <2> QED
    BY <1>4, <2>1, UpdateSettles DEF Resolved
<1>5. ASSUME NEW i \in Slots, Reply(i) \/ Refusal(i) PROVE RequestsInv'
  <2>1. PICK f \in {"replies", "refused"} :
           \E v : sess' = [sess EXCEPT ![i] = [@ EXCEPT ![f] = v]]
    BY <1>5 DEF Reply, Refusal
  <2>2. PICK v : sess' = [sess EXCEPT ![i] = [@ EXCEPT ![f] = v]]
    BY <2>1
  <2> DEFINE s == [sess[i] EXCEPT ![f] = v]
  <2>3. DOMAIN s = Fields /\ \A g \in Fields \ {f} : s[g] = sess[i][g]
    BY <1>1 DEF Typed
  <2>4. Update(i, {s}) /\ conf' = conf
    BY <1>5, <2>2 DEF Update, Reply, Refusal
  <2> HIDE DEF s
  <2>5. SameAccount(s, sess[i]) /\ s.bound = sess[i].bound
    BY <1>1, <2>3 DEF SameAccount, Typed, Fields
  <2>6. Settled(conf, s) BY <1>1, <2>5, SameSettled
  <2> QED
    BY <2>4, <2>6, UpdateSettles
<1>6. ASSUME NEW i \in Slots, UpstreamReadable(i) PROVE RequestsInv'
  BY <1>1, <1>6, FromUpstreamSettles, UpdateSettles DEF UpstreamReadable
<1>7. ASSUME NEW i \in Slots, UpstreamWritable(i) PROVE RequestsInv'
  <2> DEFINE s == [sess[i] EXCEPT !.ready = TRUE]
             results == IF exiting THEN {Free} ELSE {Finish(w) : w \in WriteUp(s)}
  <2>1. SameAccount(s, sess[i])
    BY <1>1 DEF SameAccount, Typed, Fields
  <2>2. s.state = "open" BY <1>7, <2>1 DEF UpstreamWritable, SameAccount
  <2> HIDE DEF s
  <2>3. InOrder(conf, s) BY <1>1, <2>1, SameInOrder
  <2>4. \A t \in results : Settled(conf, t)
    BY <1>1, <2>2, <2>3, WriteUpInOrder, FinishSettles, FreeSettled
  <2>5. Update(i, results) /\ conf' = conf
    BY <1>7 DEF UpstreamWritable, s
  <2> HIDE DEF results
  <2> QED
    BY <2>4, <2>5, UpdateSettles
<1>8. ASSUME NEW i \in Slots, DelayExpires(i) PROVE RequestsInv'
  <2> DEFINE e(x) == Expired(sess[i], x)
  <2>1. \A x : SameAccount(e(x), sess[i]) /\ e(x).bound = sess[i].bound
    BY <1>1 DEF SameAccount, Typed, Expired, Fields
  <2>2. CASE Update(i, {ClientDelayOver(sess[i])})
    <3>1. SameAccount(ClientDelayOver(sess[i]), sess[i])
          /\ ClientDelayOver(sess[i]).bound = sess[i].bound
      BY <2>1 DEF ClientDelayOver, IdleTimer, SameAccount, Fields
    <3>2. Settled(conf, ClientDelayOver(sess[i])) BY <1>1, <3>1, SameSettled
    <3> QED BY <1>8, <2>2, <3>2, UpdateSettles DEF DelayExpires
  <2>3. CASE Update(i, FromUpstream(e("u")))
    <3>1. InOrder(conf, e("u")) BY <1>1, <2>1, SameInOrder
    <3> QED BY <1>1, <1>8, <2>3, <3>1, FromUpstreamSettles, UpdateSettles DEF DelayExpires
  <2> QED
    BY <1>8, <2>2, <2>3 DEF DelayExpires
<1>9. ASSUME NEW i \in Slots, IdleExpires(i) PROVE RequestsInv'
  BY <1>9, FreeSettled, UpdateSettles DEF IdleExpires
<1>10. CASE Exit \/ UNCHANGED vars
  BY <1>10 DEF Exit, vars, RequestsInv, Slots
<1> QED
  BY <1>2, <1>3, <1>4, <1>5, <1>6, <1>7, <1>8, <1>9, <1>10 DEF Next

\* Every datagram counted is sent, waits or was dropped, in the order of
\* arrival, and a session takes no more than it may, for any number of
\* clients, sizes and datagrams and every configuration.
THEOREM RequestsAreAccounted == Spec => []RequestsAccounted
<1>1. RequestsInv => RequestsAccounted
  <2> SUFFICES ASSUME RequestsInv, NEW i \in Slots,
                      sess[i].state # "free", sess[i].freed \in {"no", "yes"}
               PROVE  LET s      == sess[i]
                          queued == [k \in DOMAIN s.chain |-> s.chain[k].id]
                          line   == IF s.state = "resolving" THEN <<1>> \o queued
                                                             ELSE s.given \o queued
                      IN /\ \A j, k \in DOMAIN line : j < k => line[j] < line[k]
                         /\ ToSet(line) \cup s.dropped = 1..s.requests
                         /\ ToSet(line) \cap s.dropped = {}
                         /\ 1 \notin s.dropped
                         /\ conf.requests > 0 =>
                               s.requests <= (IF conf.resolver /\ conf.requests = 1
                                              THEN 2 ELSE conf.requests)
    BY DEF RequestsAccounted
  <2>1. Typed(sess[i]) /\ Numbered(sess[i]) /\ Within(conf, sess[i])
    BY DEF RequestsInv, Settled, InOrder
  <2>2. Accounted(Before(sess[i]), sess[i].chain, sess[i].dropped, sess[i].requests)
    BY <2>1 DEF Numbered
  <2>3. /\ sess[i].chain \in Chains /\ sess[i].requests \in Nat
        /\ Before(sess[i]) \in Seq(Nat)
    BY <2>1 DEF Typed, Before
  <2>4. InLine(LineOf(Before(sess[i]), sess[i].chain), sess[i].dropped, sess[i].requests)
    BY <2>2, <2>3, AccountedLine
  <2>5. conf.requests > 0 => sess[i].requests <= Most(conf) BY <2>1 DEF Within
  <2> QED BY <2>4, <2>5, Zenon DEF InLine, LineOf, Before, Most
<1> QED
  BY <1>1, InitSettled, NextSettled, PTL DEF Spec

=============================================================================
