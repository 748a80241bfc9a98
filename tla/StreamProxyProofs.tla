--------------------------- MODULE StreamProxyProofs ---------------------------
(***************************************************************************)
(* Type correctness, the timers and the rate limits of StreamProxy, for    *)
(* every value of its constants.                                           *)
(***************************************************************************)
EXTENDS StreamProxy, TLAPS

USE DEF Side, Dir, Event

(* The conjuncts of TypeOK, grouped as the variables are. *)

KernelOK ==
    /\ sent \in [Dir -> Nat] /\ fin \subseteq Side /\ rst \subseteq Side
    /\ wire \in [Dir -> Seq(Nat)] /\ taken \in [Dir -> Nat]
    /\ upsock \in {"none", "inprogress", "established", "failed"} /\ nospace \subseteq Side

EpollOK == /\ active \subseteq Event /\ armed \subseteq Side
           /\ revents \subseteq Side \X {"in", "out", "rdhup"}

EventsOK ==
    /\ ready \subseteq Event /\ timer \subseteq Event /\ posted \subseteq Event
    /\ delayed \subseteq Side /\ eof \subseteq Side
    /\ rerror \subseteq Side /\ pendingEof \subseteq Side
    /\ avail \in [Side -> Int]

ConnsOK == /\ open \subseteq Side /\ cerror \subseteq Side /\ buffered \subseteq Side
           /\ closing \subseteq Side /\ shut \subseteq Side

DataOK ==
    /\ bufs \in [BufId -> Buf] /\ nbufs \in 0 .. MaxBufs
    /\ mem \in [Dir -> [1 .. BufSize -> Nat]] /\ last \in [Dir -> 0 .. BufSize]
    /\ free \in Seq(BufId)
    /\ out \in [Dir -> Seq(BufId)] /\ busy \in [Dir -> Seq(BufId)] /\ wf \in [Dir -> Seq(BufId)]
    /\ received \in [Dir -> Nat]

UpstreamOK ==
    /\ connected \in BOOLEAN /\ halfClosed \in BOOLEAN /\ tries \in Nat
    /\ held \in BOOLEAN /\ resolving \in BOOLEAN /\ now \in Nat
    /\ outcome \in Outcome /\ early \in Nat

RunOK == step \in Step /\ dir \in Dir /\ dw \in BOOLEAN

Types == KernelOK /\ EpollOK /\ EventsOK /\ ConnsOK /\ DataOK /\ UpstreamOK /\ RunOK

\* Types is TypeOK, regrouped.
LEMMA Regrouped == Types <=> TypeOK
BY DEF Types, KernelOK, EpollOK, EventsOK, ConnsOK, DataOK, UpstreamOK, RunOK, TypeOK

\* A group of variables a step leaves alone keeps its types.
LEMMA Kept == /\ KernelOK /\ UNCHANGED kernel => KernelOK'
              /\ EpollOK /\ UNCHANGED epoll => EpollOK'
              /\ EventsOK /\ UNCHANGED events => EventsOK'
              /\ ConnsOK /\ UNCHANGED conns => ConnsOK'
              /\ DataOK /\ UNCHANGED data => DataOK'
              /\ UpstreamOK /\ UNCHANGED upstream => UpstreamOK'
              /\ RunOK /\ UNCHANGED run => RunOK'
<1>1. KernelOK /\ UNCHANGED kernel => KernelOK'
  BY DEF KernelOK, kernel
<1>2. EpollOK /\ UNCHANGED epoll => EpollOK'
  BY DEF EpollOK, epoll
<1>3. EventsOK /\ UNCHANGED events => EventsOK'
  BY DEF EventsOK, events
<1>4. ConnsOK /\ UNCHANGED conns => ConnsOK'
  BY DEF ConnsOK, conns
<1>5. DataOK /\ UNCHANGED data => DataOK'
  BY DEF DataOK, data
<1>6. UpstreamOK /\ UNCHANGED upstream => UpstreamOK'
  BY DEF UpstreamOK, upstream
<1>7. RunOK /\ UNCHANGED run => RunOK'
  BY DEF RunOK, run
<1> QED
  BY <1>1, <1>2, <1>3, <1>4, <1>5, <1>6, <1>7

-----------------------------------------------------------------------------
\* The state after accept() has its type.
LEMMA TypesInit == Init => Types
<1> SUFFICES ASSUME Init PROVE Types
  OBVIOUS
<1>1. KernelOK /\ EpollOK /\ ConnsOK
  BY DEF Init, KernelOK, EpollOK, ConnsOK
<1>2. UpstreamOK /\ RunOK
  BY ConstantsAssumption DEF Init, UpstreamOK, RunOK, Outcome, Step
<1>3. EventsOK
  BY DEF Init, EventsOK
<1>4. DataOK
  BY ConstantsAssumption DEF Init, DataOK, Buf, BufId
<1> QED
  BY <1>1, <1>2, <1>3, <1>4 DEF Types

-----------------------------------------------------------------------------
(* Ends of a session and connecting to the upstream. *)

\* Closing both connections keeps every type.
LEMMA FinalizeTypes == ASSUME Types, NEW why \in Outcome, Finalize(why) PROVE Types'
<1>1. KernelOK' /\ DataOK'
  BY Kept DEF Types, Finalize
<1>2. EpollOK' /\ EventsOK' /\ ConnsOK'
  BY DEF Types, Finalize, EpollOK, EventsOK, ConnsOK
<1>3. UpstreamOK' /\ RunOK'
  BY DEF Types, Finalize, UpstreamOK, RunOK, Step
<1> QED
  BY <1>1, <1>2, <1>3 DEF Types

\* So does giving up a peer, whether another one is tried or not.
LEMMA NextUpstreamTypes == ASSUME Types, NextUpstream PROVE Types'
<1>1. CASE Finalize("internal") \/ Finalize("bad gateway")
  BY <1>1, FinalizeTypes DEF Outcome
<1>2. CASE ~(Finalize("internal") \/ Finalize("bad gateway"))
  <2>1. DataOK'
    BY <1>2, Kept DEF Types, NextUpstream
  <2>2. KernelOK' /\ EpollOK'
    BY <1>2 DEF Types, NextUpstream, KernelOK, EpollOK, UpEvents
  <2>3. EventsOK' /\ ConnsOK'
    BY <1>2 DEF Types, NextUpstream, EventsOK, ConnsOK, UpEvents
  <2>4. tries' \in Nat
    <3>1. tries \in Nat
      BY DEF Types, UpstreamOK
    <3>2. tries' = IF held /\ tries > 0 THEN tries - 1 ELSE tries
      BY <1>2 DEF NextUpstream
    <3> QED
      BY <3>1, <3>2
  <2>5. UpstreamOK' /\ RunOK'
    BY <1>2, <2>4 DEF Types, NextUpstream, UpstreamOK, RunOK, Step
  <2> QED
    BY <2>1, <2>2, <2>3, <2>5 DEF Types
<1> QED
  BY <1>1, <1>2

\* Resolving, dialling and accepting the outcome of connect() keep the types.
LEMMA ConnectingTypes == ASSUME Types, Connecting PROVE Types'
<1>1. CASE Resolved
  <2>1. CASE Finalize("internal")
    BY <2>1, FinalizeTypes DEF Outcome
  <2>2. CASE ~Finalize("internal")
    <3>1. KernelOK' /\ EpollOK' /\ EventsOK' /\ ConnsOK' /\ DataOK'
      BY <1>1, <2>2, Kept DEF Types, Resolved
    <3>2. UpstreamOK' /\ RunOK'
      BY <1>1, <2>2, ConstantsAssumption DEF Types, Resolved, UpstreamOK, RunOK, Step
    <3> QED
      BY <3>1, <3>2 DEF Types
  <2> QED
    BY <2>1, <2>2
<1>2. CASE GetPeer
  <2>1. CASE Finalize("bad gateway")
    BY <2>1, FinalizeTypes DEF Outcome
  <2>2. CASE ~Finalize("bad gateway")
    <3>1. KernelOK' /\ EpollOK' /\ EventsOK' /\ ConnsOK' /\ DataOK'
      BY <1>2, <2>2, Kept DEF Types, GetPeer
    <3>2. UpstreamOK' /\ RunOK'
      BY <1>2, <2>2 DEF Types, GetPeer, UpstreamOK, RunOK, Step
    <3> QED
      BY <3>1, <3>2 DEF Types
  <2> QED
    BY <2>1, <2>2
<1>3. CASE DialFails
  BY <1>3, FinalizeTypes, NextUpstreamTypes DEF DialFails, Outcome
<1>4. CASE ConnectAgain \/ ConnectNow
  <2>1. PICK s \in {"inprogress", "established"} : NewUpstream(s)
    BY <1>4 DEF ConnectAgain, ConnectNow
  <2>2. DataOK' /\ UpstreamOK'
    BY <2>1, Kept DEF Types, NewUpstream
  <2>3. KernelOK' /\ EpollOK' /\ ConnsOK'
    BY <2>1 DEF Types, NewUpstream, KernelOK, EpollOK, ConnsOK, UpEvents
  <2>4. EventsOK'
    <3>1. ready' \subseteq Event /\ timer' \subseteq Event
      BY <1>4 DEF Types, ConnectAgain, ConnectNow, EventsOK, UpEvents, ConnectTimers
    <3>2. /\ posted' \subseteq Event /\ delayed' \subseteq Side /\ eof' \subseteq Side
          /\ rerror' \subseteq Side /\ pendingEof' \subseteq Side
      BY <2>1 DEF Types, NewUpstream, EventsOK
    <3>3. avail' \in [Side -> Int]
      BY <2>1 DEF Types, NewUpstream, EventsOK
    <3> QED
      BY <3>1, <3>2, <3>3 DEF EventsOK
  <2>5. RunOK'
    BY <1>4 DEF Types, ConnectAgain, ConnectNow, NewUpstream, RunOK, Step
  <2> QED
    BY <2>2, <2>3, <2>4, <2>5 DEF Types
<1>5. CASE ConnectTimeout
  BY <1>5, NextUpstreamTypes DEF ConnectTimeout
<1>6. CASE InitUpstream
  <2>1. CASE NextUpstream \/ Finalize("internal")
    BY <2>1, FinalizeTypes, NextUpstreamTypes DEF Outcome
  <2>2. CASE ~(NextUpstream \/ Finalize("internal"))
    <3>1. KernelOK' /\ EpollOK' /\ ConnsOK' /\ DataOK'
      BY <1>6, <2>2, Kept DEF Types, InitUpstream
    <3>2. EventsOK' /\ UpstreamOK' /\ RunOK'
      BY <1>6, <2>2 DEF Types, InitUpstream, EventsOK, UpstreamOK, RunOK, Step, DataOK
    <3> QED
      BY <3>1, <3>2 DEF Types
  <2> QED
    BY <2>1, <2>2
<1>7. ASSUME NEW e \in UpEvents, ConnectHandler(e) PROVE Types'
  <2>1. CASE NextUpstream
    BY <2>1, NextUpstreamTypes
  <2>2. CASE ~NextUpstream
    <3>1. KernelOK' /\ EpollOK' /\ ConnsOK' /\ DataOK' /\ UpstreamOK'
      BY <1>7, <2>2, Kept DEF Types, ConnectHandler, epoll
    <3>2. EventsOK' /\ RunOK'
      BY <1>7, <2>2 DEF Types, ConnectHandler, EventsOK, RunOK, Step
    <3> QED
      BY <3>1, <3>2 DEF Types
  <2> QED
    BY <2>1, <2>2
<1> QED
  BY <1>1, <1>2, <1>3, <1>4, <1>5, <1>6, <1>7 DEF Connecting

-----------------------------------------------------------------------------
(* The event loop and the event handlers. *)

\* Registering for known events with epoll keeps its types.
LEMMA RegisterTypes ==
    ASSUME EpollOK, NEW E \in SUBSET Event, Register(E), revents' = revents
    PROVE  EpollOK'
BY DEF EpollOK, Register

\* epoll_wait(), the dispatch of its events, the handlers and the timers keep
\* the types.
LEMMA LoopTypes == ASSUME Types, Loop PROVE Types'
<1>1. CASE EpollWait
  <2>1. KernelOK' /\ EventsOK' /\ ConnsOK' /\ DataOK' /\ UpstreamOK' /\ RunOK'
    BY <1>1, Kept DEF Types, EpollWait
  <2>2. EpollOK'
    BY <1>1 DEF Types, EpollWait, EpollOK
  <2> QED
    BY <2>1, <2>2 DEF Types
<1>2. ASSUME NEW s \in Side, DispatchRead(s) PROVE Types'
  <2>1. KernelOK' /\ ConnsOK' /\ DataOK' /\ UpstreamOK' /\ RunOK'
    BY <1>2, Kept DEF Types, DispatchRead
  <2>2. EpollOK'
    BY <1>2 DEF Types, DispatchRead, EpollOK
  <2>3. EventsOK'
    <3>1. avail' \in [Side -> Int]
      BY <1>2 DEF Types, DispatchRead, EventsOK
    <3>2. /\ ready' \subseteq Event /\ timer' \subseteq Event /\ posted' \subseteq Event
          /\ delayed' \subseteq Side /\ eof' \subseteq Side
          /\ rerror' \subseteq Side /\ pendingEof' \subseteq Side
      BY <1>2 DEF Types, DispatchRead, EventsOK, Rd
    <3> QED
      BY <3>1, <3>2 DEF EventsOK
  <2> QED
    BY <2>1, <2>2, <2>3 DEF Types
<1>3. ASSUME NEW s \in Side, DispatchWrite(s) PROVE Types'
  <2>1. KernelOK' /\ ConnsOK' /\ DataOK' /\ UpstreamOK' /\ RunOK'
    BY <1>3, Kept DEF Types, DispatchWrite
  <2>2. EpollOK'
    BY <1>3 DEF Types, DispatchWrite, EpollOK
  <2>3. EventsOK'
    BY <1>3 DEF Types, DispatchWrite, EventsOK, Wr
  <2> QED
    BY <2>1, <2>2, <2>3 DEF Types
<1>4. ASSUME NEW e \in Event, Handler(e) PROVE Types'
  <2>1. CASE Finalize("shutdown")
    BY <2>1, FinalizeTypes DEF Outcome
  <2>2. CASE ~Finalize("shutdown")
    <3>1. KernelOK' /\ ConnsOK' /\ DataOK' /\ UpstreamOK'
      BY <1>4, <2>2, Kept DEF Types, Handler
    <3>2. EpollOK'
      <4>1. \/ Register({x \in {e} : Unhandled(x)})
            \/ UNCHANGED <<active, armed>>
        BY <1>4, <2>2 DEF Handler
      <4>2. revents' = revents /\ {x \in {e} : Unhandled(x)} \in SUBSET Event
        BY <1>4, <2>2 DEF Handler
      <4>3. CASE UNCHANGED <<active, armed>>
        BY <4>2, <4>3 DEF Types, EpollOK
      <4> QED
        BY <4>1, <4>2, <4>3, RegisterTypes DEF Types
    <3>3. EventsOK'
      BY <1>4, <2>2 DEF Types, Handler, EventsOK
    <3>4. RunOK'
      BY <1>4, <2>2 DEF Types, Handler, RunOK, Step, DirOf, Reading, run
    <3> QED
      BY <3>1, <3>2, <3>3, <3>4 DEF Types
  <2> QED
    BY <2>1, <2>2
<1>5. ASSUME NEW e \in Event, DelayTimeout(e) PROVE Types'
  <2>1. CASE Finalize("shutdown")
    BY <2>1, FinalizeTypes DEF Outcome
  <2>2. CASE ~Finalize("shutdown")
    <3>1. KernelOK' /\ ConnsOK' /\ DataOK' /\ UpstreamOK'
      BY <1>5, <2>2, Kept DEF Types, DelayTimeout
    <3>2. EpollOK'
      <4>1. \/ Register({x \in {e} : Unhandled(x)})
            \/ UNCHANGED <<active, armed>>
        BY <1>5, <2>2 DEF DelayTimeout
      <4>2. revents' = revents /\ {x \in {e} : Unhandled(x)} \in SUBSET Event
        BY <1>5, <2>2 DEF DelayTimeout
      <4>3. CASE UNCHANGED <<active, armed>>
        BY <4>2, <4>3 DEF Types, EpollOK
      <4> QED
        BY <4>1, <4>2, <4>3, RegisterTypes DEF Types
    <3>3. EventsOK'
      BY <1>5, <2>2 DEF Types, DelayTimeout, EventsOK
    <3>4. RunOK'
      BY <1>5, <2>2 DEF Types, DelayTimeout, RunOK, Step, DirOf, run
    <3> QED
      BY <3>1, <3>2, <3>3, <3>4 DEF Types
  <2> QED
    BY <2>1, <2>2
<1>6. ASSUME NEW e \in Event, IdleTimeout(e) PROVE Types'
  <2>1. Finalize("shutdown") \/ Finalize("timed out")
    BY <1>6 DEF IdleTimeout
  <2> QED
    BY <2>1, FinalizeTypes DEF Outcome
<1>7. CASE ShutdownTimeout
  <2>1. KernelOK' /\ EpollOK' /\ DataOK' /\ UpstreamOK' /\ RunOK'
    BY <1>7, Kept DEF Types, ShutdownTimeout
  <2>2. EventsOK' /\ ConnsOK'
    BY <1>7 DEF Types, ShutdownTimeout, EventsOK, ConnsOK, ShutdownCalls, Rd
  <2> QED
    BY <2>1, <2>2 DEF Types
<1> QED
  BY <1>1, <1>2, <1>3, <1>4, <1>5, <1>6, <1>7 DEF Loop

-----------------------------------------------------------------------------
(* The remote ends. *)

\* What arrives from the network and the clock keeps the types.
LEMMA RemoteTypes == ASSUME Types, Remote PROVE Types'
<1>1. ASSUME NEW s \in Side, RemoteSend(s) PROVE Types'
  <2>1. EventsOK' /\ ConnsOK' /\ DataOK' /\ UpstreamOK' /\ RunOK'
    BY <1>1, Kept DEF Types, RemoteSend
  <2>2. KernelOK'
    BY <1>1 DEF Types, RemoteSend, KernelOK, From
  <2>3. EpollOK'
    BY <1>1 DEF Types, RemoteSend, EpollOK, Edge
  <2> QED
    BY <2>1, <2>2, <2>3 DEF Types
<1>2. ASSUME NEW s \in Side, RemoteFin(s) \/ RemoteReset(s) PROVE Types'
  <2>1. EventsOK' /\ ConnsOK' /\ DataOK' /\ UpstreamOK' /\ RunOK'
    BY <1>2, Kept DEF Types, RemoteFin, RemoteReset
  <2>2. KernelOK'
    BY <1>2 DEF Types, RemoteFin, RemoteReset, KernelOK
  <2>3. EpollOK'
    BY <1>2 DEF Types, RemoteFin, RemoteReset, EpollOK, Edge
  <2> QED
    BY <2>1, <2>2, <2>3 DEF Types
<1>3. ASSUME NEW s \in Side, RemoteTake(s) PROVE Types'
  <2>1. EventsOK' /\ ConnsOK' /\ DataOK' /\ UpstreamOK' /\ RunOK'
    BY <1>3, Kept DEF Types, RemoteTake
  <2>2. KernelOK'
    <3>1. Len(wire[To(s)]) \in Nat
      BY DEF Types, KernelOK, To
    <3> QED
      BY <1>3, <3>1 DEF Types, RemoteTake, KernelOK, To
  <2>3. EpollOK'
    BY <1>3 DEF Types, RemoteTake, EpollOK, Edge
  <2> QED
    BY <2>1, <2>2, <2>3 DEF Types
<1>4. CASE ConnectCompletes
  <2>1. EventsOK' /\ ConnsOK' /\ DataOK' /\ UpstreamOK' /\ RunOK'
    BY <1>4, Kept DEF Types, ConnectCompletes
  <2>2. KernelOK'
    BY <1>4 DEF Types, ConnectCompletes, KernelOK
  <2>3. EpollOK'
    BY <1>4 DEF Types, ConnectCompletes, EpollOK, Edge
  <2> QED
    BY <2>1, <2>2, <2>3 DEF Types
<1>5. CASE Tick
  <2>1. KernelOK' /\ EpollOK' /\ EventsOK' /\ ConnsOK' /\ DataOK' /\ RunOK'
    BY <1>5, Kept DEF Types, Tick
  <2>2. UpstreamOK'
    BY <1>5 DEF Types, Tick, UpstreamOK
  <2> QED
    BY <2>1, <2>2 DEF Types
<1> QED
  BY <1>1, <1>2, <1>3, <1>4, <1>5 DEF Remote

-----------------------------------------------------------------------------
(* ngx_stream_proxy_process(): writing. *)

\* The write filter and the send keep the types; the bytes a send takes from a
\* buffer lie inside it.
LEMMA WriteTypes ==
    ASSUME Types,
           \/ SkipWrite \/ WriteFilter \/ SendBlocked \/ SendFails \/ SendBytes \/ SendDone
    PROVE  Types'
<1>1. CASE SkipWrite
  <2>1. KernelOK' /\ EpollOK' /\ EventsOK' /\ ConnsOK' /\ DataOK' /\ UpstreamOK'
    BY <1>1, Kept DEF Types, SkipWrite
  <2>2. RunOK'
    BY <1>1 DEF Types, SkipWrite, RunOK, Step
  <2> QED
    BY <2>1, <2>2 DEF Types
<1>2. CASE WriteFilter
  <2>1. CASE Finalize("write error")
    BY <2>1, FinalizeTypes DEF Outcome
  <2>2. CASE ~Finalize("write error")
    <3>1. KernelOK' /\ EpollOK' /\ EventsOK' /\ UpstreamOK'
      BY <1>2, <2>2, Kept DEF Types, WriteFilter
    <3>2. ConnsOK'
      BY <1>2, <2>2 DEF Types, WriteFilter, ConnsOK
    <3>3. DataOK'
      <4>1. FilterChain \in Seq(BufId)
        BY DEF Types, DataOK, RunOK, FilterChain
      <4>2. wf' = [wf EXCEPT ![dir] = <<>>] \/ wf' = [wf EXCEPT ![dir] = FilterChain]
        BY <1>2, <2>2 DEF WriteFilter
      <4>3. wf \in [Dir -> Seq(BufId)] /\ <<>> \in Seq(BufId)
        BY DEF Types, DataOK
      <4>4. wf' \in [Dir -> Seq(BufId)]
        BY <4>1, <4>2, <4>3
      <4> QED
        BY <1>2, <2>2, <4>4 DEF Types, WriteFilter, DataOK
    <3>4. RunOK'
      BY <1>2, <2>2 DEF Types, WriteFilter, RunOK, Step
    <3> QED
      BY <3>1, <3>2, <3>3, <3>4 DEF Types
  <2> QED
    BY <2>1, <2>2
<1>3. CASE SendBlocked
  <2>1. EpollOK' /\ DataOK' /\ UpstreamOK'
    BY <1>3, Kept DEF Types, SendBlocked
  <2>2. KernelOK'
    BY <1>3 DEF Types, SendBlocked, KernelOK, Dst
  <2>3. EventsOK'
    BY <1>3 DEF Types, SendBlocked, EventsOK
  <2>4. ConnsOK'
    BY <1>3 DEF Types, SendBlocked, ConnsOK, Dst
  <2>5. RunOK'
    BY <1>3 DEF Types, SendBlocked, RunOK, Step
  <2> QED
    BY <2>1, <2>2, <2>3, <2>4, <2>5 DEF Types
<1>4. CASE SendFails
  BY <1>4, FinalizeTypes DEF SendFails, Outcome
<1>5. CASE SendBytes
  <2> DEFINE b == Head(wf[dir])
  <2>1. PICK n \in 0 .. BufSize :
          /\ n = IF SizeOf(b) <= Space(Dst(dir)) THEN SizeOf(b) ELSE Space(Dst(dir))
          /\ Special(b) \/ n > 0
          /\ wire' = [wire EXCEPT ![dir] =
                         @ \o [i \in 1 .. n |-> mem[dir][bufs[b].pos + i]]]
          /\ bufs' = [bufs EXCEPT ![b].pos = IF Special(b) THEN @ ELSE @ + n]
          /\ wf' = [wf EXCEPT ![dir] = IF n = SizeOf(b) THEN Tail(@) ELSE @]
    BY <1>5 DEF SendBytes
  <2>2. /\ dir \in Dir /\ BufSize \in Nat /\ wf \in [Dir -> Seq(BufId)]
        /\ wf[dir] # <<>> /\ bufs \in [BufId -> Buf]
    BY <1>5, ConstantsAssumption DEF Types, RunOK, DataOK, SendBytes
  <2>3. b \in BufId /\ Tail(wf[dir]) \in Seq(BufId)
    BY <2>2
  <2> HIDE DEF b
  <2>4. /\ bufs[b] \in Buf
        /\ bufs[b].pos \in 0 .. BufSize /\ bufs[b].last \in 0 .. BufSize
        /\ bufs[b].temp \in BOOLEAN
    BY <2>2, <2>3 DEF Buf
  <2>5. Space(Dst(dir)) \in Int
    <3>1. \A d \in Dir : Len(wire[d]) \in Nat /\ taken[d] \in Nat
      BY DEF Types, KernelOK
    <3> QED
      BY <2>2, <3>1, ConstantsAssumption DEF Space, To, Dst
  <2>6. n <= SizeOf(b) /\ SizeOf(b) \in Int
    BY <2>1, <2>4, <2>5 DEF SizeOf
  <2>7. bufs[b].pos + n \in 0 .. BufSize \/ Special(b)
    BY <2>1, <2>2, <2>4, <2>6 DEF SizeOf, Special
  <2>8. bufs' \in [BufId -> Buf]
    <3>1. CASE Special(b)
      BY <2>1, <2>2, <2>3, <2>4, <3>1 DEF Buf
    <3>2. CASE ~Special(b)
      BY <2>1, <2>2, <2>3, <2>4, <2>7, <3>2 DEF Buf
    <3> QED
      BY <3>1, <3>2
  <2>9. [i \in 1 .. n |-> mem[dir][bufs[b].pos + i]] \in Seq(Nat)
    <3>1. ASSUME NEW i \in 1 .. n PROVE mem[dir][bufs[b].pos + i] \in Nat
      <4>1. bufs[b].temp
        BY <2>1, <2>4, <2>6 DEF SizeOf
      <4>2. bufs[b].pos + i \in 1 .. BufSize
        <5>1. n <= bufs[b].last - bufs[b].pos
          BY <2>6, <4>1 DEF SizeOf
        <5>2. i \in Int /\ 1 <= i /\ i <= n /\ n \in Int
          BY <2>1, <2>2
        <5> QED
          BY <2>2, <2>4, <5>1, <5>2
      <4>3. mem[dir] \in [1 .. BufSize -> Nat]
        BY <2>2 DEF Types, DataOK
      <4> QED
        BY <4>2, <4>3
    <3>2. n \in Nat
      BY <2>1, <2>2
    <3> QED
      BY <3>1, <3>2
  <2>10. KernelOK'
    <3>1. wire \in [Dir -> Seq(Nat)]
      BY DEF Types, KernelOK
    <3>2. wire' \in [Dir -> Seq(Nat)]
      BY <2>1, <2>2, <2>9, <3>1
    <3> QED
      BY <1>5, <3>2 DEF Types, KernelOK, SendBytes
  <2>11. DataOK'
    <3>1. wf' \in [Dir -> Seq(BufId)]
      BY <2>1, <2>2, <2>3
    <3> QED
      BY <1>5, <2>8, <3>1 DEF Types, DataOK, SendBytes
  <2>12. EpollOK' /\ EventsOK' /\ ConnsOK' /\ UpstreamOK' /\ RunOK'
    BY <1>5, Kept DEF Types, SendBytes
  <2> QED
    BY <2>10, <2>11, <2>12 DEF Types
<1>6. CASE SendDone
  <2>1. KernelOK' /\ EpollOK' /\ EventsOK' /\ DataOK' /\ UpstreamOK'
    BY <1>6, Kept DEF Types, SendDone
  <2>2. ConnsOK'
    BY <1>6 DEF Types, SendDone, ConnsOK
  <2>3. RunOK'
    BY <1>6 DEF Types, SendDone, RunOK, Step
  <2> QED
    BY <2>1, <2>2, <2>3 DEF Types
<1> QED
  BY <1>1, <1>2, <1>3, <1>4, <1>5, <1>6

\* Any piece of a chain is a chain of known buffers.
LEMMA Piece == ASSUME NEW S, NEW c \in Seq(S), NEW i \in Nat, i >= 1, NEW j \in Nat, j <= Len(c)
               PROVE  SubSeq(c, i, j) \in Seq(S)
OBVIOUS

\* Returning sent buffers to the free chain keeps the types: an emptied buffer
\* is rewound to its start.
LEMMA UpdateTypes == ASSUME Types, UpdateChains PROVE Types'
<1> DEFINE all == busy[dir] \o out[dir]
<1>1. PICK m \in 0 .. Len(all) : LET rest == SubSeq(all, m + 1, Len(all)) IN
          /\ busy' = [busy EXCEPT ![dir] = rest]
          /\ free' = Reverse(SubSeq(all, 1, m)) \o free
          /\ bufs' = [b \in BufId |-> IF \E i \in 1 .. m : all[i] = b
                                       THEN [pos |-> 0, last |-> 0, temp |-> bufs[b].temp]
                                       ELSE bufs[b]]
          /\ last' = [last EXCEPT ![dir] = Rewind(rest)]
  BY DEF UpdateChains
<1>2. /\ dir \in Dir /\ BufSize \in Nat /\ bufs \in [BufId -> Buf]
      /\ busy \in [Dir -> Seq(BufId)] /\ out \in [Dir -> Seq(BufId)]
      /\ free \in Seq(BufId) /\ last \in [Dir -> 0 .. BufSize]
  BY ConstantsAssumption DEF Types, RunOK, DataOK
<1>3. all \in Seq(BufId) /\ Len(all) \in Nat /\ m \in Nat /\ m <= Len(all)
  BY <1>2
<1>4. SubSeq(all, m + 1, Len(all)) \in Seq(BufId) /\ SubSeq(all, 1, m) \in Seq(BufId)
  <2> HIDE DEF all
  <2> QED
    BY <1>3, Piece
<1> DEFINE rest == SubSeq(all, m + 1, Len(all))
           sentOut == SubSeq(all, 1, m)
<1>41. /\ busy' = [busy EXCEPT ![dir] = rest]
      /\ free' = Reverse(sentOut) \o free
      /\ last' = [last EXCEPT ![dir] = Rewind(rest)]
  BY <1>1
<1>42. \A b \in BufId : \/ bufs'[b] = bufs[b]
                       \/ bufs'[b] = [pos |-> 0, last |-> 0, temp |-> bufs[b].temp]
  BY <1>1
<1>43. bufs' = [b \in BufId |-> bufs'[b]]
  BY <1>1
<1>44. rest \in Seq(BufId) /\ sentOut \in Seq(BufId)
  BY <1>4
<1> HIDE DEF rest, sentOut
<1>5. busy' \in [Dir -> Seq(BufId)]
  BY <1>41, <1>44, <1>2
<1>6. Reverse(sentOut) \in Seq(BufId)
  <2>1. Len(sentOut) \in Nat
    BY <1>44
  <2>2. \A i \in 1 .. Len(sentOut) : sentOut[(Len(sentOut) - i) + 1] \in BufId
    BY <1>44, <2>1
  <2> QED
    BY <2>1, <2>2 DEF Reverse
<1>7. free' \in Seq(BufId)
  BY <1>41, <1>2, <1>6
<1>8. bufs' \in [BufId -> Buf]
  <2>1. ASSUME NEW b \in BufId PROVE bufs'[b] \in Buf
    <3>1. bufs[b] \in Buf
      BY <1>2
    <3>2. [pos |-> 0, last |-> 0, temp |-> bufs[b].temp] \in Buf
      BY <3>1, <1>2 DEF Buf
    <3> QED
      BY <3>1, <3>2, <1>42
  <2> QED
    BY <1>43, <2>1
<1>9. last' \in [Dir -> 0 .. BufSize]
  <2>1. Rewind(rest) \in 0 .. BufSize
    BY <1>2 DEF Rewind
  <2> QED
    BY <1>41, <1>2, <2>1
<1>10. out' \in [Dir -> Seq(BufId)]
  <2>1. out' = [out EXCEPT ![dir] = <<>>]
    BY DEF UpdateChains
  <2>2. <<>> \in Seq(BufId)
    OBVIOUS
  <2> QED
    BY <1>2, <2>1, <2>2
<1>11. DataOK'
  BY <1>5, <1>7, <1>8, <1>9, <1>10 DEF Types, DataOK, UpdateChains
<1>12. KernelOK' /\ EpollOK' /\ EventsOK' /\ ConnsOK' /\ UpstreamOK'
  BY Kept DEF Types, UpdateChains
<1>13. RunOK'
  BY DEF Types, UpdateChains, RunOK, Step
<1> QED
  BY <1>11, <1>12, <1>13 DEF Types

-----------------------------------------------------------------------------
(* ngx_stream_proxy_process(): reading and finishing. *)

\* What is free for a read lies between last and the end of the buffer.
LEMMA RoomInBuffer ==
    ASSUME Types
    PROVE  Room \in 0 .. BufSize /\ RecvSize \in Int /\ RecvSize <= Room
<1>1. BufSize \in Nat /\ last[dir] \in 0 .. BufSize /\ received[dir] \in Nat
      /\ Rate[dir] \in Nat /\ now \in Nat
  BY ConstantsAssumption DEF Types, DataOK, RunOK, UpstreamOK
<1>2. Room \in 0 .. BufSize
  BY <1>1 DEF Room
<1>3. Limit \in Int
  <2>1. RateOf(dir) \in Nat
    BY <1>1 DEF RateOf
  <2>2. RateOf(dir) * (now + 1) \in Int
    BY <1>1, <2>1
  <2> QED
    BY <1>1, <2>2 DEF Limit
<1> QED
  BY <1>2, <1>3 DEF RecvSize

\* A buffer taken for what was read is one the session's pool has.
LEMMA FreeBufKnown ==
    ASSUME Types, CanGetBuf, TakeFree
    PROVE  FreeBuf \in BufId /\ free' \in Seq(BufId) /\ nbufs' \in 0 .. MaxBufs
<1>1. free \in Seq(BufId) /\ nbufs \in 0 .. MaxBufs /\ MaxBufs \in Nat
  BY ConstantsAssumption DEF Types, DataOK
<1>2. CASE free # <<>>
  <2>1. Head(free) \in BufId /\ Tail(free) \in Seq(BufId)
    BY <1>1, <1>2
  <2> QED
    BY <1>1, <1>2, <2>1 DEF FreeBuf, TakeFree
<1>3. CASE free = <<>>
  BY <1>1, <1>3 DEF FreeBuf, TakeFree, CanGetBuf, BufId
<1> QED
  BY <1>2, <1>3

\* Appending n bytes that fit to the source's buffer keeps the types.
LEMMA ReceivedTypes ==
    ASSUME Types, NEW n \in 0 .. BufSize, n <= Room, Received(n)
    PROVE  /\ KernelOK' /\ EpollOK' /\ ConnsOK' /\ DataOK' /\ UpstreamOK' /\ RunOK'
           /\ timer' \subseteq Event /\ posted' \subseteq Event
           /\ delayed' \subseteq Side /\ pendingEof' \subseteq Side
<1>1. /\ dir \in Dir /\ BufSize \in Nat /\ n \in Nat
      /\ bufs \in [BufId -> Buf] /\ mem \in [Dir -> [1 .. BufSize -> Nat]]
      /\ last \in [Dir -> 0 .. BufSize] /\ received \in [Dir -> Nat]
      /\ out \in [Dir -> Seq(BufId)]
  <2>1. BufSize \in Nat
    BY ConstantsAssumption
  <2> QED
    BY <2>1 DEF Types, RunOK, DataOK
<1>2. CanGetBuf /\ TakeFree
  BY DEF Received
<1>3. last[dir] \in 0 .. BufSize /\ last[dir] + n \in 0 .. BufSize
  BY <1>1 DEF Room
<1>4. DataOK'
  <2>1. mem' \in [Dir -> [1 .. BufSize -> Nat]]
    <3> DEFINE m == [i \in 1 .. BufSize |-> IF i \in last[dir] + 1 .. last[dir] + n
                                            THEN received[dir] + (i - last[dir])
                                            ELSE mem[dir][i]]
    <3>1. mem' = [mem EXCEPT ![dir] = m]
      BY DEF Received
    <3>2. \A i \in 1 .. BufSize : mem[dir][i] \in Nat
      BY <1>1
    <3>3. ASSUME NEW i \in 1 .. BufSize, i \in last[dir] + 1 .. last[dir] + n
          PROVE  received[dir] + (i - last[dir]) \in Nat
      <4>1. last[dir] \in Int /\ i \in Int /\ last[dir] + 1 <= i /\ received[dir] \in Nat
        BY <1>1, <1>3, <3>3
      <4> QED
        BY <4>1
    <3>4. m \in [1 .. BufSize -> Nat]
      BY <3>2, <3>3
    <3> HIDE DEF m
    <3> QED
      BY <1>1, <3>1, <3>4
  <2>2. bufs' \in [BufId -> Buf]
    <3>1. [pos |-> last[dir], last |-> last[dir] + n, temp |-> n > 0] \in Buf
      BY <1>3 DEF Buf
    <3>2. bufs' = [bufs EXCEPT ![FreeBuf] = [pos |-> last[dir], last |-> last[dir] + n,
                                             temp |-> n > 0]]
      BY DEF Received
    <3> QED
      BY <1>1, <3>1, <3>2
  <2>3. out' \in [Dir -> Seq(BufId)]
    <3>1. FreeBuf \in BufId
      BY <1>2, FreeBufKnown
    <3>2. out' = [out EXCEPT ![dir] = Append(@, FreeBuf)]
      BY DEF Received
    <3>3. Append(out[dir], FreeBuf) \in Seq(BufId)
      BY <1>1, <3>1
    <3> QED
      BY <1>1, <3>2, <3>3
  <2>4. last' \in [Dir -> 0 .. BufSize] /\ received' \in [Dir -> Nat]
    <3>1. last' = [last EXCEPT ![dir] = @ + n] /\ received' = [received EXCEPT ![dir] = @ + n]
      BY DEF Received
    <3> QED
      BY <1>1, <1>3, <3>1
  <2>5. free' \in Seq(BufId) /\ nbufs' \in 0 .. MaxBufs
    BY <1>2, FreeBufKnown
  <2>6. UNCHANGED <<busy, wf>>
    BY DEF Received
  <2> QED
    BY <2>1, <2>2, <2>3, <2>4, <2>5, <2>6 DEF Types, DataOK
<1>5. KernelOK' /\ EpollOK' /\ ConnsOK' /\ UpstreamOK'
  BY Kept DEF Types, Received
<1>6. RunOK'
  BY DEF Types, Received, RunOK, Step
<1>7. /\ timer' \subseteq Event /\ posted' \subseteq Event
      /\ delayed' \subseteq Side /\ pendingEof' \subseteq Side
  <2>1. \/ delayed' = delayed \cup {Src(dir)} /\ timer' = timer \cup {Rd(Src(dir))}
        \/ UNCHANGED <<delayed, timer>>
    BY DEF Received
  <2>2. UNCHANGED <<posted, pendingEof>>
    BY DEF Received
  <2> QED
    BY <2>1, <2>2 DEF Types, EventsOK, Src, Rd
<1> QED
  BY <1>4, <1>5, <1>6, <1>7

\* The end of a read loop keeps the types, and so does the read itself.
LEMMA ReadTypes ==
    ASSUME Types,
           \/ SkipRead \/ ReadLimited \/ RecvAgain \/ RecvData \/ RecvEnd \/ RecvNoBuffer
           \/ FinishDisconnected \/ ShutdownFails \/ Finish
    PROVE  Types'
<1>1. CASE SkipRead
  <2>1. KernelOK' /\ EpollOK' /\ EventsOK' /\ ConnsOK' /\ DataOK' /\ UpstreamOK'
    BY <1>1, Kept DEF Types, SkipRead
  <2>2. RunOK'
    BY <1>1 DEF Types, SkipRead, RunOK, Step
  <2> QED
    BY <2>1, <2>2 DEF Types
<1>2. CASE ReadLimited
  <2>1. KernelOK' /\ EpollOK' /\ ConnsOK' /\ DataOK' /\ UpstreamOK'
    BY <1>2, Kept DEF Types, ReadLimited
  <2>2. EventsOK' /\ RunOK'
    BY <1>2 DEF Types, ReadLimited, EventsOK, RunOK, Step, Src, Rd
  <2> QED
    BY <2>1, <2>2 DEF Types
<1>3. CASE RecvAgain
  <2>1. KernelOK' /\ EpollOK' /\ ConnsOK' /\ DataOK' /\ UpstreamOK'
    BY <1>3, Kept DEF Types, RecvAgain
  <2>2. EventsOK' /\ RunOK'
    BY <1>3 DEF Types, RecvAgain, EventsOK, RunOK, Step
  <2> QED
    BY <2>1, <2>2 DEF Types
<1>4. CASE RecvData
  <2> DEFINE s == Src(dir)
  <2>1. PICK n \in 1 .. BufSize :
             /\ n = IF Queued(s) < RecvSize THEN Queued(s) ELSE RecvSize
             /\ avail' = [avail EXCEPT ![s] = Available(s, n)]
             /\ ready' = IF \/ avail[s] >= 0 /\ avail[s] < n
                            \/ n < RecvSize /\ s \notin pendingEof
                         THEN ready \ {Rd(s)} ELSE ready
             /\ eof' = eof /\ rerror' = rerror
             /\ Received(n)
    BY <1>4 DEF RecvData
  <2>2. dir \in Dir /\ s \in Side /\ BufSize \in Nat
    BY ConstantsAssumption DEF Types, RunOK, Src
  <2> HIDE DEF s
  <2>3. Queued(s) \in Int /\ avail[s] \in Int /\ avail \in [Side -> Int]
    <3>1. From(s) \in Dir
      BY DEF From
    <3>2. sent[From(s)] \in Nat /\ received[From(s)] \in Nat
      BY <3>1 DEF Types, KernelOK, DataOK
    <3>3. avail[s] \in Int /\ avail \in [Side -> Int]
      BY <2>2 DEF Types, EventsOK
    <3> QED
      BY <3>2, <3>3 DEF Queued
  <2>4. RecvSize \in Int /\ RecvSize <= Room /\ Room \in Int /\ n \in Nat
    BY <2>1, <2>2, RoomInBuffer
  <2>5. n \in 0 .. BufSize /\ n <= Room
    BY <2>1, <2>2, <2>3, <2>4
  <2>6. Available(s, n) \in Int
    BY <2>3, <2>4 DEF Available
  <2>7. ready' \subseteq Event /\ eof' \subseteq Side /\ rerror' \subseteq Side
    BY <2>1 DEF Types, EventsOK
  <2>8. avail' \in [Side -> Int]
    BY <2>1, <2>2, <2>3, <2>6
  <2>9. /\ KernelOK' /\ EpollOK' /\ ConnsOK' /\ DataOK' /\ UpstreamOK' /\ RunOK'
        /\ timer' \subseteq Event /\ posted' \subseteq Event
        /\ delayed' \subseteq Side /\ pendingEof' \subseteq Side
    BY <2>1, <2>5, ReceivedTypes
  <2> QED
    BY <2>7, <2>8, <2>9 DEF Types, EventsOK
<1>5. CASE RecvEnd
  <2>1. 0 \in 0 .. BufSize /\ 0 <= Room
    BY RoomInBuffer, ConstantsAssumption
  <2>2. Received(0)
    BY <1>5 DEF RecvEnd
  <2>3. /\ KernelOK' /\ EpollOK' /\ ConnsOK' /\ DataOK' /\ UpstreamOK' /\ RunOK'
        /\ timer' \subseteq Event /\ posted' \subseteq Event
        /\ delayed' \subseteq Side /\ pendingEof' \subseteq Side
    BY <2>1, <2>2, ReceivedTypes
  <2>4. /\ ready' \subseteq Event /\ eof' \subseteq Side /\ rerror' \subseteq Side
        /\ avail' \in [Side -> Int]
    BY <1>5 DEF Types, RecvEnd, EventsOK, Src
  <2> QED
    BY <2>3, <2>4 DEF Types, EventsOK
<1>6. CASE RecvNoBuffer \/ FinishDisconnected \/ ShutdownFails
  BY <1>6, FinalizeTypes DEF RecvNoBuffer, FinishDisconnected, ShutdownFails, Outcome
<1>7. CASE Finish
  <2>1. KernelOK' /\ DataOK'
    BY <1>7, Kept DEF Types, Finish
  <2>2. EpollOK'
    <3> DEFINE E == {e \in {Rd(Src(dir))} \cup (IF DstUp THEN {Wr(Dst(dir))} ELSE {}) :
                        Unhandled(e)}
    <3>1. Register(E) /\ revents' = revents
      BY <1>7 DEF Finish
    <3>2. E \in SUBSET Event
      BY DEF Rd, Wr
    <3> QED
      BY <3>1, <3>2, RegisterTypes DEF Types
  <2>3. EventsOK'
    BY <1>7 DEF Types, Finish, EventsOK, IdleTimers
  <2>4. ConnsOK'
    BY <1>7 DEF Types, Finish, ConnsOK, Dst
  <2>5. UpstreamOK' /\ RunOK'
    BY <1>7 DEF Types, Finish, UpstreamOK, RunOK, Step
  <2> QED
    BY <2>1, <2>2, <2>3, <2>4, <2>5 DEF Types
<1> QED
  BY <1>1, <1>2, <1>3, <1>4, <1>5, <1>6, <1>7

-----------------------------------------------------------------------------
\* Every step of a session keeps the types.
LEMMA TypesStep == Types /\ [Next]_vars => Types'
<1> SUFFICES ASSUME Types, [Next]_vars PROVE Types'
  OBVIOUS
<1>1. CASE Connecting
  BY <1>1, ConnectingTypes
<1>2. CASE Loop
  BY <1>2, LoopTypes
<1>3. CASE Process
  BY <1>3, WriteTypes, UpdateTypes, ReadTypes DEF Process
<1>4. CASE Remote
  BY <1>4, RemoteTypes
<1>5. CASE UNCHANGED vars
  BY <1>5, Kept DEF Types, vars
<1> QED
  BY <1>1, <1>2, <1>3, <1>4, <1>5 DEF Next, Done

\* A session keeps its types, whatever the sizes of the buffers, the rates, the
\* number of peers and the failures: in particular no buffer is filled beyond
\* its end or sent beyond what it holds.
THEOREM TypeCorrect == Spec => []TypeOK
BY TypesInit, TypesStep, Regrouped, PTL DEF Spec

-----------------------------------------------------------------------------
(* The timers.                                                             *)

Relaying == {"write", "send", "update", "read", "finish"}

\* TimerGuards speaks of a session at rest.  The invariant also follows the
\* timers through the handlers: the connect timer through relaying that starts
\* before the upstream is connected, and a rate limit's delay, which is set and
\* deleted together with its timer, everywhere.
TimerInv ==
    /\ step # "done" => \A s \in Side : s \in delayed <=> Rd(s) \in timer
    /\ step \in Relaying \cup {"idle"} =>
          IF connected THEN "uw" \notin timer
          ELSE IF "u" \in open THEN "uw" \in timer ELSE resolving
    /\ step = "idle" /\ connected => ("cw" \in timer <=> delayed = {})
    /\ step \in {"connect", "dial", "init"} => "uw" \notin timer /\ ~connected
    /\ step \in Relaying /\ ~connected => dir = "up"
    /\ ~connected => "u" \notin delayed
    /\ resolving => /\ "uw" \notin timer /\ "u" \notin open /\ ~connected
                    /\ (active \cup posted) \cap UpEvents = {}
                    /\ step \in Relaying \cup {"idle"}

\* The variables the timers depend on.
timing == <<timer, delayed, step, connected, open, resolving, dir, active, posted>>

\* A session that ends has no timers.
LEMMA FinalizeTimers == ASSUME TimerInv, NEW why, Finalize(why) PROVE TimerInv'
BY DEF TimerInv, Finalize, Relaying

\* A failed peer's connect timer goes with its connection.
LEMMA NextUpstreamTimers ==
    ASSUME TimerInv, NextUpstream, ~connected, ~resolving, step # "done" PROVE TimerInv'
<1>1. CASE Finalize("internal") \/ Finalize("bad gateway")
  BY <1>1, FinalizeTimers
<1>2. CASE ~(Finalize("internal") \/ Finalize("bad gateway"))
  <2>1. /\ step' = "connect" /\ timer' = timer \ UpEvents
        /\ UNCHANGED <<delayed, connected, resolving>>
    BY <1>2 DEF NextUpstream
  <2>2. "u" \notin delayed /\ step # "done"
    BY DEF TimerInv
  <2> QED
    BY <2>1, <2>2 DEF TimerInv, Relaying, UpEvents, Rd
<1> QED
  BY <1>1, <1>2

\* The connect timer runs exactly while connect() is in progress.
LEMMA ConnectingTimers == ASSUME TimerInv, Connecting PROVE TimerInv'
<1>1. CASE Resolved
  <2>1. CASE Finalize("internal")
    BY <2>1, FinalizeTimers
  <2>2. CASE ~Finalize("internal")
    <3>1. /\ step = "idle" /\ resolving /\ ~resolving' /\ step' = "connect"
          /\ UNCHANGED <<timer, delayed, connected>>
      BY <1>1, <2>2 DEF Resolved, events
    <3> QED
      BY <3>1 DEF TimerInv, Relaying
  <2> QED
    BY <2>1, <2>2
<1>2. CASE GetPeer
  <2>1. CASE Finalize("bad gateway")
    BY <2>1, FinalizeTimers
  <2>2. CASE ~Finalize("bad gateway")
    <3>1. /\ step = "connect" /\ ~connected' /\ step' = "dial"
          /\ UNCHANGED <<timer, delayed, resolving>>
      BY <1>2, <2>2 DEF GetPeer, events
    <3> QED
      BY <3>1 DEF TimerInv, Relaying
  <2> QED
    BY <2>1, <2>2
<1>3. CASE DialFails
  <2>1. ~connected /\ ~resolving /\ step # "done"
    BY <1>3 DEF DialFails, TimerInv, Relaying
  <2> QED
    BY <1>3, <2>1, FinalizeTimers, NextUpstreamTimers DEF DialFails
<1>4. CASE ConnectAgain
  BY <1>4 DEF TimerInv, ConnectAgain, NewUpstream, ConnectTimers, Relaying, UpEvents, Rd, upstream
<1>5. CASE ConnectNow
  BY <1>5 DEF TimerInv, ConnectNow, NewUpstream, Relaying, UpEvents, Rd, upstream
<1>6. CASE ConnectTimeout
  <2>1. ~connected /\ ~resolving /\ step # "done"
    BY <1>6 DEF ConnectTimeout, TimerInv
  <2> QED
    BY <1>6, <2>1, NextUpstreamTimers DEF ConnectTimeout
<1>7. CASE InitUpstream
  <2>1. ~connected /\ ~resolving /\ step # "done"
    BY <1>7 DEF InitUpstream, TimerInv, Relaying
  <2>2. CASE NextUpstream \/ Finalize("internal")
    BY <2>1, <2>2, FinalizeTimers, NextUpstreamTimers
  <2>3. CASE ~(NextUpstream \/ Finalize("internal"))
    BY <1>7, <2>1, <2>3 DEF TimerInv, InitUpstream, Relaying, UpEvents, Rd, epoll, conns
  <2> QED
    BY <2>2, <2>3
<1>8. ASSUME NEW e \in UpEvents, ConnectHandler(e) PROVE TimerInv'
  <2>1. ~connected /\ ~resolving /\ step # "done"
    BY <1>8 DEF ConnectHandler, TimerInv, UpEvents
  <2>2. CASE NextUpstream
    BY <2>1, <2>2, NextUpstreamTimers
  <2>3. CASE ~NextUpstream
    BY <1>8, <2>1, <2>3 DEF TimerInv, ConnectHandler, Relaying, UpEvents, Rd, epoll, conns, upstream
  <2> QED
    BY <2>2, <2>3
<1> QED
  BY <1>1, <1>2, <1>3, <1>4, <1>5, <1>6, <1>7, <1>8 DEF Connecting

\* The event loop sets no timer; a timer of a rate limit that expires hands
\* over to the idle timer.
LEMMA LoopTimers == ASSUME TimerInv, Types, Loop PROVE TimerInv'
<1>1. CASE EpollWait
  BY <1>1 DEF TimerInv, EpollWait, Relaying, events, conns, upstream, run
<1>2. ASSUME NEW s \in Side, DispatchRead(s) PROVE TimerInv'
  BY <1>2 DEF TimerInv, DispatchRead, Relaying, UpEvents, Rd, conns, upstream, run
<1>3. ASSUME NEW s \in Side, DispatchWrite(s) PROVE TimerInv'
  BY <1>3 DEF TimerInv, DispatchWrite, Relaying, UpEvents, Wr, conns, upstream, run
<1>4. ASSUME NEW e \in Event, Handler(e) PROVE TimerInv'
  <2>1. CASE Finalize("shutdown")
    BY <2>1, FinalizeTimers
  <2>2. CASE ~Finalize("shutdown")
    <3>1. /\ step = "idle" /\ (SideOf(e) = "u" => connected)
          /\ posted' = posted \ {e} /\ active' \subseteq active \cup {e}
          /\ UNCHANGED <<timer, delayed, connected, open, resolving>>
      BY <1>4, <2>2 DEF Handler, Register, conns, upstream
    <3>2. \/ UNCHANGED run
          \/ step' = "write" /\ dir' = DirOf(e) /\ (DirOf(e) = "down" => connected)
      BY <1>4, <2>2 DEF Handler
    <3>3. ~connected => e \notin UpEvents
      BY <3>1 DEF SideOf, UpEvents
    <3> QED
      BY <3>1, <3>2, <3>3 DEF TimerInv, Relaying, UpEvents, run, DirOf
  <2> QED
    BY <2>1, <2>2
<1>5. ASSUME NEW e \in Event, DelayTimeout(e) PROVE TimerInv'
  <2>1. CASE Finalize("shutdown")
    BY <2>1, FinalizeTimers
  <2>2. CASE ~Finalize("shutdown")
    <3>1. /\ step = "idle" /\ Reading(e) /\ SideOf(e) \in delayed
          /\ delayed' = delayed \ {SideOf(e)} /\ active' \subseteq active \cup {e}
          /\ UNCHANGED <<posted, connected, open, resolving>>
      BY <1>5, <2>2 DEF DelayTimeout, Register, conns, upstream
    <3>2. \/ /\ timer' = (timer \ {e}) \cup (IF connected /\ delayed' = {} THEN {"cw"} ELSE {})
             /\ UNCHANGED run
          \/ /\ timer' = timer \ {e} /\ UNCHANGED run
             /\ DirOf(e) = "down" /\ ~connected
          \/ /\ timer' = timer \ {e} /\ step' = "write" /\ dir' = DirOf(e)
             /\ DirOf(e) = "down" => connected
      BY <1>5, <2>2 DEF DelayTimeout
    <3>3. e = Rd(SideOf(e)) /\ (~connected => e \notin UpEvents)
      BY <3>1 DEF SideOf, UpEvents, Rd, Reading, TimerInv
    <3> QED
      BY <3>1, <3>2, <3>3 DEF TimerInv, Relaying, UpEvents, Rd, SideOf, Reading, run, DirOf
  <2> QED
    BY <2>1, <2>2
<1>6. ASSUME NEW e \in Event, IdleTimeout(e) PROVE TimerInv'
  BY <1>6, FinalizeTimers DEF IdleTimeout
<1>7. CASE ShutdownTimeout
  <2>1. /\ posted' = posted \cup {Rd(s) : s \in open} /\ open \subseteq Side
        /\ UNCHANGED <<timer, delayed, step, connected, open, resolving, dir, active>>
    BY <1>7 DEF ShutdownTimeout, ShutdownCalls, epoll, upstream, run, Types, ConnsOK
  <2>2. resolving => posted' \cap UpEvents = posted \cap UpEvents
    BY <2>1 DEF TimerInv, Rd, UpEvents
  <2> QED
    BY <2>1, <2>2 DEF TimerInv
<1> QED
  BY <1>1, <1>2, <1>3, <1>4, <1>5, <1>6, <1>7 DEF Loop

\* Relaying delays a source together with its timer and leaves the idle timer
\* to the end of the handler.
LEMMA ProcessTimers == ASSUME TimerInv, Types, Process PROVE TimerInv'
<1>1. CASE SkipWrite \/ SendBlocked \/ SendBytes \/ SendDone \/ UpdateChains
  <2>1. /\ step \in Relaying /\ step' \in Relaying
        /\ UNCHANGED <<timer, delayed, connected, open, resolving, dir, active, posted>>
    BY <1>1 DEF SkipWrite, SendBlocked, SendBytes, SendDone, UpdateChains, Relaying,
         epoll, events, conns, upstream, run
  <2> QED
    BY <2>1 DEF TimerInv, Relaying
<1>2. CASE WriteFilter
  <2>1. CASE Finalize("write error")
    BY <2>1, FinalizeTimers
  <2>2. CASE ~Finalize("write error")
    <3>1. /\ step \in Relaying /\ step' \in Relaying
          /\ UNCHANGED <<timer, delayed, connected, open, resolving, dir, active, posted>>
      BY <1>2, <2>2 DEF WriteFilter, Relaying, epoll, events, upstream
    <3> QED
      BY <3>1 DEF TimerInv, Relaying
  <2> QED
    BY <2>1, <2>2
<1>3. CASE SendFails \/ RecvNoBuffer \/ FinishDisconnected \/ ShutdownFails
  BY <1>3, FinalizeTimers DEF SendFails, RecvNoBuffer, FinishDisconnected, ShutdownFails
<1>4. CASE SkipRead \/ RecvAgain
  <2>1. /\ step \in Relaying /\ step' \in Relaying
        /\ UNCHANGED <<timer, delayed, connected, open, resolving, dir, active, posted>>
    BY <1>4 DEF SkipRead, RecvAgain, MayRead, Relaying, epoll, events, conns, upstream
  <2> QED
    BY <2>1 DEF TimerInv, Relaying
<1>5. CASE ReadLimited \/ RecvData \/ RecvEnd
  <2>1. /\ step \in Relaying /\ step' \in Relaying
        /\ UNCHANGED <<connected, open, resolving, dir, active, posted>>
    BY <1>5 DEF ReadLimited, RecvData, RecvEnd, Received, MayRead, Relaying, epoll, conns, upstream
  <2>2. \/ delayed' = delayed \cup {Src(dir)} /\ timer' = timer \cup {Rd(Src(dir))}
        \/ UNCHANGED <<delayed, timer>>
    BY <1>5 DEF ReadLimited, RecvData, RecvEnd, Received
  <2>3. dir \in Dir
    BY DEF Types, RunOK
  <2> QED
    BY <2>1, <2>2, <2>3 DEF TimerInv, Relaying, Src, Rd
<1>6. CASE Finish
  <2>1. /\ step = "finish" /\ step' = "idle" /\ timer' = IdleTimers
        /\ active' \subseteq active \cup {Rd(Src(dir))} \cup (IF DstUp THEN {Wr(Dst(dir))} ELSE {})
        /\ UNCHANGED <<delayed, connected, open, resolving, dir, posted>>
    BY <1>6 DEF Finish, Register
  <2>2. CASE connected
    BY <2>1, <2>2 DEF TimerInv, IdleTimers, DstUp, Relaying, Rd
  <2>3. CASE ~connected
    <3>1. dir = "up" /\ timer' = timer /\ active' \subseteq active \cup {"cr"}
      BY <2>1, <2>3 DEF TimerInv, IdleTimers, DstUp, Relaying, Rd, Src
    <3> QED
      BY <2>1, <2>3, <3>1 DEF TimerInv, Relaying, UpEvents, Rd
  <2> QED
    BY <2>2, <2>3
<1> QED
  BY <1>1, <1>2, <1>3, <1>4, <1>5, <1>6 DEF Process

\* Every step keeps the timers' invariant.
LEMMA TimerStep == TimerInv /\ Types /\ [Next]_vars => TimerInv'
<1> SUFFICES ASSUME TimerInv, Types, [Next]_vars PROVE TimerInv'
  OBVIOUS
<1>1. CASE Remote
  <2>1. UNCHANGED timing
    BY <1>1 DEF Remote, RemoteSend, RemoteFin, RemoteReset, RemoteTake, ConnectCompletes, Tick,
         timing, epoll, events, conns, upstream, run
  <2> QED
    BY <2>1 DEF TimerInv, timing
<1>2. CASE UNCHANGED vars
  <2>1. UNCHANGED timing
    BY <1>2 DEF vars, timing, epoll, events, conns, upstream, run
  <2> QED
    BY <2>1 DEF TimerInv, timing
<1> QED
  BY <1>1, <1>2, ConnectingTimers, LoopTimers, ProcessTimers DEF Next, Done

\* A session at rest always has the timer that bounds it: the connect timer is
\* there for connect_handler() to delete, the idle timer gives way to the rate
\* limits' timers and comes back.
THEOREM TimersGuard == Spec => []TimerGuards
<1>1. Init => TimerInv
  BY DEF Init, TimerInv, Relaying, Rd, UpEvents
<1>2. TimerInv => TimerGuards
  BY DEF TimerInv, TimerGuards, Relaying
<1>3. Spec => []Types
  BY TypesInit, TypesStep, PTL DEF Spec
<1> QED
  BY <1>1, <1>2, <1>3, TimerStep, PTL DEF Spec

-----------------------------------------------------------------------------
(* The rate limit.                                                         *)

\* Until the upstream is connected all that has been read is in the client's
\* buffer, from which nothing is sent; so what has been read without a limit
\* when the rates become known is no more than a buffer.
RateInv ==
    /\ step \in {"send", "update"} => connected
    /\ ~connected => received["down"] = 0 /\ received["up"] = last["up"]
    /\ early <= BufSize
    /\ \A d \in Dir : Rate[d] > 0 =>
          received[d] <= Unlimited(d) \/ received[d] <= Rate[d] * (now + 1)

LEMMA RateInvIsBound == Types /\ RateInv => RateBound
<1> SUFFICES ASSUME Types, RateInv, NEW d \in Dir
             PROVE  Unlimited(d) <= IF d = "up" THEN BufSize ELSE 0
  BY DEF RateInv, RateBound
<1>1. last["up"] \in 0 .. BufSize /\ BufSize \in Nat
  BY ConstantsAssumption DEF Types, DataOK
<1> QED
  BY <1>1 DEF RateInv, Unlimited

\* What the invariant depends on, but for the step.
rating == <<received, last, now, connected, early>>

\* The end of a session and a retry read nothing.
LEMMA EndsRate ==
    /\ \A why : Finalize(why) => UNCHANGED rating /\ step' = "done"
    /\ NextUpstream => UNCHANGED rating /\ step' \in {"done", "connect"}
<1>1. \A why : Finalize(why) => UNCHANGED rating /\ step' = "done"
  BY DEF Finalize, data, rating
<1> QED
  BY <1>1 DEF NextUpstream, data, rating

LEMMA RateKept ==
    ASSUME RateInv, UNCHANGED rating, step' \in {"send", "update"} => connected
    PROVE  RateInv'
BY DEF RateInv, rating, Unlimited

LEMMA ConnectingRate == ASSUME Types, TimerInv, RateInv, Connecting PROVE RateInv'
<1>1. CASE UNCHANGED rating
  <2>1. step' \notin {"send", "update"}
    BY EndsRate DEF Connecting, Resolved, GetPeer, DialFails, ConnectAgain, ConnectNow,
       ConnectTimeout, InitUpstream, ConnectHandler
  <2> QED
    BY <1>1, <2>1, RateKept
<1>2. CASE GetPeer
  <2>1. ~connected
    BY <1>2 DEF GetPeer, TimerInv
  <2>2. connected \in BOOLEAN
    BY DEF Types, UpstreamOK
  <2>3. UNCHANGED rating
    BY <1>2, <2>1, <2>2, EndsRate DEF GetPeer, data, rating
  <2> QED
    BY <1>1, <2>3
<1>3. CASE InitUpstream /\ ~UNCHANGED rating
  <2>1. /\ connected' = TRUE /\ early' = received["up"] /\ UNCHANGED <<received, last, now>>
        /\ step' = "write" /\ step = "init"
    BY <1>3, EndsRate DEF InitUpstream, data
  <2>2. ~connected
    BY <2>1 DEF TimerInv
  <2>3. received["down"] = 0 /\ received["up"] = last["up"] /\ last["up"] <= BufSize
    BY <2>2 DEF RateInv, Types, DataOK
  <2>4. ASSUME NEW d \in Dir PROVE received'[d] <= Unlimited(d)'
    BY <2>1, <2>3, ConstantsAssumption DEF Unlimited, Types, DataOK
  <2> QED
    BY <2>1, <2>3, <2>4 DEF RateInv
<1>4. ASSUME \/ Resolved \/ DialFails \/ ConnectAgain \/ ConnectNow \/ ConnectTimeout
             \/ \E e \in UpEvents : ConnectHandler(e)
      PROVE  UNCHANGED rating
  BY <1>4, EndsRate DEF Resolved, DialFails, ConnectAgain, ConnectNow, NewUpstream,
     ConnectTimeout, ConnectHandler, data, upstream, rating
<1> QED
  BY <1>1, <1>2, <1>3, <1>4 DEF Connecting

LEMMA LoopRate == ASSUME RateInv, Loop PROVE RateInv'
<1>1. UNCHANGED rating
  BY EndsRate DEF Loop, EpollWait, ShutdownTimeout, DispatchRead, DispatchWrite, Handler,
     DelayTimeout, IdleTimeout, data, upstream, rating
<1>2. step = "idle"
  BY DEF Loop, EpollWait, ShutdownTimeout, DispatchRead, DispatchWrite, Handler,
     DelayTimeout, IdleTimeout
<1>3. step' \in {"idle", "write", "done"}
  BY <1>2, EndsRate DEF Loop, EpollWait, ShutdownTimeout, DispatchRead, DispatchWrite, Handler,
     DelayTimeout, IdleTimeout, run
<1> QED
  BY <1>1, <1>3, RateKept

\* A read is cut to what the limit leaves, when there is one.
LEMMA ReceivedRate ==
    ASSUME Types, TimerInv, RateInv, MayRead, NEW n \in Nat, n <= RecvSize, Received(n)
    PROVE  RateInv'
<1>1. /\ received \in [Dir -> Nat] /\ now \in Nat /\ Rate \in [Dir -> Nat] /\ dir \in Dir
      /\ last \in [Dir -> 0 .. BufSize] /\ BufSize \in Nat /\ connected \in BOOLEAN
  BY ConstantsAssumption DEF Types, DataOK, UpstreamOK, RunOK
<1>2. /\ received' = [received EXCEPT ![dir] = @ + n] /\ last' = [last EXCEPT ![dir] = @ + n]
      /\ step' = "write" /\ step = "read" /\ UNCHANGED <<now, connected, early>>
  BY DEF Received, MayRead, upstream
<1>3. ~connected => dir = "up"
  BY <1>2 DEF TimerInv, Relaying
<1>4. ~connected' => received'["down"] = 0 /\ received'["up"] = last'["up"]
  BY <1>1, <1>2, <1>3 DEF RateInv
<1>5. ASSUME NEW d \in Dir, Rate[d] > 0
      PROVE  received'[d] <= Unlimited(d)' \/ received'[d] <= Rate[d] * (now' + 1)
  <2>1. CASE ~connected
    BY <1>1, <1>2, <2>1 DEF Unlimited
  <2>2. CASE connected /\ d # dir
    <3>1. received'[d] = received[d] /\ Unlimited(d)' = Unlimited(d)
      BY <1>1, <1>2, <2>2 DEF Unlimited
    <3> QED
      BY <1>2, <1>5, <3>1 DEF RateInv
  <2>3. CASE connected /\ d = dir
    <3>1. Rate[d] * (now + 1) \in Int
      BY <1>1
    <3>2. Limit = Rate[d] * (now + 1) - received[d]
      BY <2>3 DEF Limit, RateOf
    <3>3. RecvSize \in Int /\ RecvSize <= Limit
      BY <1>1, <1>5, <2>3, <3>1, <3>2, RoomInBuffer DEF RecvSize, RateOf
    <3>4. received'[d] = received[d] + n
      BY <1>1, <1>2, <2>3
    <3> QED
      BY <1>1, <1>2, <3>1, <3>2, <3>3, <3>4
  <2> QED
    BY <1>1, <2>1, <2>2, <2>3
<1> QED
  BY <1>2, <1>4, <1>5 DEF RateInv

LEMMA ProcessRate == ASSUME Types, TimerInv, RateInv, Process PROVE RateInv'
<1>1. CASE WriteFilter
  <2>1. UNCHANGED rating
    BY <1>1, EndsRate DEF WriteFilter, upstream, rating
  <2>2. step' \in {"send", "update"} => connected
    BY <1>1, EndsRate DEF WriteFilter, Writes, DstUp, TimerInv, Relaying, Types, RunOK
  <2> QED
    BY <2>1, <2>2, RateKept
<1>2. CASE SendBlocked \/ SendBytes \/ SendDone
  <2>1. UNCHANGED rating /\ step = "send"
    BY <1>2 DEF SendBlocked, SendBytes, SendDone, data, upstream, rating
  <2> QED
    BY <2>1, RateKept DEF RateInv
<1>3. CASE UpdateChains
  <2>1. step = "update" /\ step' = "read" /\ UNCHANGED <<received, now, connected, early>>
    BY <1>3 DEF UpdateChains, upstream
  <2> QED
    BY <2>1 DEF RateInv, Unlimited
<1>4. CASE \/ SkipWrite \/ SkipRead \/ ReadLimited \/ RecvAgain
           \/ SendFails \/ RecvNoBuffer \/ FinishDisconnected \/ ShutdownFails \/ Finish
  <2>1. UNCHANGED rating /\ step' \in {"read", "finish", "done", "idle"}
    BY <1>4, EndsRate DEF SkipWrite, SkipRead, ReadLimited, RecvAgain, SendFails, RecvNoBuffer,
       FinishDisconnected, ShutdownFails, Finish, data, upstream, rating
  <2> QED
    BY <2>1, RateKept
<1>5. CASE RecvData
  <2> DEFINE s == Src(dir)
  <2>1. PICK n \in 1 .. BufSize :
             n = (IF Queued(s) < RecvSize THEN Queued(s) ELSE RecvSize) /\ Received(n)
    BY <1>5 DEF RecvData
  <2>2. RecvSize \in Int /\ n \in Nat /\ BufSize \in Nat
    BY RoomInBuffer, ConstantsAssumption
  <2>3. sent[From(s)] \in Nat /\ received[From(s)] \in Nat
    BY DEF Types, KernelOK, DataOK, From
  <2>4. Queued(s) \in Int
    BY <2>3 DEF Queued
  <2>5. n <= RecvSize
    BY <2>1, <2>2, <2>4
  <2> QED
    BY <1>5, <2>1, <2>2, <2>5, ReceivedRate DEF RecvData
<1>6. CASE RecvEnd
  <2>1. Room > 0 /\ Room \in Nat /\ RecvSize \in Int
    BY <1>6, RoomInBuffer, ConstantsAssumption DEF RecvEnd, MayRead, Reads
  <2>2. 0 <= RecvSize
    <3>1. RateOf(dir) \in Nat
      BY ConstantsAssumption DEF RateOf, Types, RunOK
    <3>2. RateOf(dir) > 0 => Limit > 0
      BY <1>6 DEF RecvEnd, MayRead
    <3>3. Limit \in Int
      <4>1. RateOf(dir) * (now + 1) \in Int /\ received[dir] \in Nat
        BY <3>1 DEF Types, UpstreamOK, DataOK, RunOK
      <4> QED
        BY <4>1 DEF Limit
    <3> QED
      BY <2>1, <3>1, <3>2, <3>3 DEF RecvSize
  <2> QED
    BY <1>6, <2>2, ReceivedRate DEF RecvEnd
<1> QED
  BY <1>1, <1>2, <1>3, <1>4, <1>5, <1>6 DEF Process

\* A second more allows no less.
LEMMA MoreAllowed == ASSUME NEW r \in Nat, NEW t \in Nat PROVE r * (t + 1) <= r * ((t + 1) + 1)
<1>1. r * ((t + 1) + 1) = r * (t + 1) + r
  OBVIOUS
<1>2. r * (t + 1) \in Int
  OBVIOUS
<1> QED
  BY <1>1, <1>2

LEMMA RateStep == Types /\ TimerInv /\ RateInv /\ [Next]_vars => RateInv'
<1> SUFFICES ASSUME Types, TimerInv, RateInv, [Next]_vars PROVE RateInv'
  OBVIOUS
<1>1. CASE Remote /\ ~Tick
  <2>1. UNCHANGED rating /\ UNCHANGED step
    BY <1>1 DEF Remote, RemoteSend, RemoteFin, RemoteReset, RemoteTake, ConnectCompletes,
       data, upstream, run, rating
  <2> QED
    BY <2>1, RateKept DEF RateInv
<1>2. CASE Tick
  <2>1. now' = now + 1 /\ UNCHANGED <<received, last, connected, early, step>>
    BY <1>2 DEF Tick, data, run
  <2>2. received \in [Dir -> Nat] /\ now \in Nat /\ Rate \in [Dir -> Nat]
    BY ConstantsAssumption DEF Types, DataOK, UpstreamOK
  <2>3. ASSUME NEW d \in Dir, Rate[d] > 0
        PROVE  received'[d] <= Unlimited(d)' \/ received'[d] <= Rate[d] * (now' + 1)
    <3>1. /\ received[d] \in Int /\ Rate[d] * (now + 1) \in Int
          /\ Rate[d] * ((now + 1) + 1) \in Int
      BY <2>2
    <3>2. Rate[d] * (now + 1) <= Rate[d] * ((now + 1) + 1)
      BY <2>2, MoreAllowed
    <3>3. received[d] <= Unlimited(d) \/ received[d] <= Rate[d] * (now + 1)
      BY <2>3 DEF RateInv
    <3>4. Unlimited(d)' = Unlimited(d)
      BY <2>1 DEF Unlimited
    <3> QED
      BY <2>1, <3>1, <3>2, <3>3, <3>4
  <2> QED
    BY <2>1, <2>3 DEF RateInv
<1>3. CASE UNCHANGED vars
  <2>1. UNCHANGED rating /\ UNCHANGED step
    BY <1>3 DEF vars, data, upstream, run, rating
  <2> QED
    BY <2>1, RateKept DEF RateInv
<1> QED
  BY <1>1, <1>2, <1>3, ConnectingRate, LoopRate, ProcessRate DEF Next, Done

\* proxy_upload_rate and proxy_download_rate are kept for any rates, buffer
\* sizes and moments of the clock: what is read before the upstream is
\* connected, while they are not yet set, is no more than a buffer, and from
\* then on nothing is read that the rate does not allow.
THEOREM RateNeverExceeded == Spec => []RateBound
<1>1. Init => TimerInv
  BY DEF Init, TimerInv, Relaying, Rd, UpEvents
<1>2. Init => RateInv
  BY ConstantsAssumption DEF Init, RateInv, Unlimited
<1>3. Spec => []Types
  BY TypesInit, TypesStep, PTL DEF Spec
<1>4. Types /\ TimerInv /\ RateInv /\ [Next]_vars => (TimerInv /\ RateInv)'
  BY TimerStep, RateStep
<1> QED
  BY <1>1, <1>2, <1>3, <1>4, RateInvIsBound, PTL DEF Spec

=============================================================================
