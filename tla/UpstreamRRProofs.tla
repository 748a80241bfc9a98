--------------------------- MODULE UpstreamRRProofs ---------------------------
(***************************************************************************)
(* Proofs about UpstreamRR, for any number of peers and of sessions.       *)
(***************************************************************************)
EXTENDS UpstreamRR, FiniteSetTheorems, TLAPS

\* The types the proofs need: those of the locks, of conns and of the sessions
Types ==
    /\ rwlock \in [Group -> Int] /\ lock \in [Peer -> {0, WLocked}]
    /\ conns \in [Peer -> Int]
    /\ group \in [Session -> Group] /\ current \in [Session -> Peer \cup {NoPeer}]
    /\ held \subseteq Session
    /\ pc \in [Session -> {"start", "get", "pick", "take", "relock", "dial", "up", "enter",
                           "lockpeer", "load", "update", "leave", "done"}]
    /\ job \in [Session -> {"failed", "ended", "connected"}]
    /\ loaded \in [Session -> Int]

Writers(g) == {s \in Session : Writing(s) /\ group[s] = g}
Readers(g) == {s \in Session : Reading(s) /\ group[s] = g}

\* A list's lock word tells who is inside: one writer, or so many readers
ListLocks ==
    \A g \in Group :
       \/ /\ rwlock[g] = WLocked /\ Readers(g) = {}
          /\ \A s, t \in Writers(g) : s = t
       \/ rwlock[g] = Cardinality(Readers(g)) /\ Writers(g) = {}

\* A peer's lock is held by the one session inside
PeerLocks ==
    /\ \A s \in Session : Locking(s) => lock[current[s]] = WLocked
    /\ \A s, t \in Session : Locking(s) /\ Locking(t) /\ current[s] = current[t] => s = t

\* A session that has been given a peer keeps the list it is in
InList ==
    \A s \in Session :
       pc[s] \in {"take", "dial", "up", "enter", "lockpeer", "load", "update", "leave"} =>
          current[s] \in PeersOf(group[s])

LockInv == Types /\ ListLocks /\ PeerLocks /\ InList

LEMMA PeersOfType == ASSUME NEW g \in Group PROVE PeersOf(g) \subseteq Peer
BY PeersAssumption DEF PeersOf, Peer, Group

LEMMA ReadersFinite ==
    ASSUME NEW g
    PROVE  IsFiniteSet(Readers(g)) /\ Cardinality(Readers(g)) \in Nat
<1>1. Readers(g) \in SUBSET Session BY DEF Readers
<1>2. IsFiniteSet(Readers(g)) BY <1>1, PeersAssumption, FS_Subset
<1> QED BY <1>2, FS_CardinalityType

LEMMA TypesInit == Init => Types
BY PeersAssumption DEF Init, Types, Group, WLocked, NoPeer

\* Every step keeps the types
LEMMA TypesNext == ASSUME Types, InList, [Next]_vars PROVE Types'
<1> USE DEF Types, Goto, NoPeer, WLocked, Group
<1>1. ASSUME NEW s \in Session, Start(s) \/ GetLock(s) PROVE Types'
  BY <1>1 DEF Start, GetLock, peers, session, locks
<1>2. ASSUME NEW s \in Session, Pick(s) PROVE Types'
  <2>1. PICK best \in Usable(s) : current' = [current EXCEPT ![s] = best]
    BY <1>2 DEF Pick
  <2>2. best \in Peer BY <2>1, PeersOfType DEF Usable
  <2> QED BY <1>2, <2>1, <2>2 DEF Pick, locks
<1>3. ASSUME NEW s \in Session, Take(s) PROVE Types'
  <2>1. current[s] \in Peer BY <1>3, PeersOfType DEF Take, InList
  <2>2. Unlocked(rwlock[group[s]]) \in Int BY DEF Unlocked
  <2> QED BY <1>3, <2>1, <2>2 DEF Take
<1>4. ASSUME NEW s \in Session, ToBackup(s) \/ Busy(s) \/ Relock(s) PROVE Types'
  <2>2. \A g \in Group : Unlocked(rwlock[g]) \in Int BY DEF Unlocked
  <2> QED BY <1>4, <2>2 DEF ToBackup, Busy, Relock, peers, session, locks
<1>5. ASSUME NEW s \in Session, Dial(s) \/ SessionEnds(s) PROVE Types'
  BY <1>5 DEF Dial, DialFails, DialAborted, DialDone, SessionEnds, Tell, peers, locks, session
<1>6. ASSUME NEW s \in Session, EnterRead(s) \/ LockPeer(s) \/ Load(s) PROVE Types'
  <2>1. CASE EnterRead(s) BY <2>1 DEF EnterRead, peers, session
  <2>2. CASE LockPeer(s)
    <3>1. current[s] \in Peer BY <2>2, PeersOfType DEF LockPeer, InList
    <3> QED BY <2>2, <3>1 DEF LockPeer, peers, session
  <2>3. CASE Load(s)
    <3>1. current[s] \in Peer BY <2>3, PeersOfType DEF Load, InList
    <3> QED BY <2>3, <3>1 DEF Load, peers, locks, session
  <2> QED BY <1>6, <2>1, <2>2, <2>3
<1>7. ASSUME NEW s \in Session, Update(s) PROVE Types'
  <2>1. current[s] \in Peer BY <1>7, PeersOfType DEF Update, InList
  <2>2. conns' \in [Peer -> Int] BY <1>7, <2>1 DEF Update
  <2>3. held' \subseteq Session BY <1>7 DEF Update
  <2> QED BY <1>7, <2>2, <2>3 DEF Update, locks
<1>8. ASSUME NEW s \in Session, Leave(s) PROVE Types'
  <2>1. current[s] \in Peer BY <1>8, PeersOfType DEF Leave, InList
  <2>2. \A g \in Group : Unlocked(rwlock[g]) \in Int BY DEF Unlocked
  <2>3. Unlocked(lock[current[s]]) \in {0, WLocked} BY <2>1 DEF Unlocked
  <2>4. lock' \in [Peer -> {0, WLocked}] BY <1>8, <2>1, <2>3 DEF Leave
  <2>5. rwlock' \in [Group -> Int] BY <1>8, <2>2 DEF Leave
  <2>6. PICK l \in {"up", "get", "done"} : pc' = [pc EXCEPT ![s] = l] BY <1>8 DEF Leave
  <2> QED BY <1>8, <2>4, <2>5, <2>6 DEF Leave, peers
<1>9. CASE Tick BY <1>9 DEF Tick, peers, locks, session
<1>10. CASE Done \/ UNCHANGED vars BY <1>10 DEF Done, vars, peers, locks, session
<1> QED BY <1>1, <1>2, <1>3, <1>4, <1>5, <1>6, <1>7, <1>8, <1>9, <1>10 DEF Next, Get, Free

-----------------------------------------------------------------------------
(* The locks.                                                              *)

LEMMA LockInit == Init => LockInv
<1> SUFFICES ASSUME Init PROVE LockInv
  OBVIOUS
<1>1. \A s \in Session : ~Writing(s) /\ ~Reading(s) /\ ~Locking(s) /\ pc[s] = "start"
  BY DEF Init, Writing, Reading, Locking
<1>2. \A g \in Group : Readers(g) = {} /\ Writers(g) = {} /\ rwlock[g] = 0
  BY <1>1 DEF Init, Readers, Writers
<1>3. ListLocks BY <1>2, FS_EmptySet DEF ListLocks
<1> QED BY <1>1, <1>3, TypesInit DEF LockInv, PeerLocks, InList

\* A session that stays inside, or outside, a list leaves its lock as it was.
LEMMA ListLocksKept ==
    ASSUME Types, ListLocks, NEW s \in Session, NEW l, Goto(s, l),
           UNCHANGED <<group, rwlock>>,
           (l \in {"pick", "take"}) <=> Writing(s),
           (l \in {"lockpeer", "load", "update", "leave"}) <=> Reading(s)
    PROVE  ListLocks'
<1>1. \A t \in Session : (Writing(t)' <=> Writing(t)) /\ (Reading(t)' <=> Reading(t))
  BY DEF Types, Goto, Writing, Reading
<1>2. \A g \in Group : Readers(g)' = Readers(g) /\ Writers(g)' = Writers(g)
  BY <1>1 DEF Readers, Writers
<1> QED BY <1>2 DEF ListLocks

\* A writer that leaves its list unlocks it.
LEMMA WriterLeaves ==
    ASSUME Types, ListLocks, NEW s \in Session, NEW l, Goto(s, l), Writing(s),
           l \notin {"pick", "take", "lockpeer", "load", "update", "leave"},
           rwlock' = [rwlock EXCEPT ![group[s]] = Unlocked(@)],
           \A t \in Session : t # s => group'[t] = group[t]
    PROVE  ListLocks'
<1>0. PICK h \in Group : h = group[s] BY DEF Types
<1>2. s \in Writers(h) BY <1>0 DEF Writers
<1>3. rwlock[h] = WLocked /\ Readers(h) = {} /\ \A t \in Writers(h) : t = s
  BY <1>2 DEF ListLocks
<1>4. \A t \in Session : /\ Writing(t)' <=> Writing(t) /\ t # s
                         /\ Reading(t)' <=> Reading(t)
  BY DEF Types, Goto, Writing, Reading
<1>5. \A g \in Group : Readers(g)' = Readers(g)
  <2> TAKE g \in Group
  <2>1. ~Reading(s) BY DEF Writing, Reading
  <2> QED BY <1>4, <2>1 DEF Readers
<1>6. Writers(h)' = {} BY <1>3, <1>4 DEF Writers
<1>7. rwlock'[h] = 0 BY <1>0, <1>3 DEF Types, Unlocked
<1>8. ASSUME NEW g \in Group, g # h PROVE Writers(g)' = Writers(g) /\ rwlock'[g] = rwlock[g]
  <2>1. s \notin Writers(g) BY <1>0, <1>8 DEF Writers
  <2> QED BY <1>0, <1>4, <1>8, <2>1 DEF Writers, Types
<1>9. Cardinality(Readers(h)') = 0 BY <1>3, <1>5, FS_EmptySet
<1> QED
  <2> SUFFICES ASSUME NEW g \in Group
               PROVE  \/ /\ rwlock'[g] = WLocked /\ Readers(g)' = {}
                         /\ \A t, u \in Writers(g)' : t = u
                      \/ rwlock'[g] = Cardinality(Readers(g)') /\ Writers(g)' = {}
    BY DEF ListLocks
  <2>1. CASE g = h BY <2>1, <1>6, <1>7, <1>9
  <2>2. CASE g # h BY <2>2, <1>5, <1>8 DEF ListLocks
  <2> QED BY <2>1, <2>2

\* A session that does not lock a peer leaves the peers' locks as they were.
LEMMA PeerLocksKept ==
    ASSUME Types, PeerLocks, NEW s \in Session, NEW l, Goto(s, l), ~Locking(s),
           l \notin {"load", "update", "leave"}, UNCHANGED lock,
           \A t \in Session : t # s => current'[t] = current[t]
    PROVE  PeerLocks'
<1>1. \A t \in Session : Locking(t)' <=> Locking(t)
  BY DEF Types, Goto, Locking
<1> QED BY <1>1 DEF PeerLocks

LEMMA LockNext == ASSUME LockInv, [Next]_vars PROVE LockInv'
<1> USE DEF LockInv
<1>0. Types' BY TypesNext
<1>1. ASSUME NEW s \in Session, GetLock(s) PROVE LockInv'
  <2>0. PICK h \in Group : h = group[s] BY DEF Types
  <2>1. h \in Group /\ rwlock[h] = 0 BY <2>0, <1>1 DEF GetLock, WFree, Types
  <2>2. Readers(h) = {} /\ Writers(h) = {}
    BY <2>0, <2>1, ReadersFinite, FS_EmptySet DEF ListLocks, WLocked
  <2>3. \A t \in Session : /\ Writing(t)' <=> Writing(t) \/ t = s
                           /\ Reading(t)' <=> Reading(t)
                           /\ Locking(t)' <=> Locking(t)
    BY <2>0, <1>1 DEF GetLock, Types, Goto, Writing, Reading, Locking
  <2>4. \A g \in Group : Readers(g)' = Readers(g)
    BY <2>0, <1>1, <2>3 DEF GetLock, session, Readers
  <2>5. \A g \in Group \ {h} : Writers(g)' = Writers(g) /\ rwlock'[g] = rwlock[g]
    BY <2>0, <1>1, <2>3 DEF GetLock, session, Writers, Types
  <2>6. \A t \in Writers(h)' : t = s
    BY <2>0, <1>1, <2>2, <2>3 DEF GetLock, session, Writers
  <2>7. rwlock'[h] = WLocked BY <2>0, <1>1, <2>1 DEF GetLock, Types
  <2>8. ListLocks'
    BY <2>0, <2>2, <2>4, <2>5, <2>6, <2>7 DEF ListLocks
  <2>9. PeerLocks' BY <2>0, <1>1, <2>3 DEF GetLock, session, PeerLocks
  <2>10. InList' BY <2>0, <1>1 DEF GetLock, session, InList, Types, Goto
  <2> QED BY <2>0, <1>0, <2>8, <2>9, <2>10
<1>2. ASSUME NEW s \in Session, Pick(s) PROVE LockInv'
  <2>1. PICK best \in Usable(s) : current' = [current EXCEPT ![s] = best]
    BY <1>2 DEF Pick
  <2>2. best \in PeersOf(group[s]) BY <2>1 DEF Usable
  <2>3. ListLocks' BY <1>2, ListLocksKept DEF Pick, locks, Writing, Reading
  <2>4. PeerLocks' BY <1>2, <2>1, PeerLocksKept DEF Pick, locks, Locking, Types
  <2>5. InList' BY <1>2, <2>1, <2>2 DEF Pick, InList, Types, Goto
  <2> QED BY <1>0, <2>3, <2>4, <2>5
<1>3. ASSUME NEW s \in Session, Take(s) PROVE LockInv'
  <2>1. ListLocks' BY <1>3, WriterLeaves DEF Take, Writing
  <2>2. PeerLocks' BY <1>3, PeerLocksKept DEF Take, Locking
  <2>3. InList' BY <1>3 DEF Take, InList, Types, Goto
  <2> QED BY <1>0, <2>1, <2>2, <2>3
<1>4. ASSUME NEW s \in Session, ToBackup(s) PROVE LockInv'
  <2>1. rwlock' = [rwlock EXCEPT ![group[s]] = Unlocked(@)] BY <1>4 DEF ToBackup
  <2>2. ListLocks' BY <1>4, <2>1, WriterLeaves DEF ToBackup, Writing, Types
  <2>3. PeerLocks' BY <1>4, PeerLocksKept DEF ToBackup, Locking
  <2>4. InList' BY <1>4 DEF ToBackup, InList, Types, Goto
  <2> QED BY <1>0, <2>2, <2>3, <2>4
<1>5. ASSUME NEW s \in Session, Busy(s) PROVE LockInv'
  <2>1. PICK l \in {"relock", "done"} : Goto(s, l) BY <1>5 DEF Busy
  <2>2. ListLocks' BY <1>5, <2>1, WriterLeaves DEF Busy, Writing, session
  <2>3. PeerLocks' BY <1>5, <2>1, PeerLocksKept DEF Busy, Locking, session
  <2>4. InList' BY <1>5, <2>1 DEF Busy, session, InList, Types, Goto
  <2> QED BY <1>0, <2>2, <2>3, <2>4
<1>6. ASSUME NEW s \in Session, Start(s) \/ Relock(s) PROVE LockInv'
  <2>0. PICK l \in {"get", "done"} : Goto(s, l) BY <1>6 DEF Start, Relock
  <2>1. ListLocks' BY <1>6, <2>0, ListLocksKept DEF Start, Relock, session, locks, Writing, Reading
  <2>2. PeerLocks' BY <1>6, <2>0, PeerLocksKept DEF Start, Relock, session, locks, Locking
  <2>3. InList' BY <1>6, <2>0 DEF Start, Relock, session, InList, Types, Goto
  <2> QED BY <1>0, <2>1, <2>2, <2>3
<1>7. ASSUME NEW s \in Session, Dial(s) \/ SessionEnds(s) PROVE LockInv'
  <2>1. Goto(s, "enter") /\ UNCHANGED <<locks, session>> /\ pc[s] \in {"dial", "up"}
    BY <1>7 DEF Dial, DialFails, DialAborted, DialDone, SessionEnds, Tell
  <2>2. ListLocks' BY <2>1, ListLocksKept DEF session, locks, Writing, Reading
  <2>3. PeerLocks' BY <2>1, PeerLocksKept DEF session, locks, Locking
  <2>4. InList' BY <2>1 DEF session, InList, Types, Goto
  <2> QED BY <1>0, <2>2, <2>3, <2>4
<1>8. ASSUME NEW s \in Session, EnterRead(s) PROVE LockInv'
  <2>0. PICK h \in Group : h = group[s] BY DEF Types
  <2>1. h \in Group /\ rwlock[h] # WLocked BY <2>0, <1>8 DEF EnterRead, RFree, Types
  <2>2. rwlock[h] = Cardinality(Readers(h)) /\ Writers(h) = {} BY <2>0, <2>1 DEF ListLocks
  <2>3. \A t \in Session : /\ Writing(t)' <=> Writing(t)
                           /\ Reading(t)' <=> Reading(t) \/ t = s
                           /\ Locking(t)' <=> Locking(t)
    BY <2>0, <1>8 DEF EnterRead, Types, Goto, Writing, Reading, Locking
  <2>4. \A g \in Group : Writers(g)' = Writers(g)
    BY <2>0, <1>8, <2>3 DEF EnterRead, session, Writers
  <2>5. \A g \in Group \ {h} : Readers(g)' = Readers(g) /\ rwlock'[g] = rwlock[g]
    BY <2>0, <1>8, <2>3 DEF EnterRead, session, Readers, Types
  <2>6. Readers(h)' = Readers(h) \cup {s} /\ s \notin Readers(h)
    BY <2>0, <1>8, <2>3 DEF EnterRead, session, Readers, Reading
  <2>7. Cardinality(Readers(h)') = Cardinality(Readers(h)) + 1
    BY <2>0, <2>6, ReadersFinite, FS_AddElement
  <2>8. rwlock'[h] = Cardinality(Readers(h)') BY <2>0, <1>8, <2>1, <2>2, <2>7 DEF EnterRead, Types
  <2>9. ListLocks' BY <2>0, <2>2, <2>4, <2>5, <2>8 DEF ListLocks
  <2>10. PeerLocks' BY <2>0, <1>8, <2>3 DEF EnterRead, session, PeerLocks
  <2>11. InList' BY <2>0, <1>8 DEF EnterRead, session, InList, Types, Goto
  <2> QED BY <2>0, <1>0, <2>9, <2>10, <2>11
<1>9. ASSUME NEW s \in Session, LockPeer(s) PROVE LockInv'
  <2>1. PICK l \in {"update", "load"} : Goto(s, l) BY <1>9 DEF LockPeer
  <2>2. current[s] \in Peer /\ lock[current[s]] = 0 /\ lock'[current[s]] = WLocked
    BY <1>9, PeersOfType DEF LockPeer, InList, PeerFree, Types
  <2>3. \A t \in Session : Locking(t)' <=> Locking(t) \/ t = s
    BY <1>9, <2>1 DEF LockPeer, Types, Goto, Locking
  <2>4. \A t \in Session : Locking(t) => current[t] # current[s]
    BY <2>2 DEF PeerLocks, WLocked
  <2>5. ListLocks' BY <1>9, <2>1, ListLocksKept DEF LockPeer, session, Writing, Reading
  <2>6. PeerLocks' BY <1>9, <2>2, <2>3, <2>4 DEF LockPeer, session, PeerLocks, Types
  <2>7. InList' BY <1>9, <2>1 DEF LockPeer, session, InList, Types, Goto
  <2> QED BY <1>0, <2>5, <2>6, <2>7
<1>10. ASSUME NEW s \in Session, Load(s) \/ Update(s) PROVE LockInv'
  <2>1. PICK l \in {"update", "leave"} : Goto(s, l) BY <1>10 DEF Load, Update
  <2>2. UNCHANGED <<locks, group, current>> /\ pc[s] \in {"load", "update"}
    BY <1>10 DEF Load, Update, session
  <2>3. \A t \in Session : Locking(t)' <=> Locking(t)
    BY <2>1, <2>2 DEF Types, Goto, Locking
  <2>4. ListLocks' BY <2>1, <2>2, ListLocksKept DEF locks, Writing, Reading
  <2>5. PeerLocks' BY <2>2, <2>3 DEF locks, PeerLocks
  <2>6. InList' BY <2>1, <2>2 DEF InList, Types, Goto
  <2> QED BY <1>0, <2>4, <2>5, <2>6
<1>11. ASSUME NEW s \in Session, Leave(s) PROVE LockInv'
  <2>0. PICK h \in Group : h = group[s] BY DEF Types
  <2>1. PICK l \in {"up", "get", "done"} : Goto(s, l) BY <2>0, <1>11 DEF Leave
  <2>2. h \in Group /\ s \in Readers(h) BY <2>0, <1>11 DEF Leave, Types, Readers, Reading
  <2>3. rwlock[h] = Cardinality(Readers(h)) /\ Writers(h) = {} BY <2>0, <2>2 DEF ListLocks
  <2>4. \A t \in Session : /\ Writing(t)' <=> Writing(t)
                           /\ Reading(t)' <=> Reading(t) /\ t # s
                           /\ Locking(t)' <=> Locking(t) /\ t # s
    BY <2>0, <1>11, <2>1 DEF Leave, Types, Goto, Writing, Reading, Locking
  <2>5. \A g \in Group : Writers(g)' = Writers(g)
    BY <2>0, <1>11, <2>4 DEF Leave, Writers
  <2>6. \A g \in Group \ {h} : Readers(g)' = Readers(g) /\ rwlock'[g] = rwlock[g]
    BY <2>0, <1>11, <2>4 DEF Leave, Readers, Types
  <2>7. Readers(h)' = Readers(h) \ {s} BY <2>0, <1>11, <2>4 DEF Leave, Readers
  <2>8. Cardinality(Readers(h)') = Cardinality(Readers(h)) - 1
    BY <2>0, <2>2, <2>7, ReadersFinite, FS_RemoveElement
  <2>9. rwlock[h] # WLocked BY <2>0, <2>3, ReadersFinite DEF WLocked
  <2>10. rwlock'[h] = Cardinality(Readers(h)')
    BY <2>0, <1>11, <2>2, <2>3, <2>8, <2>9 DEF Leave, Types, Unlocked
  <2>11. ListLocks' BY <2>0, <2>3, <2>5, <2>6, <2>10 DEF ListLocks
  <2>12. current[s] \in Peer BY <2>0, <1>11, PeersOfType DEF Leave, InList, Types
  <2>13. \A t \in Session : Locking(t)' => current[t] # current[s]
    BY <2>0, <1>11, <2>4 DEF Leave, PeerLocks, Locking
  <2>14. \A t \in Session : Locking(t)' => lock'[current[t]] = lock[current[t]]
    BY <2>0, <1>11, <2>13 DEF Leave, Types
  <2>15. PeerLocks' BY <2>0, <1>11, <2>4, <2>14 DEF Leave, PeerLocks
  <2>16. InList' BY <2>0, <1>11, <2>1 DEF Leave, InList, Types, Goto
  <2> QED BY <2>0, <1>0, <2>11, <2>15, <2>16
<1>12. CASE Tick \/ Done \/ UNCHANGED vars
  <2>1. UNCHANGED <<locks, session, pc, conns, job, loaded>>
    BY <1>12 DEF Tick, Done, vars, peers
  <2>2. \A g \in Group : Readers(g)' = Readers(g) /\ Writers(g)' = Writers(g)
    BY <2>1 DEF session, Readers, Writers, Reading, Writing
  <2>3. ListLocks' BY <2>1, <2>2 DEF locks, ListLocks
  <2>4. PeerLocks' /\ InList' BY <2>1 DEF locks, session, PeerLocks, InList, Locking
  <2> QED BY <1>0, <2>3, <2>4
<1> QED BY <1>1, <1>2, <1>3, <1>4, <1>5, <1>6, <1>7, <1>8, <1>9, <1>10, <1>11, <1>12
        DEF Next, Get, Free

\* The lock words and the per-peer locks keep every pair of sessions apart that
\* Exclusion names.
LEMMA LockImpliesExclusion == LockInv => Exclusion
<1> SUFFICES ASSUME LockInv, NEW s \in Session, NEW t \in Session, s # t
             PROVE  /\ Writing(s) /\ (Writing(t) \/ Reading(t)) => group[s] # group[t]
                    /\ Locking(s) /\ Locking(t) => current[s] # current[t]
                    /\ Reading(s) => current[s] \in PeersOf(group[s])
  BY DEF Exclusion
<1>1. group[s] \in Group BY DEF LockInv, Types
<1>2. ASSUME Writing(s), Writing(t) \/ Reading(t), group[s] = group[t] PROVE FALSE
  BY <1>1, <1>2 DEF LockInv, ListLocks, Writers, Readers
<1>3. Locking(s) /\ Locking(t) => current[s] # current[t] BY DEF LockInv, PeerLocks
<1>4. Reading(s) => current[s] \in PeersOf(group[s]) BY DEF LockInv, InList, Reading
<1> QED BY <1>2, <1>3, <1>4

\* Whatever the number of sessions and peers, a session that scans a list is
\* alone in it, and two sessions never update one peer at a time.
THEOREM ExclusionHolds == Spec => []Exclusion
BY LockInit, LockNext, LockImpliesExclusion, PTL DEF Spec

-----------------------------------------------------------------------------
(* The connections counted.                                                *)

Holders(p) == {s \in held : current[s] = p}

\* A session holds its peer from the moment it is counted until it no longer is
Counted(l, why) == \/ l \in {"dial", "up", "enter", "lockpeer", "load", "update"}
                   \/ l = "leave" /\ why = "connected"

HeldInv == \A s \in Session : s \in held <=> Counted(pc[s], job[s])

\* What a session has read of conns is still there when it writes it back
LoadedInv ==
    \A s \in Session :
       pc[s] = "update" /\ job[s] # "connected" => loaded[s] = conns[current[s]]

\* The peer a session has picked still has room when it is taken
RoomInv == \A s \in Session : pc[s] = "take" => ~Full(current[s])

CountInv == HeldInv /\ LoadedInv /\ RoomInv /\ ConnsAccurate /\ MaxConnsKept

LEMMA CountInit == Init => CountInv
<1> SUFFICES ASSUME Init PROVE CountInv
  OBVIOUS
<1>1. \A p \in Peer : {s \in held : current[s] = p} = {} /\ conns[p] = 0
  BY DEF Init
<1>2. ConnsAccurate BY <1>1, FS_EmptySet DEF ConnsAccurate
<1>3. MaxConnsKept BY <1>1, PeersAssumption DEF MaxConnsKept
<1> QED BY <1>2, <1>3 DEF CountInv, Init, HeldInv, Counted, LoadedInv, RoomInv

LEMMA GroupsDisjoint ==
    ASSUME NEW g \in Group, NEW h \in Group, NEW p \in PeersOf(g), p \in PeersOf(h)
    PROVE  g = h
BY PeersAssumption DEF Group, PeersOf

LEMMA HoldersFinite ==
    ASSUME Types, NEW p
    PROVE  IsFiniteSet(Holders(p)) /\ Cardinality(Holders(p)) \in Nat
<1>1. Holders(p) \in SUBSET Session BY DEF Holders, Types
<1>2. IsFiniteSet(Holders(p)) BY <1>1, PeersAssumption, FS_Subset
<1> QED BY <1>2, FS_CardinalityType

\* While nobody is counted in or out, the counts stay right.
LEMMA CountsKept ==
    ASSUME ConnsAccurate, MaxConnsKept, UNCHANGED <<conns, held>>,
           \A t \in held : current'[t] = current[t]
    PROVE  ConnsAccurate' /\ MaxConnsKept'
<1>1. \A p \in Peer : {s \in held : current[s] = p}' = {s \in held : current[s] = p}
  OBVIOUS
<1> QED BY <1>1 DEF ConnsAccurate, MaxConnsKept

LEMMA CountNext == ASSUME LockInv, CountInv, [Next]_vars PROVE CountInv'
<1> USE DEF CountInv
<1>0. Types /\ Types' /\ InList /\ Exclusion
  BY TypesNext, LockImpliesExclusion DEF LockInv
<1>1. ASSUME NEW s \in Session,
             Start(s) \/ GetLock(s) \/ ToBackup(s) \/ Busy(s) \/ Relock(s) \/ EnterRead(s)
      PROVE  CountInv'
  <2>1. UNCHANGED <<conns, held, current, job, loaded>>
    BY <1>1 DEF Start, GetLock, ToBackup, Busy, Relock, EnterRead, peers, session
  <2>2. PICK l \in {"get", "pick", "relock", "done", "lockpeer"} :
           /\ Goto(s, l)
           /\ (l = "lockpeer" /\ pc[s] = "enter")
              \/ (l # "lockpeer" /\ pc[s] \in {"start", "get", "pick", "relock"})
    BY <1>1 DEF Start, GetLock, ToBackup, Busy, Relock, EnterRead
  <2>3. HeldInv' BY <1>0, <2>1, <2>2 DEF HeldInv, Counted, Types, Goto
  <2>4. LoadedInv' /\ RoomInv' BY <1>0, <2>1, <2>2 DEF LoadedInv, RoomInv, Full, Types, Goto
  <2> QED BY <2>1, <2>3, <2>4, CountsKept
<1>2. ASSUME NEW s \in Session, Pick(s) PROVE CountInv'
  <2>1. PICK best \in Usable(s) : current' = [current EXCEPT ![s] = best]
    BY <1>2 DEF Pick
  <2>2. UNCHANGED <<conns, held, job, loaded>> /\ pc[s] = "pick" /\ Goto(s, "take")
    BY <1>2 DEF Pick
  <2>3. HeldInv' BY <1>0, <2>2 DEF HeldInv, Counted, Types, Goto
  <2>4. s \notin held BY <2>2 DEF HeldInv, Counted
  <2>5. LoadedInv' BY <1>0, <2>1, <2>2 DEF LoadedInv, Types, Goto
  <2>6. ~Full(best) BY <2>1 DEF Usable
  <2>7. RoomInv' BY <1>0, <2>1, <2>2, <2>6 DEF RoomInv, Full, Types, Goto
  <2>8. \A t \in held : current'[t] = current[t] BY <1>0, <2>1, <2>4 DEF Types
  <2> QED BY <2>2, <2>3, <2>5, <2>7, <2>8, CountsKept
<1>3. ASSUME NEW s \in Session, Take(s) PROVE CountInv'
  <2>0. PICK p \in Peer : p = current[s] /\ p \in PeersOf(group[s])
    BY <1>0, <1>3, PeersOfType DEF Take, InList, Types
  <2>1. conns' = [conns EXCEPT ![p] = @ + 1] /\ held' = held \cup {s}
    BY <1>3, <2>0 DEF Take
  <2>2. UNCHANGED <<current, job, loaded, group>> /\ pc[s] = "take" /\ Goto(s, "dial")
    BY <1>3 DEF Take
  <2>3. HeldInv'
    <3> SUFFICES ASSUME NEW t \in Session
                 PROVE  (t \in held <=> Counted(pc[t], job[t]))'
      BY DEF HeldInv
    <3>1. CASE t = s
      <4>1. pc'[s] = "dial" BY <1>0, <2>2 DEF Types, Goto
      <4>2. s \in held' BY <2>1
      <4> QED BY <3>1, <4>1, <4>2 DEF Counted
    <3>2. CASE t # s
      <4>1. pc'[t] = pc[t] /\ job'[t] = job[t] /\ (t \in held' <=> t \in held)
        BY <1>0, <2>1, <2>2, <3>2 DEF Types, Goto
      <4> QED BY <4>1 DEF HeldInv, Counted
    <3> QED BY <3>1, <3>2
  <2>4. \A t \in Session : pc[t] \in {"take", "update"} /\ t # s => current[t] # p
    <3> SUFFICES ASSUME NEW t \in Session, pc[t] \in {"take", "update"}, t # s, current[t] = p
                 PROVE  FALSE
      OBVIOUS
    <3>1. group[t] = group[s]
      BY <1>0, <2>0, GroupsDisjoint DEF InList, Types
    <3> QED BY <1>0, <2>2, <3>1 DEF Exclusion, Writing, Reading
  <2>5. LoadedInv' BY <1>0, <2>1, <2>2, <2>4 DEF LoadedInv, Types, Goto
  <2>6. RoomInv' BY <1>0, <2>1, <2>2, <2>4 DEF RoomInv, Full, Types, Goto
  <2>7. MaxConnsKept'
    <3> SUFFICES ASSUME NEW q \in Peer, MaxConns[q] > 0 PROVE conns'[q] <= MaxConns[q]
      BY DEF MaxConnsKept
    <3>1. conns[q] \in Int /\ MaxConns[q] \in Nat BY <1>0, PeersAssumption DEF Types
    <3>2. CASE q = p
      <4>1. ~Full(p) BY <2>0, <2>2 DEF RoomInv
      <4>2. conns'[q] = conns[q] + 1 BY <1>0, <2>1, <3>2 DEF Types
      <4> QED BY <3>1, <3>2, <4>1, <4>2 DEF Full
    <3>3. CASE q # p
      <4>1. conns'[q] = conns[q] BY <1>0, <2>1, <3>3 DEF Types
      <4> QED BY <4>1 DEF MaxConnsKept
    <3> QED BY <3>2, <3>3
  <2>8. s \notin held BY <2>2 DEF HeldInv, Counted
  <2>9. Holders(p)' = Holders(p) \cup {s} /\ s \notin Holders(p)
    BY <2>0, <2>1, <2>2, <2>8 DEF Holders
  <2>10. Cardinality(Holders(p)') = Cardinality(Holders(p)) + 1
    BY <1>0, <2>9, HoldersFinite, FS_AddElement
  <2>11. \A q \in Peer \ {p} : Holders(q)' = Holders(q) BY <2>0, <2>1, <2>2 DEF Holders
  <2>12. ConnsAccurate'
    BY <1>0, <2>1, <2>10, <2>11 DEF ConnsAccurate, Holders, Types
  <2> QED BY <2>3, <2>5, <2>6, <2>7, <2>12
<1>4. ASSUME NEW s \in Session, Dial(s) \/ SessionEnds(s) PROVE CountInv'
  <2>1. PICK why \in {"failed", "ended", "connected"} : job' = [job EXCEPT ![s] = why]
    BY <1>4 DEF Dial, DialFails, DialAborted, DialDone, SessionEnds, Tell
  <2>2. /\ Goto(s, "enter") /\ pc[s] \in {"dial", "up"}
        /\ UNCHANGED <<conns, held, current, loaded>>
    BY <1>4 DEF Dial, DialFails, DialAborted, DialDone, SessionEnds, Tell, peers, session
  <2>3. HeldInv'
    <3> SUFFICES ASSUME NEW t \in Session
                 PROVE  (t \in held <=> Counted(pc[t], job[t]))'
      BY DEF HeldInv
    <3>1. CASE t = s BY <1>0, <2>2, <3>1 DEF HeldInv, Counted, Types, Goto
    <3>2. CASE t # s
      <4>1. pc'[t] = pc[t] /\ job'[t] = job[t] BY <1>0, <2>1, <2>2, <3>2 DEF Types, Goto
      <4> QED BY <2>2, <4>1 DEF HeldInv, Counted
    <3> QED BY <3>1, <3>2
  <2>4. LoadedInv' /\ RoomInv'
    BY <1>0, <2>1, <2>2 DEF LoadedInv, RoomInv, Full, Types, Goto
  <2> QED BY <2>2, <2>3, <2>4, CountsKept
<1>5. ASSUME NEW s \in Session, LockPeer(s) \/ Load(s) PROVE CountInv'
  <2>1. /\ UNCHANGED <<conns, held, current, job>> /\ pc[s] \in {"lockpeer", "load"}
        /\ \/ Goto(s, "load") /\ UNCHANGED loaded
           \/ Goto(s, "update") /\ job[s] = "connected" /\ UNCHANGED loaded
           \/ Goto(s, "update") /\ loaded' = [loaded EXCEPT ![s] = conns[current[s]]]
    BY <1>5 DEF LockPeer, Load, peers, session
  <2>2. HeldInv' BY <1>0, <2>1 DEF HeldInv, Counted, Types, Goto
  <2>3. LoadedInv' BY <1>0, <2>1 DEF LoadedInv, Types, Goto
  <2>4. RoomInv' BY <1>0, <2>1 DEF RoomInv, Full, Types, Goto
  <2> QED BY <2>1, <2>2, <2>3, <2>4, CountsKept
<1>6. ASSUME NEW s \in Session, Update(s), job[s] # "connected" PROVE CountInv'
  <2>0. PICK p \in Peer : p = current[s]
    BY <1>0, <1>6, PeersOfType DEF Update, InList, Types
  <2>1. conns' = [conns EXCEPT ![p] = @ - 1] /\ held' = held \ {s}
    BY <1>6, <2>0 DEF Update, LoadedInv
  <2>2. /\ UNCHANGED <<current, job>> /\ pc[s] = "update" /\ Goto(s, "leave")
        /\ loaded' = [loaded EXCEPT ![s] = 0]
    BY <1>6 DEF Update
  <2>3. HeldInv' BY <1>0, <1>6, <2>1, <2>2 DEF HeldInv, Counted, Types, Goto
  <2>4. \A t \in Session : pc[t] = "update" /\ t # s => current[t] # p
    BY <1>0, <2>0, <2>2 DEF Exclusion, Locking
  <2>5. LoadedInv' BY <1>0, <2>1, <2>2, <2>4 DEF LoadedInv, Types, Goto
  <2>6. \A q \in Peer : conns'[q] <= conns[q] BY <1>0, <2>1 DEF Types
  <2>7. RoomInv'
    <3> SUFFICES ASSUME NEW t \in Session, pc'[t] = "take" PROVE ~Full(current[t])'
      BY <2>2 DEF RoomInv
    <3>1. pc[t] = "take" BY <1>0, <2>2 DEF Types, Goto
    <3>2. current[t] \in Peer BY <1>0, <3>1, PeersOfType DEF InList, Types
    <3>3. ~Full(current[t]) BY <3>1 DEF RoomInv
    <3> QED BY <1>0, <2>2, <2>6, <3>2, <3>3, PeersAssumption DEF Full, Types
  <2>8. MaxConnsKept' BY <1>0, <2>6, PeersAssumption DEF MaxConnsKept, Types
  <2>9. s \in held
    <3>1. pc[s] \in {"dial", "up", "enter", "lockpeer", "load", "update"} BY <2>2
    <3> QED BY <3>1 DEF HeldInv, Counted
  <2>10. Holders(p)' = Holders(p) \ {s} /\ s \in Holders(p)
    BY <2>0, <2>1, <2>2, <2>9 DEF Holders
  <2>11. Cardinality(Holders(p)') = Cardinality(Holders(p)) - 1
    BY <1>0, <2>10, HoldersFinite, FS_RemoveElement
  <2>12. \A q \in Peer \ {p} : Holders(q)' = Holders(q) BY <2>0, <2>1, <2>2 DEF Holders
  <2>13. ConnsAccurate'
    BY <1>0, <2>1, <2>11, <2>12 DEF ConnsAccurate, Holders, Types
  <2> QED BY <2>3, <2>5, <2>7, <2>8, <2>13
<1>7. ASSUME NEW s \in Session, Update(s), job[s] = "connected" PROVE CountInv'
  <2>1. /\ UNCHANGED <<current, job, conns, held>> /\ pc[s] = "update" /\ Goto(s, "leave")
        /\ loaded' = [loaded EXCEPT ![s] = 0]
    BY <1>7 DEF Update
  <2>2. HeldInv' BY <1>0, <1>7, <2>1 DEF HeldInv, Counted, Types, Goto
  <2>3. LoadedInv' BY <1>0, <2>1 DEF LoadedInv, Types, Goto
  <2>4. RoomInv' BY <1>0, <2>1 DEF RoomInv, Full, Types, Goto
  <2> QED BY <2>1, <2>2, <2>3, <2>4, CountsKept
<1>8. ASSUME NEW s \in Session, Leave(s) PROVE CountInv'
  <2>1. UNCHANGED <<current, job, conns, held, loaded>> /\ pc[s] = "leave"
    BY <1>8 DEF Leave, peers
  <2>2. PICK l \in {"up", "get", "done"} : Goto(s, l) /\ (l = "up" <=> job[s] = "connected")
    BY <1>8 DEF Leave
  <2>3. HeldInv' BY <1>0, <2>1, <2>2 DEF HeldInv, Counted, Types, Goto
  <2>4. LoadedInv' /\ RoomInv' BY <1>0, <2>1, <2>2 DEF LoadedInv, RoomInv, Full, Types, Goto
  <2> QED BY <2>1, <2>3, <2>4, CountsKept
<1>9. CASE Tick \/ Done \/ UNCHANGED vars
  <2>1. UNCHANGED <<current, job, conns, held, loaded, pc>>
    BY <1>9 DEF Tick, Done, vars, peers, session
  <2>2. HeldInv' /\ LoadedInv' /\ RoomInv' BY <2>1 DEF HeldInv, Counted, LoadedInv, RoomInv, Full
  <2> QED BY <2>1, <2>2, CountsKept
<1> QED BY <1>1, <1>2, <1>3, <1>4, <1>5, <1>6, <1>7, <1>8, <1>9 DEF Next, Get, Free

\* On every path a session takes, through failures, backup peers and aborted
\* connects, its peer's conns is raised once and lowered once.
THEOREM ConnsAreAccurate == Spec => []ConnsAccurate
<1>1. Init => LockInv /\ CountInv BY LockInit, CountInit
<1>2. LockInv /\ CountInv /\ [Next]_vars => (LockInv /\ CountInv)' BY LockNext, CountNext
<1> QED BY <1>1, <1>2, PTL DEF Spec, CountInv

\* max_conns is never exceeded, however many workers ask for the peer at once.
THEOREM MaxConnsIsKept == Spec => []MaxConnsKept
<1>1. Init => LockInv /\ CountInv BY LockInit, CountInit
<1>2. LockInv /\ CountInv /\ [Next]_vars => (LockInv /\ CountInv)' BY LockNext, CountNext
<1> QED BY <1>1, <1>2, PTL DEF Spec, CountInv

-----------------------------------------------------------------------------
(* Probes and retries.                                                     *)

\* No worker that handles a session is more than MaxLag behind
ClockInv ==
    /\ now \in Nat /\ clock \in [Session -> Nat]
    /\ \A s \in Session : clock[s] <= now /\ now - clock[s] <= MaxLag

LEMMA ClockNext == ASSUME ClockInv, [Next]_vars PROVE ClockInv' /\ now <= now'
<1> USE PeersAssumption DEF ClockInv
<1>1. ASSUME NEW s \in Session, Wakes(s), now' = now PROVE ClockInv' /\ now <= now'
  BY <1>1 DEF Wakes
<1>2. CASE UNCHANGED <<now, clock>>
  BY <1>2
<1>3. CASE Tick
  <2>1. now' = now + 1 /\ now' \in Nat
    BY <1>3 DEF Tick
  <2>2. clock' = [s \in Session |-> IF Running(s) THEN clock[s] ELSE now']
    BY <1>3 DEF Tick
  <2>3. ASSUME NEW s \in Session
        PROVE  clock'[s] \in Nat /\ clock'[s] <= now' /\ now' - clock'[s] <= MaxLag
    <3>1. Running(s) => now' - clock[s] <= MaxLag
      BY <1>3 DEF Tick
    <3> QED
      BY <2>1, <2>2, <3>1
  <2> QED
    BY <2>1, <2>2, <2>3
<1>4. ASSUME NEW s \in Session, Start(s) \/ Dial(s) \/ SessionEnds(s)
      PROVE  Wakes(s) /\ now' = now
  BY <1>4 DEF Start, Dial, DialFails, DialAborted, DialDone, SessionEnds, Tell
<1>5. ASSUME NEW s \in Session, Get(s) \/ Free(s) PROVE UNCHANGED <<now, clock>>
  BY <1>5 DEF Get, GetLock, Pick, Take, ToBackup, Busy, Relock,
              Free, EnterRead, LockPeer, Load, Update, Leave
<1>6. ASSUME Done \/ UNCHANGED vars PROVE UNCHANGED <<now, clock>>
  BY <1>6 DEF Done, vars
<1> QED
  BY <1>1, <1>2, <1>3, <1>4, <1>5, <1>6 DEF Next

\* A session that probes its peer advances checked to its worker's time.
\* Whatever later failures and probes, with other workers' times, make of
\* checked, it is never further behind that probe than MaxLag.
ProbeInv ==
    /\ checked \in [Peer -> Nat] /\ probe \in [Session -> Nat]
    /\ \A s \in Session : probe[s] > 0 =>
          /\ current[s] \in Peer /\ probe[s] <= now
          /\ probe[s] - checked[current[s]] <= MaxLag
    /\ OneProbe

\* Steps that give no peer to anybody keep it if they set checked to a
\* worker's time at most
LEMMA ProbeKept ==
    ASSUME ClockInv, ProbeInv, UNCHANGED <<current, probe>>, now' \in Nat, now <= now',
           checked' \in [Peer -> Nat],
           \A p \in Peer : checked'[p] = checked[p] \/ now - checked'[p] <= MaxLag
    PROVE  ProbeInv'
<1>1. ASSUME NEW s \in Session, probe[s] > 0
      PROVE  /\ current[s] \in Peer /\ probe[s] <= now'
             /\ probe[s] - checked'[current[s]] <= MaxLag
  <2>1. current[s] \in Peer /\ probe[s] <= now /\ probe[s] - checked[current[s]] <= MaxLag
    BY <1>1 DEF ProbeInv
  <2>2. probe[s] \in Nat /\ now \in Nat /\ MaxLag \in Nat /\ checked'[current[s]] \in Nat
    BY <2>1, PeersAssumption DEF ProbeInv, ClockInv
  <2>3. checked'[current[s]] = checked[current[s]] \/ now - checked'[current[s]] <= MaxLag
    BY <2>1
  <2> QED
    BY <2>1, <2>2, <2>3
<1> QED
  BY <1>1 DEF ProbeInv, OneProbe

LEMMA ProbeNext == ASSUME Types, InList, ClockInv, ProbeInv, [Next]_vars PROVE ProbeInv'
<1> USE DEF peers, locks, session
<1>0. now \in Nat /\ now' \in Nat /\ now <= now' /\ MaxLag \in Nat
  BY ClockNext, PeersAssumption DEF ClockInv
<1>1. ASSUME UNCHANGED <<current, probe, checked>> PROVE ProbeInv'
  BY <1>0, <1>1, ProbeKept DEF ProbeInv
<1>2. ASSUME NEW s \in Session, Pick(s) PROVE ProbeInv'
  <2>1. PICK best \in Usable(s) :
           /\ current' = [current EXCEPT ![s] = best]
           /\ probe' = [probe EXCEPT ![s] = IF ~Single /\ Disabled(best) THEN now ELSE 0]
           /\ IF Single THEN UNCHANGED checked
              ELSE checked' = [checked EXCEPT ![best] = Checked(s, best)]
    BY <1>2 DEF Pick
  <2>2. best \in Peer /\ FailTimeout[best] \in Nat
    BY <2>1, PeersOfType, PeersAssumption DEF Usable, Types
  <2>3. now' = now /\ clock[s] \in Nat /\ clock[s] <= now /\ now - clock[s] <= MaxLag
    BY <1>2 DEF Pick, ClockInv
  <2>4. checked' \in [Peer -> Nat]
    BY <2>1, <2>2, <2>3 DEF Checked, ProbeInv
  <2>5. \A p \in Peer : checked'[p] = checked[p] \/ now - checked'[p] <= MaxLag
    BY <2>1, <2>2, <2>3 DEF Checked, ProbeInv
  <2>6. probe' \in [Session -> Nat]
    BY <1>0, <2>1 DEF ProbeInv
  <2>7. \A t \in Session \ {s} : current'[t] = current[t] /\ probe'[t] = probe[t]
    BY <2>1 DEF Types, ProbeInv
  <2>8. current'[s] = best
    BY <2>1 DEF Types
  <2>9. probe'[s] > 0 =>
           /\ probe'[s] = now /\ now - checked'[best] <= MaxLag
           /\ now - checked[best] > FailTimeout[best]
    <3> SUFFICES ASSUME probe'[s] > 0
                 PROVE  /\ probe'[s] = now /\ now - checked'[best] <= MaxLag
                        /\ now - checked[best] > FailTimeout[best]
      OBVIOUS
    <3>1. ~Single /\ Disabled(best) /\ probe'[s] = now
      BY <2>1 DEF ProbeInv
    <3>2. clock[s] - checked[best] > FailTimeout[best] /\ checked[best] \in Nat
      BY <2>1, <2>2, <2>3, <3>1 DEF Usable, ProbeInv
    <3>3. checked'[best] = clock[s]
      BY <2>1, <2>2, <3>1, <3>2 DEF Checked, ProbeInv
    <3> QED
      BY <1>0, <2>2, <2>3, <3>1, <3>2, <3>3
  <2>10. ASSUME NEW t \in Session, probe'[t] > 0
         PROVE  /\ current'[t] \in Peer /\ probe'[t] <= now'
                /\ probe'[t] - checked'[current'[t]] <= MaxLag
    <3>1. CASE t = s
      BY <1>0, <2>2, <2>3, <2>8, <2>9, <2>10, <3>1
    <3>2. CASE t # s
      <4>1. /\ current[t] \in Peer /\ probe[t] <= now
            /\ probe[t] - checked[current[t]] <= MaxLag
        BY <2>7, <2>10, <3>2 DEF ProbeInv
      <4>2. checked'[current[t]] = checked[current[t]] \/ now - checked'[current[t]] <= MaxLag
        BY <2>5, <4>1
      <4>3. probe[t] \in Nat /\ checked'[current[t]] \in Nat
        BY <2>4, <4>1 DEF ProbeInv
      <4> QED
        BY <1>0, <2>3, <2>7, <3>2, <4>1, <4>2, <4>3
    <3> QED
      BY <3>1, <3>2
  <2>11. ASSUME NEW t \in Session \ {s}, current[t] = best, probe[t] > 0, probe'[s] > 0
         PROVE  /\ probe'[s] - probe[t] > FailTimeout[best] - MaxLag
                /\ probe[t] >= probe'[s] => probe[t] - probe'[s] > FailTimeout[best] - MaxLag
    <3>1. probe[t] \in Nat /\ checked[best] \in Nat /\ probe[t] <= now
          /\ probe[t] - checked[best] <= MaxLag
      BY <2>2, <2>11 DEF ProbeInv
    <3> QED
      BY <1>0, <2>2, <2>9, <2>11, <3>1
  <2>12. OneProbe'
    BY <2>6, <2>7, <2>8, <2>11 DEF OneProbe, ProbeInv
  <2> QED
    BY <2>4, <2>6, <2>10, <2>12 DEF ProbeInv
<1>3. ASSUME NEW s \in Session, Update(s) PROVE ProbeInv'
  <2>1. current[s] \in Peer
    BY <1>3, PeersOfType DEF Update, InList, Types
  <2>2. checked' = [checked EXCEPT ![current[s]] =
                       IF job[s] = "failed" /\ ~Single THEN clock[s] ELSE @]
    BY <1>3 DEF Update
  <2>3. UNCHANGED <<current, probe>>
    BY <1>3 DEF Update
  <2>4. clock[s] \in Nat /\ now - clock[s] <= MaxLag
    BY DEF ClockInv
  <2>5. checked' \in [Peer -> Nat]
    BY <2>1, <2>2, <2>4 DEF ProbeInv
  <2>6. \A p \in Peer : checked'[p] = checked[p] \/ now - checked'[p] <= MaxLag
    BY <2>1, <2>2, <2>4 DEF ProbeInv
  <2> QED
    BY <1>0, <2>3, <2>5, <2>6, ProbeKept
<1>4. ASSUME NEW s \in Session,
             \/ Start(s) \/ GetLock(s) \/ Take(s) \/ ToBackup(s) \/ Busy(s) \/ Relock(s)
             \/ Dial(s) \/ SessionEnds(s)
             \/ EnterRead(s) \/ LockPeer(s) \/ Load(s) \/ Leave(s)
      PROVE  UNCHANGED <<current, probe, checked>>
  BY <1>4 DEF Start, GetLock, Take, ToBackup, Busy, Relock, Dial, DialFails, DialAborted,
              DialDone, SessionEnds, Tell, EnterRead, LockPeer, Load, Leave
<1>5. ASSUME Tick \/ Done \/ UNCHANGED vars PROVE UNCHANGED <<current, probe, checked>>
  BY <1>5 DEF Tick, Done, vars
<1> QED
  BY <1>1, <1>2, <1>3, <1>4, <1>5 DEF Next, Get, Free

\* A peer that failures have disabled is probed by one session per
\* fail_timeout less MaxLag, however many workers find the timeout over at
\* once and however their failures are recorded out of order.
THEOREM ProbesAreSpaced == Spec => []OneProbe
<1>1. Init => ClockInv /\ ProbeInv
  BY PeersAssumption DEF Init, ClockInv, ProbeInv, OneProbe
<1>2. Init => LockInv BY LockInit
<1>3. LockInv /\ ClockInv /\ ProbeInv /\ [Next]_vars => (LockInv /\ ClockInv /\ ProbeInv)'
  BY LockNext, ClockNext, ProbeNext DEF LockInv
<1> QED BY <1>1, <1>2, <1>3, PTL DEF Spec, ProbeInv

\* The peer a session last had is among those it has tried, or was a primary
\* one and the session has gone on to the backup peers; a single peer is
\* never asked for again
RetryInv ==
    /\ tried \in [Session -> SUBSET Peer] /\ tries \in [Session -> Int]
    /\ \A s \in Session : current[s] # NoPeer =>
          /\ group[s] = "primary" => current[s] \in PeersOf("primary")
          /\ IF Single THEN pc[s] \notin {"start", "get", "pick"}
             ELSE current[s] \in tried[s] \/ current[s] \notin PeersOf(group[s])

LEMMA RetryInit == Init => RetryInv
<1> SUFFICES ASSUME Init PROVE RetryInv
  OBVIOUS
<1>1. IsFiniteSet(Peer)
  BY PeersAssumption, FS_Interval DEF Peer
<1>2. IsFiniteSet({p \in Peer : ~Down[p]})
  BY <1>1, FS_Subset
<1>3. Tries \in Int
  BY <1>2, FS_CardinalityType, PeersAssumption DEF Tries
<1> QED
  BY <1>3 DEF Init, RetryInv

\* Steps of a session that keep what it has tried
LEMMA RetryKept ==
    ASSUME RetryInv, NEW s \in Session, NEW l, Goto(s, l), Types,
           l \in {"start", "get", "pick"} /\ Single => current[s] = NoPeer,
           UNCHANGED <<current, tried, group>>, tries' \in [Session -> Int]
    PROVE  RetryInv'
BY DEF RetryInv, Goto, Types

LEMMA RetryNext == ASSUME Types, RetryInv, [Next]_vars PROVE RetryInv'
<1> USE DEF peers, locks, session
<1>1. ASSUME NEW s \in Session, Start(s) \/ GetLock(s) PROVE RetryInv'
  <2>1. Single => current[s] = NoPeer
    BY <1>1 DEF Start, GetLock, RetryInv
  <2>2. PICK l \in {"get", "pick"} : Goto(s, l)
    BY <1>1 DEF Start, GetLock
  <2>3. UNCHANGED <<current, tried, group, tries>>
    BY <1>1 DEF Start, GetLock
  <2> QED
    BY <2>1, <2>2, <2>3, RetryKept DEF RetryInv
<1>2. ASSUME NEW s \in Session, Pick(s) PROVE RetryInv'
  <2>1. PICK best \in Usable(s) :
           /\ current' = [current EXCEPT ![s] = best]
           /\ IF Single THEN UNCHANGED tried
              ELSE tried' = [tried EXCEPT ![s] = Tried(s, best)]
    BY <1>2 DEF Pick
  <2>2. best \in PeersOf(group[s]) /\ best \in Peer
    BY <2>1, PeersOfType DEF Usable, Types
  <2>3. UNCHANGED <<group, tries>> /\ pc' = [pc EXCEPT ![s] = "take"]
    BY <1>2 DEF Pick, Goto
  <2>4. tried' \in [Session -> SUBSET Peer]
    BY <2>1, <2>2 DEF RetryInv, Tried
  <2>5. ASSUME NEW t \in Session, current'[t] # NoPeer
        PROVE  /\ group'[t] = "primary" => current'[t] \in PeersOf("primary")
               /\ IF Single THEN pc'[t] \notin {"start", "get", "pick"}
                  ELSE current'[t] \in tried'[t] \/ current'[t] \notin PeersOf(group'[t])
    <3>1. CASE t = s
      BY <2>1, <2>2, <2>3, <3>1 DEF Types, RetryInv, Tried
    <3>2. CASE t # s
      BY <2>1, <2>3, <2>5, <3>2 DEF Types, RetryInv
    <3> QED
      BY <3>1, <3>2
  <2> QED
    BY <2>3, <2>4, <2>5 DEF RetryInv
<1>3. ASSUME NEW s \in Session, ToBackup(s) PROVE RetryInv'
  <2>1. group[s] = "primary" /\ ~Single /\ Backup \in Nat /\ Primary \in Nat
    BY <1>3, PeersAssumption DEF ToBackup, Single
  <2>2. /\ group' = [group EXCEPT ![s] = "backup"] /\ tried' = [tried EXCEPT ![s] = {}]
        /\ UNCHANGED <<current, tries>>
    BY <1>3 DEF ToBackup
  <2>3. \A p \in PeersOf("primary") : p \notin PeersOf("backup")
    BY <2>1 DEF PeersOf
  <2> QED
    BY <2>1, <2>2, <2>3 DEF RetryInv, Types
<1>4. ASSUME NEW s \in Session, Leave(s) PROVE RetryInv'
  <2>1. PICK l : Goto(s, l) /\ (l = "get" => tries'[s] > 0 /\ job[s] = "failed") /\ l \notin {"start", "pick"}
    BY <1>4 DEF Leave
  <2>2. tries' = IF job[s] = "connected" THEN tries ELSE [tries EXCEPT ![s] = Fewer(@)]
    BY <1>4 DEF Leave
  <2>3. UNCHANGED <<current, tried, group>>
    BY <1>4 DEF Leave
  <2>4. tries' \in [Session -> Int]
    BY <2>2 DEF RetryInv, Fewer
  <2>5. l = "get" => ~Single
    BY <2>1, <2>2 DEF RetryInv, Fewer
  <2> QED
    BY <2>1, <2>3, <2>4, <2>5, RetryKept
<1>5. ASSUME NEW s \in Session,
             \/ Take(s) \/ Busy(s) \/ Relock(s) \/ Dial(s) \/ SessionEnds(s)
             \/ EnterRead(s) \/ LockPeer(s) \/ Load(s) \/ Update(s)
      PROVE  RetryInv'
  <2>1. /\ UNCHANGED <<current, tried, group, tries>>
        /\ \E l \in {"dial", "relock", "done", "enter", "lockpeer", "load", "update", "leave"} :
              Goto(s, l)
    BY <1>5 DEF Take, Busy, Relock, Dial, DialFails, DialAborted, DialDone, SessionEnds,
                Tell, EnterRead, LockPeer, Load, Update
  <2> QED
    BY <2>1, RetryKept DEF RetryInv
<1>6. ASSUME Tick \/ Done \/ UNCHANGED vars PROVE RetryInv'
  BY <1>6 DEF Tick, Done, vars, RetryInv
<1> QED
  BY <1>1, <1>2, <1>3, <1>4, <1>5, <1>6 DEF Next, Get, Free

\* The next try of a session is never the peer that has just failed.
THEOREM RetriesMoveOn == Spec => NoRetrySame
<1>1. Init => LockInv /\ RetryInv BY LockInit, RetryInit
<1>2. LockInv /\ RetryInv /\ [Next]_vars => (LockInv /\ RetryInv)'
  BY LockNext, RetryNext DEF LockInv
<1>3. ASSUME LockInv, RetryInv, [Next]_vars, NEW s \in Session,
             pc[s] = "pick", pc'[s] = "take", current[s] # NoPeer
      PROVE  current'[s] # current[s]
  <2>1. PICK t \in Session : Pick(t)
    BY <1>3 DEF Next, Start, Get, Free, Dial, GetLock, Take, ToBackup, Busy, Relock, DialFails,
       DialAborted, DialDone, SessionEnds, Tell, EnterRead, LockPeer, Load, Update, Leave,
       Tick, Done, vars, Goto, LockInv, Types
  <2>2. t = s
    BY <1>3, <2>1 DEF Pick, Goto, LockInv, Types
  <2>3. PICK best \in Usable(s) : current' = [current EXCEPT ![s] = best]
    BY <2>1, <2>2 DEF Pick
  <2> QED
    BY <1>3, <2>3 DEF Usable, RetryInv, LockInv, Types
<1>4. LockInv /\ RetryInv /\ [Next]_vars =>
         \A s \in Session : pc[s] = "pick" /\ pc'[s] = "take" /\ current[s] # NoPeer =>
            current'[s] # current[s]
  BY <1>3
<1> QED BY <1>1, <1>2, <1>4, PTL DEF Spec, NoRetrySame

-----------------------------------------------------------------------------
(* Induction over the natural numbers, for sets: the library's theorems    *)
(* for operators are out of the provers' reach, the well-foundedness of    *)
(* the order of finite sets is not.                                        *)

\* Among the numbers of a set there is a least one.
LEMMA LeastNumber ==
    ASSUME NEW T, T \subseteq Nat, T # {}
    PROVE  \E n \in T : \A m \in T : n <= m
<1>1. PICK k \in T : TRUE OBVIOUS
<1> DEFINE C == {0 .. m : m \in {i \in T : i <= k}}
<1>2. C \subseteq FiniteSubsetsOf(0 .. k)
  <2>1. \A m \in T : m <= k => 0 .. m \in SUBSET (0 .. k) BY <1>1
  <2>2. \A m \in T : IsFiniteSet(0 .. m) BY FS_Interval
  <2> QED BY <2>1, <2>2 DEF FiniteSubsetsOf
<1>3. C # {} BY <1>1
<1>4. IsWellFoundedOn(StrictSubsetOrdering(0 .. k), FiniteSubsetsOf(0 .. k))
  BY FS_StrictSubsetOrderingWellFounded
<1>5. PICK X \in C : \A Y \in C : <<Y, X>> \notin StrictSubsetOrdering(0 .. k)
  <2> HIDE DEF C
  <2> QED BY <1>2, <1>3, <1>4, WFMin
<1>6. PICK n \in T : n <= k /\ X = 0 .. n BY <1>5
<1>7. SUFFICES ASSUME NEW m \in T, m < n PROVE FALSE BY <1>6
<1>8. 0 .. m \in C BY <1>6, <1>7
<1>9. 0 .. m \subseteq 0 .. n /\ 0 .. m # 0 .. n
  <2>1. n \in 0 .. n /\ n \notin 0 .. m BY <1>7
  <2>2. 0 .. m \subseteq 0 .. n BY <1>7
  <2> QED BY <2>1, <2>2
<1>10. 0 .. m \in SUBSET (0 .. k) /\ 0 .. n \in SUBSET (0 .. k) BY <1>6, <1>7
<1>11. <<0 .. m, X>> \in StrictSubsetOrdering(0 .. k)
  BY <1>6, <1>9, <1>10 DEF StrictSubsetOrdering
<1> QED BY <1>5, <1>8, <1>11

\* Induction, for a set of numbers
LEMMA NumbersInduction ==
    ASSUME NEW T, 0 \in T, \A n \in Nat : n \in T => n + 1 \in T
    PROVE  \A n \in Nat : n \in T
<1> SUFFICES ASSUME NEW k \in Nat, k \notin T PROVE FALSE OBVIOUS
<1> DEFINE N == {i \in Nat : i \notin T}
<1>1. PICK n \in N : \A m \in N : n <= m
  <2>1. N \subseteq Nat /\ N # {} OBVIOUS
  <2> HIDE DEF N
  <2> QED BY <2>1, LeastNumber
<1>2. n # 0 /\ n - 1 \in Nat BY <1>1
<1>3. n - 1 \notin N BY <1>1, <1>2
<1>4. n - 1 + 1 = n BY <1>1
<1> QED BY <1>1, <1>2, <1>3, <1>4

-----------------------------------------------------------------------------
(* Sums over finite sets: those of MapThenSumSet.                          *)

Sum(f, S) == MapThenSumSet(LAMBDA p : f[p], S)

First(s) == CHOOSE x \in s : TRUE

\* g adds up f over the subsets of S
Adds(g, f, S) ==
    g = [s \in SUBSET S |-> IF s = {} THEN 0 ELSE f[First(s)] + g[s \ {First(s)}]]

\* ... and so it does, in the order of the model's sums.
Totals(g, f, S) == Adds(g, f, S) /\ \A s \in SUBSET S : Sum(f, s) = g[s]

Numbers(f, S) == \A x \in S : f[x] \in Int

LEMMA SumIs == ASSUME NEW f, NEW S PROVE Sum(f, S) = (CHOOSE g : Adds(g, f, S))[S]
BY DEF Sum, Adds, First, MapThenSumSet, MapThenFoldSet

LEMMA FirstIn == ASSUME NEW s, s # {} PROVE First(s) \in s
BY DEF First

\* There is such a function: it is found for ever larger subsets.
LEMMA AddsExists ==
    ASSUME NEW S, IsFiniteSet(S), NEW f, Numbers(f, S)
    PROVE  \E g \in [SUBSET S -> Int] : Adds(g, f, S)
<1> DEFINE Upto(n) == {s \in SUBSET S : Cardinality(s) <= n}
           Step(g, s) == IF s = {} THEN 0 ELSE f[First(s)] + g[s \ {First(s)}]
           T == {n \in Nat : \E g \in [Upto(n) -> Int] : \A s \in Upto(n) : g[s] = Step(g, s)}
<1>0. \A s \in SUBSET S : IsFiniteSet(s) /\ Cardinality(s) \in Nat
  BY FS_Subset, FS_CardinalityType
<1>1. \A s \in SUBSET S : s # {} =>
         /\ First(s) \in S /\ s \ {First(s)} \in SUBSET S
         /\ Cardinality(s \ {First(s)}) = Cardinality(s) - 1
  BY <1>0, FirstIn, FS_RemoveElement
<1>2. \A s \in SUBSET S : Cardinality(s) = 0 <=> s = {}
  BY <1>0, FS_EmptySet
<1>3. 0 \in T
  <2> DEFINE g == [s \in Upto(0) |-> 0]
  <2>1. \A s \in Upto(0) : s = {} BY <1>0, <1>2
  <2>2. g \in [Upto(0) -> Int] OBVIOUS
  <2>3. \A s \in Upto(0) : g[s] = Step(g, s) BY <2>1
  <2> QED BY <2>2, <2>3
<1>4. ASSUME NEW n \in Nat, n \in T PROVE n + 1 \in T
  <2>1. PICK g \in [Upto(n) -> Int] : \A s \in Upto(n) : g[s] = Step(g, s) BY <1>4
  <2> DEFINE h == [s \in Upto(n + 1) |-> Step(g, s)]
  <2>2. \A s \in Upto(n + 1) : s # {} => First(s) \in S /\ s \ {First(s)} \in Upto(n)
    <3> SUFFICES ASSUME NEW s \in Upto(n + 1), s # {}
                 PROVE  First(s) \in S /\ s \ {First(s)} \in Upto(n)
      OBVIOUS
    <3>1. Cardinality(s) \in Nat /\ Cardinality(s) <= n + 1 BY <1>0
    <3>2. Cardinality(s \ {First(s)}) = Cardinality(s) - 1 BY <1>1
    <3>3. Cardinality(s \ {First(s)}) <= n BY <3>1, <3>2
    <3> QED BY <1>1, <3>3
  <2>3. h \in [Upto(n + 1) -> Int] BY <2>2 DEF Numbers
  <2>4. \A s \in Upto(n) : s \in Upto(n + 1) /\ h[s] = g[s] BY <1>0, <2>1
  <2>5. \A s \in Upto(n + 1) : h[s] = Step(h, s) BY <2>2, <2>4
  <2> HIDE DEF h, Step, Upto
  <2>6. \E k \in [Upto(n + 1) -> Int] : \A s \in Upto(n + 1) : k[s] = Step(k, s) BY <2>3, <2>5
  <2> QED BY <2>6
<1>5. Cardinality(S) \in T
  <2> HIDE DEF T
  <2>1. \A n \in Nat : n \in T BY <1>3, <1>4, NumbersInduction
  <2> QED BY <2>1, FS_CardinalityType
<1>6. Upto(Cardinality(S)) = SUBSET S BY <1>0, FS_Subset
<1>7. PICK g \in [SUBSET S -> Int] : \A s \in SUBSET S : g[s] = Step(g, s) 
  <2> HIDE DEF Step, Upto
  <2> QED BY <1>5, <1>6
<1>8. g = [s \in SUBSET S |-> Step(g, s)] BY <1>7
<1> QED BY <1>8 DEF Adds

\* ... and only one
LEMMA AddsUnique ==
    ASSUME NEW S, IsFiniteSet(S), NEW g, NEW h, NEW e, NEW f, Adds(g, e, S), Adds(h, f, S),
           \A x \in S : e[x] = f[x]
    PROVE  \A s \in SUBSET S : g[s] = h[s]
<1> DEFINE T == {n \in Nat : \A s \in SUBSET S : Cardinality(s) = n => g[s] = h[s]}
<1>0. \A s \in SUBSET S : IsFiniteSet(s) /\ Cardinality(s) \in Nat
  BY FS_Subset, FS_CardinalityType
<1>1. \A s \in SUBSET S : s # {} =>
         /\ First(s) \in S /\ s \ {First(s)} \in SUBSET S
         /\ Cardinality(s \ {First(s)}) = Cardinality(s) - 1
  BY <1>0, FirstIn, FS_RemoveElement
<1>2. \A s \in SUBSET S : Cardinality(s) = 0 <=> s = {}
  BY <1>0, FS_EmptySet
<1>3. \A s \in SUBSET S : /\ g[s] = IF s = {} THEN 0 ELSE e[First(s)] + g[s \ {First(s)}]
                          /\ h[s] = IF s = {} THEN 0 ELSE f[First(s)] + h[s \ {First(s)}]
  BY DEF Adds
<1>4. 0 \in T BY <1>2, <1>3
<1>5. ASSUME NEW n \in Nat, n \in T PROVE n + 1 \in T
  <2> SUFFICES ASSUME NEW s \in SUBSET S, Cardinality(s) = n + 1 PROVE g[s] = h[s]
    OBVIOUS
  <2>1. s # {} BY <1>2
  <2>2. Cardinality(s \ {First(s)}) = n BY <1>1, <2>1
  <2>3. g[s \ {First(s)}] = h[s \ {First(s)}] BY <1>1, <1>5, <2>1, <2>2
  <2> QED BY <1>1, <1>3, <2>1, <2>3
<1>6. \A n \in Nat : n \in T
  <2> HIDE DEF T
  <2> QED BY <1>4, <1>5, NumbersInduction
<1> QED BY <1>0, <1>6

LEMMA SumAdds ==
    ASSUME NEW S, IsFiniteSet(S), NEW f, Numbers(f, S)
    PROVE  \E g \in [SUBSET S -> Int] : Totals(g, f, S)
<1>1. PICK g \in [SUBSET S -> Int] : Adds(g, f, S) BY AddsExists
<1>2. ASSUME NEW s \in SUBSET S PROVE Sum(f, s) = g[s]
  <2>1. IsFiniteSet(s) BY FS_Subset
  <2>2. \E h : Adds(h, f, s)
    <3>1. Numbers(f, s) BY DEF Numbers
    <3> QED BY <2>1, <3>1, AddsExists
  <2> DEFINE h == CHOOSE h : Adds(h, f, s)
  <2>3. Adds(h, f, s) BY <2>2
  <2> DEFINE r == [t \in SUBSET s |-> g[t]]
  <2>4. Adds(r, f, s)
    <3>1. \A t \in SUBSET s : t \in SUBSET S /\ (t # {} => t \ {First(t)} \in SUBSET s) OBVIOUS
    <3>2. \A t \in SUBSET s : g[t] = IF t = {} THEN 0 ELSE f[First(t)] + g[t \ {First(t)}]
      BY <1>1, <3>1 DEF Adds
    <3>3. \A t \in SUBSET s : r[t] = IF t = {} THEN 0 ELSE f[First(t)] + r[t \ {First(t)}]
      BY <3>1, <3>2
    <3> QED BY <3>3 DEF Adds
  <2>5. h[s] = r[s]
    <3> HIDE DEF h, r
    <3> QED BY <2>1, <2>3, <2>4, AddsUnique
  <2> QED BY <2>5, SumIs
<1> QED BY <1>1, <1>2 DEF Totals

LEMMA SumType ==
    ASSUME NEW S, IsFiniteSet(S), NEW f, Numbers(f, S)
    PROVE  Sum(f, S) \in Int
<1>1. PICK g \in [SUBSET S -> Int] : Totals(g, f, S) BY SumAdds
<1> QED BY <1>1 DEF Totals

LEMMA SumEmpty == ASSUME NEW f PROVE Sum(f, {}) = 0
<1>1. IsFiniteSet({}) BY FS_EmptySet
<1>2. Numbers(f, {}) BY DEF Numbers
<1>3. PICK g \in [SUBSET {} -> Int] : Totals(g, f, {}) BY <1>1, <1>2, SumAdds
<1>4. {} \in SUBSET {} OBVIOUS
<1> QED BY <1>3, <1>4 DEF Totals, Adds

\* The sum of a set is that of any of its elements and the rest.
LEMMA SumRemove ==
    ASSUME NEW S, IsFiniteSet(S), NEW f, Numbers(f, S), NEW y \in S
    PROVE  Sum(f, S) = f[y] + Sum(f, S \ {y})
<1> DEFINE T == {n \in Nat : \A s \in SUBSET S : Cardinality(s) = n =>
                    \A x \in s : Sum(f, s) = f[x] + Sum(f, s \ {x})}
<1>0. \A s \in SUBSET S : IsFiniteSet(s) /\ Cardinality(s) \in Nat /\ Sum(f, s) \in Int
  <2> TAKE s \in SUBSET S
  <2>1. IsFiniteSet(s) /\ Cardinality(s) \in Nat BY FS_Subset, FS_CardinalityType
  <2>2. Numbers(f, s) BY DEF Numbers
  <2> QED BY <2>1, <2>2, SumType
<1>1. \A s \in SUBSET S : \A x \in s :
         s \ {x} \in SUBSET S /\ Cardinality(s \ {x}) = Cardinality(s) - 1
  BY <1>0, FS_RemoveElement
<1>2. \A s \in SUBSET S : s # {} => First(s) \in s /\ Sum(f, s) = f[First(s)] + Sum(f, s \ {First(s)})
  <2>1. PICK g \in [SUBSET S -> Int] : Totals(g, f, S) BY SumAdds
  <2> TAKE s \in SUBSET S
  <2> HAVE s # {}
  <2>2. First(s) \in s /\ s \ {First(s)} \in SUBSET S BY FirstIn
  <2>3. g[s] = f[First(s)] + g[s \ {First(s)}] BY <2>1 DEF Totals, Adds
  <2> QED BY <2>1, <2>2, <2>3 DEF Totals
<1>3. 0 \in T
  <2> SUFFICES ASSUME NEW s \in SUBSET S, Cardinality(s) = 0, NEW x \in s PROVE FALSE
    OBVIOUS
  <2> QED BY <1>0, FS_EmptySet
<1>4. ASSUME NEW n \in Nat, n \in T PROVE n + 1 \in T
  <2> SUFFICES ASSUME NEW s \in SUBSET S, Cardinality(s) = n + 1, NEW x \in s
               PROVE  Sum(f, s) = f[x] + Sum(f, s \ {x})
    OBVIOUS
  <2> DEFINE c == First(s)
  <2>1. c \in s /\ Sum(f, s) = f[c] + Sum(f, s \ {c}) BY <1>2
  <2>2. SUFFICES ASSUME c # x PROVE Sum(f, s) = f[x] + Sum(f, s \ {x}) BY <2>1
  <2> HIDE DEF c
  <2>3. Cardinality(s \ {c}) = n /\ Cardinality(s \ {x}) = n BY <1>1, <2>1
  <2>4. s \ {c} \in SUBSET S /\ s \ {x} \in SUBSET S /\ x \in s \ {c} /\ c \in s \ {x} BY <2>1, <2>2
  <2>5. Sum(f, s \ {c}) = f[x] + Sum(f, (s \ {c}) \ {x}) BY <1>4, <2>3, <2>4
  <2>6. Sum(f, s \ {x}) = f[c] + Sum(f, (s \ {x}) \ {c}) BY <1>4, <2>3, <2>4
  <2>7. (s \ {c}) \ {x} = (s \ {x}) \ {c} OBVIOUS
  <2> DEFINE r == Sum(f, (s \ {x}) \ {c})
             sc == Sum(f, s \ {c})
             sx == Sum(f, s \ {x})
  <2>8. r \in Int /\ f[c] \in Int /\ f[x] \in Int BY <1>0, <2>1 DEF Numbers
  <2>9. sc = f[x] + r /\ sx = f[c] + r BY <2>5, <2>6, <2>7
  <2>10. Sum(f, s) = f[c] + sc BY <2>1
  <2> HIDE DEF r, sc, sx
  <2>11. Sum(f, s) = f[x] + sx BY <2>8, <2>9, <2>10
  <2> QED BY <2>11 DEF sx
<1>5. \A n \in Nat : n \in T
  <2> HIDE DEF T
  <2> QED BY <1>3, <1>4, NumbersInduction
<1> QED BY <1>0, <1>5

\* Sums add up termwise.
LEMMA SumOfSums ==
    ASSUME NEW S, IsFiniteSet(S), NEW e, NEW f, NEW h,
           \A x \in S : e[x] \in Int /\ f[x] \in Int /\ h[x] = e[x] + f[x]
    PROVE  Sum(h, S) = Sum(e, S) + Sum(f, S)
<1>0. Numbers(e, S) /\ Numbers(f, S) /\ Numbers(h, S) BY DEF Numbers
<1>1. PICK a \in [SUBSET S -> Int] : Totals(a, e, S) BY <1>0, SumAdds
<1>2. PICK b \in [SUBSET S -> Int] : Totals(b, f, S) BY <1>0, SumAdds
<1>3. PICK c \in [SUBSET S -> Int] : Totals(c, h, S) BY <1>0, SumAdds
<1> DEFINE d == [s \in SUBSET S |-> a[s] + b[s]]
<1>4. Adds(d, h, S)
  <2>1. ASSUME NEW s \in SUBSET S
        PROVE  d[s] = IF s = {} THEN 0 ELSE h[First(s)] + d[s \ {First(s)}]
    <3>1. CASE s = {} BY <1>1, <1>2, <3>1 DEF Totals, Adds
    <3>2. CASE s # {}
      <4>1. First(s) \in S /\ s \ {First(s)} \in SUBSET S BY <3>2, FirstIn
      <4>2. a[s] = e[First(s)] + a[s \ {First(s)}] /\ b[s] = f[First(s)] + b[s \ {First(s)}]
        BY <1>1, <1>2, <3>2 DEF Totals, Adds
      <4> QED BY <3>2, <4>1, <4>2
    <3> QED BY <3>1, <3>2
  <2> QED BY <2>1 DEF Adds
<1>5. c[S] = d[S]
  <2> HIDE DEF d
  <2> QED BY <1>3, <1>4, AddsUnique DEF Totals
<1> QED BY <1>1, <1>2, <1>3, <1>5 DEF Totals

\* A sum leaves out zeros.
LEMMA SumZeros ==
    ASSUME NEW S, IsFiniteSet(S), NEW f, Numbers(f, S),
           NEW U \in SUBSET S, \A x \in S \ U : f[x] = 0
    PROVE  Sum(f, S) = Sum(f, U)
<1> DEFINE T == {n \in Nat : \A s \in SUBSET S : U \subseteq s /\ Cardinality(s \ U) = n =>
                                Sum(f, s) = Sum(f, U)}
<1>0. \A s \in SUBSET S : IsFiniteSet(s) /\ Cardinality(s) \in Nat /\ Sum(f, s) \in Int
  <2> TAKE s \in SUBSET S
  <2>1. IsFiniteSet(s) /\ Cardinality(s) \in Nat BY FS_Subset, FS_CardinalityType
  <2>2. Numbers(f, s) BY DEF Numbers
  <2> QED BY <2>1, <2>2, SumType
<1>1. 0 \in T
  <2> SUFFICES ASSUME NEW s \in SUBSET S, U \subseteq s, Cardinality(s \ U) = 0 PROVE s = U
    OBVIOUS
  <2>1. s \ U \in SUBSET S OBVIOUS
  <2> QED BY <1>0, <2>1, FS_EmptySet
<1>2. ASSUME NEW n \in Nat, n \in T PROVE n + 1 \in T
  <2> SUFFICES ASSUME NEW s \in SUBSET S, U \subseteq s, Cardinality(s \ U) = n + 1
               PROVE  Sum(f, s) = Sum(f, U)
    OBVIOUS
  <2>1. s \ U \in SUBSET S OBVIOUS
  <2>2. s \ U # {} BY FS_EmptySet
  <2>3. PICK x \in s \ U : TRUE BY <2>2
  <2>4. (s \ U) \ {x} = (s \ {x}) \ U OBVIOUS
  <2>5. Cardinality((s \ {x}) \ U) = n
    <3>1. IsFiniteSet(s \ U) BY <1>0, <2>1
    <3>2. Cardinality((s \ U) \ {x}) = Cardinality(s \ U) - 1 BY <2>3, <3>1, FS_RemoveElement
    <3> QED BY <2>4, <3>2
  <2>6. Sum(f, s \ {x}) = Sum(f, U)
    <3>1. s \ {x} \in SUBSET S /\ U \subseteq s \ {x} BY <2>3
    <3> QED BY <1>2, <2>5, <3>1
  <2>7. Sum(f, s) = f[x] + Sum(f, s \ {x})
    <3>1. IsFiniteSet(s) /\ Numbers(f, s) /\ x \in s BY <1>0, <2>3 DEF Numbers
    <3> QED BY <3>1, SumRemove
  <2> QED BY <1>0, <2>3, <2>6, <2>7
<1>3. \A n \in Nat : n \in T
  <2> HIDE DEF T
  <2> QED BY <1>1, <1>2, NumbersInduction
<1>4. S \ U \in SUBSET S /\ S \in SUBSET S OBVIOUS
<1> QED BY <1>0, <1>3, <1>4

LEMMA SumSame ==
    ASSUME NEW S, IsFiniteSet(S), NEW e, NEW f, \A x \in S : e[x] = f[x] /\ f[x] \in Int
    PROVE  Sum(e, S) = Sum(f, S)
<1>0. Numbers(e, S) /\ Numbers(f, S) BY DEF Numbers
<1>1. PICK a \in [SUBSET S -> Int] : Totals(a, e, S) BY <1>0, SumAdds
<1>2. PICK b \in [SUBSET S -> Int] : Totals(b, f, S) BY <1>0, SumAdds
<1> QED BY <1>1, <1>2, AddsUnique DEF Totals

-----------------------------------------------------------------------------
(* The weights.                                                            *)

WeightTypes ==
    /\ current_weight \in [Peer -> Int] /\ effective_weight \in [Peer -> Nat]
    /\ \A p \in Peer : effective_weight[p] <= Weight[p]

RestTypes ==
    /\ fails \in [Peer -> Nat] /\ accessed \in [Peer -> Nat] /\ checked \in [Peer -> Nat]
    /\ tried \in [Session -> SUBSET Peer] /\ tries \in [Session -> Nat]
    /\ now \in Nat /\ clock \in [Session -> Nat]
    /\ answered \subseteq Peer /\ probe \in [Session -> Nat]

Balanced == \A g \in Group : Sum(current_weight, PeersOf(g)) = 0

WeightInv == WeightTypes /\ Balanced

LEMMA PeersFinite == ASSUME NEW g \in Group PROVE IsFiniteSet(PeersOf(g))
BY PeersAssumption, FS_Interval DEF PeersOf

LEMMA WeightInit == Init => WeightInv /\ RestTypes
<1> SUFFICES ASSUME Init PROVE WeightInv /\ RestTypes
  OBVIOUS
<1>1. WeightTypes
  BY PeersAssumption DEF Init, WeightTypes
<1>2. ASSUME NEW g \in Group PROVE Sum(current_weight, PeersOf(g)) = 0
  <2>1. Numbers(current_weight, PeersOf(g)) /\ \A p \in PeersOf(g) : current_weight[p] = 0
    BY PeersOfType DEF Init, Numbers
  <2>2. Sum(current_weight, PeersOf(g)) = Sum(current_weight, {})
    BY <2>1, PeersFinite, SumZeros
  <2> QED
    BY <2>2, SumEmpty
<1>3. Balanced
  BY <1>2 DEF Balanced
<1>4. IsFiniteSet({p \in Peer : ~Down[p]})
  <2>1. IsFiniteSet(Peer) BY PeersAssumption, FS_Interval DEF Peer
  <2> QED BY <2>1, FS_Subset
<1>5. Tries \in Nat
  BY <1>4, FS_CardinalityType, PeersAssumption DEF Tries
<1>6. RestTypes
  BY <1>5, PeersAssumption DEF Init, RestTypes
<1> QED BY <1>1, <1>3, <1>6 DEF WeightInv

Gains(new, cw, ew, U, best, S) ==
    \A p \in S : new[p] = cw[p] + (IF p \in U THEN ew[p] ELSE 0)
                                - (IF p = best THEN Sum(ew, U) ELSE 0)

\* What the peers of a list gain together the chosen one gives up.
LEMMA GainsBalance ==
    ASSUME NEW S, IsFiniteSet(S), NEW U \in SUBSET S, NEW best \in U,
           NEW cw, NEW ew, NEW new, Numbers(cw, S), Numbers(ew, S),
           Gains(new, cw, ew, U, best, S)
    PROVE  Sum(new, S) = Sum(cw, S)
<1> DEFINE gain == [p \in S |-> IF p \in U THEN ew[p] ELSE 0]
           cost == [p \in S |-> IF p = best THEN -Sum(ew, U) ELSE 0]
           mid  == [p \in S |-> cw[p] + gain[p]]
<1>1. IsFiniteSet(U) /\ Numbers(ew, U) BY FS_Subset DEF Numbers
<1>2. Sum(ew, U) \in Int BY <1>1, SumType
<1>3. Numbers(gain, S) /\ Numbers(cost, S) /\ Numbers(mid, S) BY <1>2 DEF Numbers
<1>4. Sum(gain, S) = Sum(ew, U)
  <2>1. \A p \in S \ U : gain[p] = 0 OBVIOUS
  <2>2. \A p \in U : gain[p] = ew[p] /\ ew[p] \in Int BY DEF Numbers
  <2> HIDE DEF gain
  <2>3. Sum(gain, S) = Sum(gain, U) BY <1>3, <2>1, SumZeros
  <2>4. Sum(gain, U) = Sum(ew, U) BY <1>1, <2>2, SumSame
  <2> QED BY <2>3, <2>4
<1>5. Sum(cost, S) = -Sum(ew, U)
  <2>1. best \in S /\ cost[best] = -Sum(ew, U) OBVIOUS
  <2>2. \A p \in S \ {best} : cost[p] = 0 OBVIOUS
  <2> HIDE DEF cost
  <2>3. Sum(cost, S) = cost[best] + Sum(cost, S \ {best}) BY <1>3, <2>1, SumRemove
  <2>4. Sum(cost, S \ {best}) = Sum(cost, {})
    <3>1. IsFiniteSet(S \ {best}) /\ Numbers(cost, S \ {best}) BY <1>3, FS_Subset DEF Numbers
    <3> QED BY <2>2, <3>1, SumZeros
  <2> QED BY <1>2, <2>1, <2>3, <2>4, SumEmpty
<1>6. Sum(mid, S) = Sum(cw, S) + Sum(gain, S)
  <2>1. \A p \in S : cw[p] \in Int /\ gain[p] \in Int /\ mid[p] = cw[p] + gain[p]
    BY <1>3 DEF Numbers
  <2> HIDE DEF gain, mid
  <2> QED BY <2>1, SumOfSums
<1>7. Sum(new, S) = Sum(mid, S) + Sum(cost, S)
  <2>1. \A p \in S : mid[p] \in Int /\ cost[p] \in Int /\ new[p] = mid[p] + cost[p]
    BY <1>2, <1>3 DEF Numbers, Gains
  <2> HIDE DEF mid, cost
  <2> QED BY <2>1, SumOfSums
<1>8. Sum(cw, S) \in Int BY SumType
<1> HIDE DEF mid, gain, cost
<1> QED BY <1>2, <1>4, <1>5, <1>6, <1>7, <1>8

LEMMA WeightNext == ASSUME Types, InList, RestTypes, WeightInv, [Next]_vars PROVE WeightInv'
<1> USE DEF peers, locks, session
<1>0. ASSUME UNCHANGED <<current_weight, effective_weight>> PROVE WeightInv'
  BY <1>0 DEF WeightInv, WeightTypes, Balanced
<1>1. ASSUME NEW s \in Session, Pick(s), ~Single PROVE WeightInv'
  <2> DEFINE U == Usable(s)
  <2>1. PICK best \in U :
           /\ current_weight' =
                 [p \in Peer |-> current_weight[p] + (IF p \in U THEN effective_weight[p] ELSE 0)
                                                  - (IF p = best THEN Total(U) ELSE 0)]
           /\ effective_weight' =
                 [p \in Peer |-> IF p \in U /\ effective_weight[p] < Weight[p]
                                 THEN effective_weight[p] + 1 ELSE effective_weight[p]]
    BY <1>1 DEF Pick
  <2>2. PICK g \in Group : g = group[s] BY DEF Types
  <2>3. U \subseteq PeersOf(g) BY <2>2 DEF Usable
  <2>4. Total(U) = Sum(effective_weight, U) BY DEF Total, Sum
  <2> HIDE DEF U
  <2>5. Numbers(effective_weight, PeersOf(g)) /\ Numbers(current_weight, PeersOf(g))
    BY PeersOfType DEF Numbers, WeightInv, WeightTypes
  <2>6. IsFiniteSet(U) /\ Numbers(effective_weight, U)
    BY <2>3, <2>5, PeersFinite, FS_Subset DEF Numbers
  <2>7. Total(U) \in Int BY <2>4, <2>6, SumType
  <2>8. WeightTypes'
    BY <2>1, <2>7, PeersAssumption DEF WeightInv, WeightTypes
  <2>9. ASSUME NEW h \in Group PROVE Sum(current_weight', PeersOf(h)) = Sum(current_weight, PeersOf(h))
    <3>1. CASE h = g
      <4>1. \A p \in PeersOf(g) :
               current_weight'[p] = current_weight[p] + (IF p \in U THEN effective_weight[p] ELSE 0)
                                      - (IF p = best THEN Sum(effective_weight, U) ELSE 0)
        BY <2>1, <2>4, PeersOfType
      <4>2. U \in SUBSET PeersOf(g) BY <2>3
      <4>3. IsFiniteSet(PeersOf(g)) BY PeersFinite
      <4>4. Gains(current_weight', current_weight, effective_weight, U, best, PeersOf(g))
        BY <4>1 DEF Gains
      <4> QED BY <2>5, <3>1, <4>2, <4>3, <4>4, GainsBalance
    <3>2. CASE h # g
      <4>1. \A p \in PeersOf(h) : p \notin PeersOf(g) BY <3>2, GroupsDisjoint
      <4>2. \A p \in PeersOf(h) : current_weight'[p] = current_weight[p] /\ current_weight[p] \in Int
        <5> TAKE p \in PeersOf(h)
        <5>1. p \in Peer /\ p \notin U /\ p # best BY <2>3, <4>1, PeersOfType
        <5>2. current_weight[p] \in Int BY <5>1 DEF WeightInv, WeightTypes
        <5> QED BY <2>1, <5>1, <5>2
      <4> QED BY <4>2, PeersFinite, SumSame
    <3> QED BY <3>1, <3>2
  <2>10. Balanced'
    BY <2>9 DEF WeightInv, Balanced
  <2> QED BY <2>8, <2>10 DEF WeightInv
<1>2. ASSUME NEW s \in Session, Pick(s), Single PROVE WeightInv'
  BY <1>0, <1>2 DEF Pick
<1>3. ASSUME NEW s \in Session, Update(s) PROVE WeightInv'
  <2>1. current[s] \in Peer BY <1>3, PeersOfType DEF Update, InList, Types
  <2>2. Reduced(current[s]) \in 0 .. effective_weight[current[s]]
    <3> DEFINE p == current[s]
    <3>1. effective_weight[p] \in Nat /\ Weight[p] \in Nat /\ MaxFails[p] \in Nat
      BY <2>1, PeersAssumption DEF WeightInv, WeightTypes
    <3> HIDE DEF p
    <3>2. MaxFails[p] # 0 => Weight[p] \div MaxFails[p] \in Nat BY <3>1
    <3>3. Reduced(p) \in 0 .. effective_weight[p] BY <3>1, <3>2 DEF Reduced
    <3> QED BY <3>3 DEF p
  <2>3. UNCHANGED current_weight BY <1>3 DEF Update
  <2>4. PICK v \in 0 .. effective_weight[current[s]] :
           effective_weight' = [effective_weight EXCEPT ![current[s]] = v]
    <3>1. effective_weight[current[s]] \in 0 .. effective_weight[current[s]]
      BY <2>1 DEF WeightInv, WeightTypes
    <3> QED BY <1>3, <2>2, <3>1 DEF Update
  <2>5. WeightTypes'
    <3>1. effective_weight' \in [Peer -> Nat] BY <2>1, <2>4 DEF WeightInv, WeightTypes
    <3>2. ASSUME NEW p \in Peer PROVE effective_weight'[p] <= Weight[p]
      <4>1. effective_weight'[p] <= effective_weight[p]
        BY <2>1, <2>4 DEF WeightInv, WeightTypes
      <4>2. effective_weight[p] <= Weight[p] /\ Weight[p] \in Nat /\ effective_weight[p] \in Nat
        BY PeersAssumption DEF WeightInv, WeightTypes
      <4> QED BY <3>1, <4>1, <4>2
    <3> QED BY <2>3, <3>1, <3>2 DEF WeightInv, WeightTypes
  <2> QED BY <2>3, <2>5 DEF WeightInv, Balanced
<1>4. ASSUME NEW s \in Session,
             \/ Start(s) \/ GetLock(s) \/ Take(s) \/ ToBackup(s) \/ Busy(s) \/ Relock(s)
             \/ Dial(s) \/ SessionEnds(s)
             \/ EnterRead(s) \/ LockPeer(s) \/ Load(s) \/ Leave(s)
      PROVE  UNCHANGED <<current_weight, effective_weight>>
  BY <1>4 DEF Start, GetLock, Take, ToBackup, Busy, Relock, Dial, DialFails, DialAborted,
              DialDone, SessionEnds, Tell, EnterRead, LockPeer, Load, Leave
<1>5. ASSUME Tick \/ Done \/ UNCHANGED vars PROVE UNCHANGED <<current_weight, effective_weight>>
  BY <1>5 DEF Tick, Done, vars
<1> QED
  BY <1>0, <1>1, <1>2, <1>3, <1>4, <1>5 DEF Next, Get, Free

\* Every step keeps the other types.
LEMMA RestNext == ASSUME Types, InList, RestTypes, [Next]_vars PROVE RestTypes'
<1> USE DEF peers, locks, session, RestTypes
<1>1. ASSUME NEW s \in Session, Pick(s) PROVE RestTypes'
  <2>1. PICK best \in Usable(s) :
           /\ probe' = [probe EXCEPT ![s] = IF ~Single /\ Disabled(best) THEN now ELSE 0]
           /\ IF Single THEN UNCHANGED <<checked, tried>>
              ELSE /\ tried' = [tried EXCEPT ![s] = Tried(s, best)]
                   /\ checked' = [checked EXCEPT ![best] = Checked(s, best)]
    BY <1>1 DEF Pick
  <2>2. best \in Peer BY <2>1, PeersOfType DEF Usable, Types
  <2>3. Checked(s, best) \in Nat /\ Tried(s, best) \subseteq Peer BY <2>2 DEF Checked, Tried
  <2> QED BY <1>1, <2>1, <2>2, <2>3 DEF Pick
<1>2. ASSUME NEW s \in Session, Start(s) \/ Dial(s) \/ SessionEnds(s) PROVE RestTypes'
  <2>1. pc[s] = "dial" => current[s] \in Peer BY PeersOfType DEF InList, Types
  <2> QED BY <1>2, <2>1 DEF Start, Wakes, Dial, DialFails, DialAborted, DialDone, SessionEnds, Tell
<1>3. ASSUME NEW s \in Session, Update(s) PROVE RestTypes'
  <2>1. current[s] \in Peer BY <1>3, PeersOfType DEF Update, InList, Types
  <2> QED BY <1>3, <2>1 DEF Update
<1>4. ASSUME NEW s \in Session, Leave(s) PROVE RestTypes'
  BY <1>4 DEF Leave, Fewer
<1>5. ASSUME NEW s \in Session, ToBackup(s) PROVE RestTypes'
  BY <1>5 DEF ToBackup
<1>6. ASSUME NEW s \in Session,
             \/ GetLock(s) \/ Take(s) \/ Busy(s) \/ Relock(s)
             \/ EnterRead(s) \/ LockPeer(s) \/ Load(s)
      PROVE  RestTypes'
  BY <1>6 DEF GetLock, Take, Busy, Relock, EnterRead, LockPeer, Load
<1>7. CASE Tick
  <2>1. now' = now + 1 /\ MaxLag \in Nat BY <1>7, PeersAssumption DEF Tick
  <2>2. clock' = [s \in Session |-> IF Running(s) THEN clock[s] ELSE now']
    BY <1>7 DEF Tick
  <2>3. \A s \in Session : clock'[s] \in Nat BY <2>1, <2>2
  <2>4. clock' \in [Session -> Nat] BY <2>2, <2>3
  <2> QED BY <1>7, <2>1, <2>4 DEF Tick
<1>8. ASSUME Done \/ UNCHANGED vars PROVE RestTypes'
  BY <1>8 DEF Done, vars
<1> QED
  BY <1>1, <1>2, <1>3, <1>4, <1>5, <1>6, <1>7, <1>8 DEF Next, Get, Free

LEMMA WeightsSpec == Spec => [](LockInv /\ RestTypes /\ WeightInv)
<1>1. Init => LockInv /\ RestTypes /\ WeightInv BY LockInit, WeightInit
<1>2. LockInv /\ RestTypes /\ WeightInv /\ [Next]_vars => (LockInv /\ RestTypes /\ WeightInv)'
  BY LockNext, RestNext, WeightNext DEF LockInv
<1> QED BY <1>1, <1>2, PTL DEF Spec

\* Every variable has its type; in particular an effective weight never leaves
\* 0 .. weight, however failures and scans of several workers follow each other.
THEOREM TypeCorrect == Spec => []TypeOK
<1>1. LockInv /\ RestTypes /\ WeightInv => TypeOK
  BY DEF LockInv, Types, RestTypes, WeightInv, WeightTypes, TypeOK
<1> QED BY <1>1, WeightsSpec, PTL

\* In each list the current weights always add up to 0: nobody is favoured in
\* the long run, for any number of peers, whatever their effective weights do.
THEOREM WeightsStayBalanced == Spec => []WeightsBalanced
<1>1. WeightInv => WeightsBalanced BY DEF WeightInv, Balanced, WeightsBalanced, Sum
<1> QED BY <1>1, WeightsSpec, PTL

=============================================================================
