-------------------------- MODULE RollbackProofs ---------------------------
(***************************************************************************)
(* Rollback, proved for every number of players, every set of inputs,      *)
(* every ring depth and input window, and every deterministic game.        *)
(*                                                                         *)
(* The order: the ring is a window and the mark is inside it (what every   *)
(* other fact needs); the snapshots are a chain; the chain makes the past  *)
(* a SettledHistory; confirmed inputs are the ones played. Then what a     *)
(* session decides and forgets: an input is the newest entry of a journal  *)
(* up to its tick; which edits of a journal leave that alone; one lemma    *)
(* per action.                                                             *)
(***************************************************************************)
EXTENDS Rollback, SessionLemmas

-----------------------------------------------------------------------------
(* The shape of a session between any two steps.                           *)
ClockIsTheOldest ==
    sess.clock.settled = IF sess.next = 1 THEN NoTick ELSE Oldest(sess.next)

UsedHasRun ==
    \A p \in Players : \A t \in DOMAIN sess.used[p] : 0 < t /\ t < sess.next

Shape == TypeOK /\ RingIsRecent /\ DirtyIsRestorable /\ ClockIsTheOldest /\ UsedHasRun

LEMMA RingIsTheWindow ==
    ASSUME Shape
    PROVE  /\ DOMAIN sess.ring = RingTicks(sess.next)
           /\ sess.next \in Nat \ {0}
           /\ sess.next > 1 => sess.next - 1 \in DOMAIN sess.ring
<1>1. DOMAIN sess.ring = RingTicks(sess.next) /\ sess.next \in Nat \ {0}
    BY DEF Shape, TypeOK, IsSession, RingIsRecent, RingTicks
<1>2. sess.next > 1 => sess.next - 1 \in RingTicks(sess.next)
    BY <1>1, DepthAssumption DEF RingTicks
<1> QED
    BY <1>1, <1>2

(* A tick that was played and is not below the ring is in it.              *)
LEMMA PlayedIsBelowOrIn ==
    ASSUME Shape, NEW t \in Nat, 0 < t, t < sess.next, ~BelowRing(sess, t)
    PROVE  t \in DOMAIN sess.ring
<1>1. DOMAIN sess.ring = RingTicks(sess.next) /\ sess.next \in Nat \ {0}
    BY RingIsTheWindow
<1>2. sess.next - 1 \in DOMAIN sess.ring
    BY RingIsTheWindow
<1>3. PICK e \in DOMAIN sess.ring : ~(t < e)
    BY <1>2 DEF BelowRing
<1> QED
    BY <1>1, <1>3, DepthAssumption DEF RingTicks

LEMMA ShapeInit == Init => Shape
<1> SUFFICES ASSUME Init PROVE Shape
    OBVIOUS
<1>1. TypeOK
    BY NewSessionIsASession DEF Init, TypeOK, NoTick
<1>2. sess = NewSession /\ cursor = NoTick /\ resimulating = FALSE
    BY DEF Init
<1>3. /\ sess.next = 1 /\ DOMAIN sess.ring = {} /\ sess.dirty = NoTick
      /\ sess.clock.settled = NoTick
      /\ \A p \in Players : DOMAIN sess.used[p] = {}
    BY <1>2 DEF NewSession, NoEntries
<1> QED
    BY <1>1, <1>2, <1>3
       DEF Shape, RingIsRecent, DirtyIsRestorable, ClockIsTheOldest, UsedHasRun, Idle, NoTick

LEMMA ShapeSubmit ==
    ASSUME Shape, NEW p \in Players \union Strangers, NEW t \in Ticks, NEW v \in Input,
           Submit(p, t, v)
    PROVE  Shape'
<1>1. t \in Nat /\ IsSession(sess)
    BY DEF Ticks, Shape, TypeOK
<1>2. /\ IsSession(sess')
      /\ sess'.next = sess.next /\ sess'.ring = sess.ring /\ sess'.used = sess.used
      /\ sess'.clock = sess.clock
      /\ sess'.dirty = sess.dirty \/ (sess'.dirty = t /\ t < sess.next /\ ~BelowRing(sess, t))
    BY <1>1, SubmitFrame DEF Submit
<1>3. cursor' = cursor /\ resimulating' = resimulating /\ Idle
    BY DEF Submit
<1>4. t < sess.next /\ ~BelowRing(sess, t) => t \in DOMAIN sess.ring \/ (t = 0 /\ sess.next = 1)
    <2>1. CASE 0 < t
        BY <1>1, <2>1, PlayedIsBelowOrIn
    <2>2. CASE t = 0 /\ sess.next # 1
        <3>1. DOMAIN sess.ring = RingTicks(sess.next) /\ sess.next - 1 \in DOMAIN sess.ring
            BY <2>2, RingIsTheWindow
        <3>2. BelowRing(sess, t)
            BY <2>2, <3>1 DEF BelowRing, RingTicks
        <3> QED
            BY <3>2
    <2> QED
        BY <1>1, <2>1, <2>2
<1>5. DirtyIsRestorable'
    BY <1>2, <1>3, <1>4 DEF Shape, DirtyIsRestorable, Idle
<1>6. RingIsRecent' /\ ClockIsTheOldest' /\ UsedHasRun'
    BY <1>2 DEF Shape, RingIsRecent, ClockIsTheOldest, UsedHasRun
<1> QED
    BY <1>2, <1>3, <1>5, <1>6 DEF Shape, TypeOK

LEMMA ShapeSetAbsent ==
    ASSUME Shape, NEW p \in Players, NEW from \in Ticks, SetAbsent(p, from)
    PROVE  Shape'
<1>1. from \in Nat /\ IsSession(sess) /\ sess' = SetAbsentOn(sess, p, from)
    BY DEF Ticks, Shape, TypeOK, SetAbsent
<1>2. /\ IsSession(sess')
      /\ sess'.next = sess.next /\ sess'.ring = sess.ring /\ sess'.used = sess.used
      /\ sess'.clock = sess.clock
    BY <1>1, SetAbsentFrame
<1>3. \/ sess'.dirty = sess.dirty
      \/ sess'.dirty \in DOMAIN sess.used[p] /\ ~BelowRing(sess, sess'.dirty)
    BY <1>1, SetAbsentFrame
<1>4. cursor' = cursor /\ resimulating' = resimulating /\ Idle
    BY DEF SetAbsent
<1>5. ASSUME NEW t \in DOMAIN sess.used[p], ~BelowRing(sess, t)
      PROVE  t \in DOMAIN sess.ring
    <2>1. t \in Nat /\ 0 < t /\ t < sess.next
        BY <1>1 DEF Shape, UsedHasRun, IsSession, IsJournal
    <2> QED
        BY <1>5, <2>1, PlayedIsBelowOrIn
<1>6. DirtyIsRestorable'
    BY <1>2, <1>3, <1>4, <1>5 DEF Shape, DirtyIsRestorable, Idle
<1>7. RingIsRecent' /\ ClockIsTheOldest' /\ UsedHasRun'
    BY <1>2 DEF Shape, RingIsRecent, ClockIsTheOldest, UsedHasRun
<1> QED
    BY <1>2, <1>4, <1>6, <1>7 DEF Shape, TypeOK

LEMMA ShapeBeginNext ==
    ASSUME Shape, BeginNext
    PROVE  Shape'
<1>1. IsSession(sess) /\ sess' = NotRewound(sess) /\ cursor' = sess.next /\ Idle
      /\ resimulating' = resimulating
    BY DEF Shape, TypeOK, BeginNext
<1>2. /\ IsSession(sess') /\ sess'.dirty = NoTick
      /\ sess'.next = sess.next /\ sess'.ring = sess.ring /\ sess'.used = sess.used
      /\ sess'.clock = sess.clock
    BY <1>1 DEF NotRewound, IsSession, Fields, NoTick
<1>3. ~resimulating
    BY <1>1 DEF Shape, DirtyIsRestorable
<1>4. sess.next \in Nat \ {0}
    BY <1>1 DEF IsSession
<1> QED
    BY <1>1, <1>2, <1>3, <1>4
       DEF Shape, TypeOK, RingIsRecent, DirtyIsRestorable, ClockIsTheOldest, UsedHasRun, Idle, NoTick

LEMMA ShapeBeginRewind ==
    ASSUME Shape, BeginRewind
    PROVE  Shape'
<1>1. IsSession(sess) /\ sess' = Rewound(sess) /\ cursor' = sess.dirty /\ Idle
      /\ sess.dirty \in DOMAIN sess.ring /\ resimulating' = (sess.dirty < sess.next)
    BY DEF Shape, TypeOK, BeginRewind, CanRewind
<1>2. /\ IsSession(sess') /\ sess'.dirty = NoTick
      /\ sess'.next = sess.next /\ sess'.ring = sess.ring /\ sess'.used = sess.used
      /\ sess'.clock = sess.clock
    BY <1>1 DEF Rewound, IsSession, Fields, NoTick
<1>3. sess.dirty \in Nat /\ sess.dirty < sess.next /\ sess.dirty # NoTick
    BY <1>1, RingIsTheWindow DEF IsSession, RingTicks, NoTick
<1>4. resimulating' \in BOOLEAN /\ resimulating'
    BY <1>1, <1>3
<1>5. DirtyIsRestorable'
    BY <1>1, <1>2, <1>3, <1>4 DEF DirtyIsRestorable, Idle
<1>6. RingIsRecent' /\ ClockIsTheOldest' /\ UsedHasRun'
    BY <1>2 DEF Shape, RingIsRecent, ClockIsTheOldest, UsedHasRun
<1> QED
    BY <1>1, <1>2, <1>3, <1>4, <1>5, <1>6 DEF Shape, TypeOK

(* What a tick of advance finds: its cursor is a tick run_tick can take.   *)
LEMMA CursorIsRunnable ==
    ASSUME Shape, ~Idle
    PROVE  /\ cursor \in Nat /\ sess.dirty = NoTick
           /\ cursor < sess.next => cursor \in RingTicks(sess.next)
           /\ cursor \in RingTicks(sess.next) \/ cursor = sess.next
<1>1. cursor \in Nat /\ sess.dirty = NoTick
    BY DEF Shape, TypeOK, DirtyIsRestorable, Idle
<1>2. cursor \in RingTicks(sess.next) \/ cursor = sess.next
    BY RingIsTheWindow DEF Shape, DirtyIsRestorable
<1>3. sess.next \in Nat
    BY RingIsTheWindow
<1> QED
    BY <1>1, <1>2, <1>3

LEMMA ShapeRunAgain ==
    ASSUME Shape, RunAgain
    PROVE  Shape'
<1> DEFINE r == RunTickOn(sess, cursor)
<1>1. IsSession(sess) /\ ~Idle /\ sess' = r /\ cursor' = cursor + 1
      /\ resimulating' = (cursor + 1 < sess.next)
    BY DEF Shape, TypeOK, RunAgain, Idle
<1>2. cursor \in Nat /\ sess.dirty = NoTick /\ cursor \in RingTicks(sess.next) /\ cursor < sess.next
    BY <1>1, CursorIsRunnable DEF RunAgain
<1>3. Following(cursor, sess.next) = sess.next
    BY <1>2 DEF Following
<1>4. DOMAIN sess.ring = RingTicks(sess.next) /\ sess.next \in Nat \ {0}
    BY RingIsTheWindow
<1>5. /\ IsSession(r) /\ r.next = sess.next /\ r.dirty = sess.dirty
      /\ DOMAIN r.ring = RingTicks(sess.next)
      /\ r.clock = [tick |-> cursor, settled |-> Oldest(sess.next)]
    BY <1>1, <1>2, <1>3, <1>4, RunTickIsASession, RunTickFields DEF Settled
<1>6. ASSUME NEW p \in Players
      PROVE  /\ cursor \in DOMAIN r.used[p]
             /\ \A u \in DOMAIN r.ring : u # cursor /\ u \in DOMAIN sess.used[p] => u \in DOMAIN r.used[p]
             /\ \A u \in DOMAIN r.used[p] : u = cursor \/ u \in DOMAIN sess.used[p]
    BY <1>1, <1>2, <1>4, RunTickJournal
<1>7. RingIsRecent'
    BY <1>1, <1>4, <1>5, <1>6 DEF Shape, RingIsRecent, RingTicks
<1>8. UsedHasRun'
    BY <1>1, <1>2, <1>4, <1>5, <1>6 DEF Shape, UsedHasRun, RingTicks
<1>9. ClockIsTheOldest'
    BY <1>1, <1>2, <1>4, <1>5 DEF ClockIsTheOldest, RingTicks
<1>10. DirtyIsRestorable'
    <2>1. cursor + 1 = sess.next \/ cursor + 1 \in RingTicks(sess.next)
        BY <1>2, <1>4, DepthAssumption DEF RingTicks
    <2>2. resimulating' <=> cursor + 1 < sess.next
        BY <1>1
    <2>3. cursor' # NoTick /\ cursor' = cursor + 1 /\ sess'.dirty = NoTick
          /\ sess'.next = sess.next /\ DOMAIN sess'.ring = RingTicks(sess.next)
        BY <1>1, <1>2, <1>5 DEF NoTick
    <2> QED
        BY <2>1, <2>2, <2>3 DEF DirtyIsRestorable, Idle
<1> QED
    BY <1>1, <1>2, <1>5, <1>7, <1>8, <1>9, <1>10 DEF Shape, TypeOK

LEMMA ShapeRunNext ==
    ASSUME Shape, RunNext
    PROVE  Shape'
<1> DEFINE r == RunTickOn(sess, cursor)
<1>1. IsSession(sess) /\ cursor = sess.next /\ sess' = [r EXCEPT !.next = @ + 1]
      /\ cursor' = NoTick /\ resimulating' = resimulating
    BY DEF Shape, TypeOK, RunNext
<1>2. DOMAIN sess.ring = RingTicks(sess.next) /\ sess.next \in Nat \ {0} /\ ~Idle
    BY <1>1, RingIsTheWindow DEF Idle, NoTick
<1>3. Following(cursor, sess.next) = sess.next + 1
    BY <1>1 DEF Following
<1>4. /\ IsSession(r) /\ r.next = sess.next /\ r.dirty = sess.dirty
      /\ DOMAIN r.ring = RingTicks(sess.next + 1)
      /\ r.clock = [tick |-> cursor, settled |-> Oldest(sess.next + 1)]
    BY <1>1, <1>2, <1>3, RunTickIsASession, RunTickFields DEF Settled
<1>5. ASSUME NEW p \in Players
      PROVE  /\ cursor \in DOMAIN r.used[p]
             /\ \A u \in DOMAIN r.ring : u # cursor /\ u \in DOMAIN sess.used[p] => u \in DOMAIN r.used[p]
             /\ \A u \in DOMAIN r.used[p] : u = cursor \/ u \in DOMAIN sess.used[p]
             /\ \A u \in DOMAIN r.ring : u # cursor => u \in DOMAIN sess.ring
    BY <1>1, <1>2, RunTickJournal, RunTickRing
<1>6. /\ IsSession(sess') /\ sess'.next = sess.next + 1 /\ sess'.dirty = r.dirty
      /\ sess'.ring = r.ring /\ sess'.used = r.used /\ sess'.clock = r.clock
    <2> HIDE DEF r
    <2> QED
        BY <1>1, <1>2, <1>4 DEF IsSession, Fields
<1>7. RingIsRecent'
    BY <1>2, <1>4, <1>5, <1>6 DEF Shape, RingIsRecent, RingTicks
<1>8. UsedHasRun'
    <2>1. \A p \in Players : \A u \in DOMAIN sess.used[p] : u \in Nat /\ 0 < u /\ u < sess.next
        BY <1>1 DEF Shape, UsedHasRun, IsSession, IsJournal
    <2> QED
        BY <1>1, <1>2, <1>5, <1>6, <2>1 DEF UsedHasRun
<1>9. ClockIsTheOldest'
    BY <1>1, <1>2, <1>4, <1>6 DEF ClockIsTheOldest
<1>10. DirtyIsRestorable'
    BY <1>1, <1>2, <1>4, <1>6, CursorIsRunnable DEF Shape, DirtyIsRestorable, Idle
<1> QED
    BY <1>1, <1>4, <1>6, <1>7, <1>8, <1>9, <1>10 DEF Shape, TypeOK

LEMMA ShapeStep == Shape /\ [Next]_vars => Shape'
<1> SUFFICES ASSUME Shape, [Next]_vars PROVE Shape'
    OBVIOUS
<1>1. ASSUME NEW p \in Players \union Strangers, NEW t \in Ticks, NEW v \in Input, Submit(p, t, v)
      PROVE  Shape'
    BY <1>1, ShapeSubmit
<1>2. ASSUME NEW p \in Players, NEW from \in Ticks, SetAbsent(p, from)
      PROVE  Shape'
    BY <1>2, ShapeSetAbsent
<1>3. CASE UNCHANGED vars
    BY <1>3 DEF vars, Shape, TypeOK, RingIsRecent, DirtyIsRestorable, ClockIsTheOldest, UsedHasRun, Idle
<1> QED
    BY <1>1, <1>2, <1>3, ShapeBeginNext, ShapeBeginRewind, ShapeRunAgain, ShapeRunNext DEF Next

LEMMA ShapeHolds == Spec => []Shape
BY ShapeInit, ShapeStep, PTL DEF Spec

(* Whatever is submitted, whoever leaves and however often ticks are run   *)
(* again, the session stays a session (rollback.rs Session).               *)
THEOREM TypeCorrect == Spec => []TypeOK
<1>1. Shape => TypeOK
    BY DEF Shape
<1> QED
    BY <1>1, ShapeHolds, PTL

(* The ring is always the most recent ticks, without a gap, as many as it  *)
(* has room for (snapshot.rs CheckpointRing::push under rollback's use).   *)
THEOREM RingStaysRecent == Spec => []RingIsRecent
<1>1. Shape => RingIsRecent
    BY DEF Shape
<1> QED
    BY <1>1, ShapeHolds, PTL

(* No correction the session accepted is ever dropped: the tick marked to  *)
(* run again is still in the ring when advance takes the mark.             *)
THEOREM DirtyStaysRestorable == Spec => []DirtyIsRestorable
<1>1. Shape => DirtyIsRestorable
    BY DEF Shape
<1> QED
    BY <1>1, ShapeHolds, PTL
-----------------------------------------------------------------------------
(* The chain of snapshots.                                                 *)

(* What one run_tick records, in the words of the invariants.              *)
LEMMA RunRecords ==
    ASSUME Shape, ~Idle
    PROVE  LET r == RunTickOn(sess, cursor)
           IN  /\ cursor \in DOMAIN r.ring /\ r.ring[cursor] = sess.world
               /\ r.world = Step(sess.world, RowOf(r, cursor))
               /\ r.digests[cursor] = Digest(r.world)
               /\ DOMAIN r.ring = RingTicks(Following(cursor, sess.next))
               /\ \A u \in DOMAIN r.ring : u # cursor =>
                    /\ u \in DOMAIN sess.ring
                    /\ r.ring[u] = sess.ring[u]
                    /\ r.digests[u] = sess.digests[u]
                    /\ RowOf(r, u) = RowOf(sess, u)
<1> DEFINE r == RunTickOn(sess, cursor)
<1>1. /\ IsSession(sess) /\ DOMAIN sess.ring = RingTicks(sess.next)
      /\ (cursor \in RingTicks(sess.next) \/ cursor = sess.next)
    BY CursorIsRunnable, RingIsTheWindow DEF Shape, TypeOK
<1>2. /\ cursor \in DOMAIN r.ring /\ r.ring[cursor] = sess.world
      /\ r.world = Step(sess.world, DecidedRow(sess, cursor))
      /\ r.digests[cursor] = Digest(r.world)
      /\ DOMAIN r.ring = RingTicks(Following(cursor, sess.next))
    <2>1. DOMAIN r.ring = RingTicks(Following(cursor, sess.next)) /\ r.world = Step(sess.world, DecidedRow(sess, cursor))
        BY <1>1, RunTickFields
    <2>2. cursor \in RingTicks(Following(cursor, sess.next))
        BY <1>1, RunTickWindow
    <2>3. r.ring[cursor] = sess.world /\ r.digests[cursor] = Digest(r.world)
        BY <1>1, RunTickRing
    <2> QED
        BY <2>1, <2>2, <2>3
<1>3. \A u \in DOMAIN r.ring : u # cursor =>
        /\ u \in DOMAIN sess.ring
        /\ r.ring[u] = sess.ring[u]
        /\ r.digests[u] = sess.digests[u]
    BY <1>1, RunTickRing
<1>4. \A p \in Players : r.used[p][cursor] = InputFor(sess, p, cursor)
    BY <1>1, RunTickJournal
<1>5. ASSUME NEW p \in Players
      PROVE  \A u \in DOMAIN r.ring : u # cursor /\ u \in DOMAIN sess.used[p] =>
                r.used[p][u] = sess.used[p][u]
    BY <1>1, RunTickJournal
<1>6. \A p \in Players : \A u \in DOMAIN sess.ring : u \in DOMAIN sess.used[p]
    BY DEF Shape, RingIsRecent
<1> HIDE DEF r
<1>7. \A u \in DOMAIN r.ring : u # cursor => RowOf(r, u) = RowOf(sess, u)
    BY <1>3, <1>5, <1>6 DEF RowOf
<1>8. RowOf(r, cursor) = DecidedRow(sess, cursor)
    BY <1>4 DEF RowOf, DecidedRow
<1> QED
    BY <1>2, <1>3, <1>7, <1>8 DEF r

Chain == HistoryIsChained /\ DigestsAreOfTheLastRun

LEMMA ChainInit == Init => Chain
<1> SUFFICES ASSUME Init PROVE Chain
    OBVIOUS
<1>1. DOMAIN sess.ring = {} /\ sess.world = Start
    BY DEF Init, NewSession, NoEntries
<1> QED
    BY <1>1 DEF Chain, HistoryIsChained, DigestsAreOfTheLastRun

LEMMA ChainKept ==
    ASSUME Chain, cursor' = cursor,
           sess'.ring = sess.ring, sess'.used = sess.used, sess'.world = sess.world,
           sess'.next = sess.next, sess'.digests = sess.digests
    PROVE  Chain'
BY DEF Chain, HistoryIsChained, DigestsAreOfTheLastRun, RowOf, Idle

LEMMA ChainBegin ==
    ASSUME Shape, Chain, BeginNext \/ BeginRewind
    PROVE  Chain'
<1>1. IsSession(sess) /\ Idle /\ sess.next \in Nat
    BY DEF Shape, TypeOK, IsSession, BeginNext, BeginRewind
<1>2. CASE BeginNext
    <2>1. /\ sess'.next = sess.next /\ sess'.ring = sess.ring /\ sess'.used = sess.used
          /\ sess'.world = sess.world /\ sess'.digests = sess.digests
          /\ cursor' = sess.next /\ ~Idle'
        BY <1>1, <1>2 DEF BeginNext, NotRewound, IsSession, Fields, Idle, NoTick
    <2>2. \A t \in DOMAIN sess.ring : t + 1 # cursor
        BY <1>1 DEF IsSession, Idle, NoTick
    <2> QED
        BY <1>1, <2>1, <2>2 DEF Chain, HistoryIsChained, DigestsAreOfTheLastRun, RowOf
<1>3. CASE BeginRewind
    <2> DEFINE d == sess.dirty
    <2>1. /\ d \in DOMAIN sess.ring
          /\ sess'.next = sess.next /\ sess'.ring = sess.ring /\ sess'.used = sess.used
          /\ sess'.world = sess.ring[d] /\ sess'.digests = sess.digests
          /\ cursor' = d /\ d \in Nat /\ ~Idle'
        BY <1>1, <1>3 DEF BeginRewind, CanRewind, Rewound, IsSession, Fields, Idle, NoTick
    <2>2. \A t \in DOMAIN sess.ring : t + 1 # cursor
        BY <1>1 DEF IsSession, Idle, NoTick
    <2>3. \A t \in DOMAIN sess.ring : t + 1 \in DOMAIN sess.ring =>
            sess.ring[t + 1] = Step(sess.ring[t], RowOf(sess, t))
        BY <2>2 DEF Chain, HistoryIsChained
    <2>4. d - 1 \in DOMAIN sess.ring => sess.ring[d] = Step(sess.ring[d - 1], RowOf(sess, d - 1))
        <3>1. d - 1 + 1 = d
            BY <2>1
        <3> QED
            BY <2>1, <2>3, <3>1
    <2> QED
        BY <2>1, <2>3, <2>4 DEF Chain, HistoryIsChained, DigestsAreOfTheLastRun, RowOf
<1> QED
    BY <1>2, <1>3

LEMMA ChainRun ==
    ASSUME Shape, Chain, RunAgain \/ RunNext
    PROVE  Chain'
<1> DEFINE r == RunTickOn(sess, cursor)
<1>1. /\ ~Idle /\ IsSession(sess) /\ sess.next \in Nat \ {0} /\ cursor \in Nat
      /\ DOMAIN sess.ring \subseteq Nat
    BY RingIsTheWindow, CursorIsRunnable DEF Shape, TypeOK, IsSession, RunAgain, RunNext, Idle, NoTick
<1>2. IsSession(r) /\ r.next = sess.next
    BY <1>1, RunTickIsASession, RunTickFields, CursorIsRunnable, RingIsTheWindow
<1> HIDE DEF r
<1>3. /\ sess'.ring = r.ring /\ sess'.used = r.used /\ sess'.world = r.world
      /\ sess'.digests = r.digests
      /\ (IF Idle' THEN sess'.next ELSE cursor') - 1 = cursor
    <2>1. CASE RunAgain
        BY <1>1, <2>1 DEF RunAgain, Idle, NoTick, r
    <2>2. CASE RunNext
        BY <1>1, <1>2, <2>2 DEF RunNext, Idle, NoTick, IsSession, Fields, r
    <2> QED
        BY <2>1, <2>2
<1>4. /\ cursor \in DOMAIN r.ring /\ r.ring[cursor] = sess.world
      /\ r.world = Step(sess.world, RowOf(r, cursor))
      /\ r.digests[cursor] = Digest(r.world)
      /\ \A u \in DOMAIN r.ring : u # cursor =>
            /\ u \in DOMAIN sess.ring
            /\ r.ring[u] = sess.ring[u]
            /\ r.digests[u] = sess.digests[u]
            /\ RowOf(r, u) = RowOf(sess, u)
    BY <1>1, RunRecords DEF r
<1>5. \A u : RowOf(sess', u) = RowOf(r, u)
    BY <1>3 DEF RowOf
<1>6. DigestsAreOfTheLastRun'
    <2>1. \A u \in DOMAIN r.ring : r.digests[u] = Digest(Step(r.ring[u], RowOf(r, u)))
        BY <1>4 DEF Chain, DigestsAreOfTheLastRun
    <2> QED
        BY <1>3, <1>5, <2>1 DEF DigestsAreOfTheLastRun
<1>7. ASSUME NEW t \in DOMAIN r.ring, t + 1 \in DOMAIN r.ring, t # cursor
      PROVE  r.ring[t + 1] = Step(r.ring[t], RowOf(r, t))
    <2>1. t \in DOMAIN sess.ring /\ r.ring[t] = sess.ring[t] /\ RowOf(r, t) = RowOf(sess, t)
        BY <1>4, <1>7
    <2>2. CASE t + 1 = cursor
        <3>1. cursor - 1 = t
            BY <1>1, <2>1, <2>2
        <3>2. sess.world = Step(sess.ring[t], RowOf(sess, t))
            BY <1>1, <2>1, <3>1 DEF Chain, HistoryIsChained
        <3> QED
            BY <1>4, <2>1, <2>2, <3>2
    <2>3. CASE t + 1 # cursor
        BY <1>4, <1>7, <2>1, <2>3 DEF Chain, HistoryIsChained
    <2> QED
        BY <2>2, <2>3
<1>8. ASSUME NEW t \in DOMAIN r.ring, t + 1 \in DOMAIN r.ring, t + 1 # cursor'
      PROVE  t # cursor
    <2>1. RunNext => cursor + 1 \notin DOMAIN r.ring
        <3>1. RunNext => DOMAIN r.ring = RingTicks(sess.next + 1) /\ cursor = sess.next
            BY <1>1, RunRecords DEF RunNext, Following, r
        <3> QED
            BY <1>1, <3>1 DEF RingTicks
    <2>2. RunAgain => cursor' = cursor + 1
        BY DEF RunAgain
    <2> QED
        BY <1>8, <2>1, <2>2
<1>9. HistoryIsChained'
    <2>1. \A t \in DOMAIN r.ring : t + 1 \in DOMAIN r.ring /\ t + 1 # cursor' =>
            r.ring[t + 1] = Step(r.ring[t], RowOf(r, t))
        BY <1>7, <1>8
    <2>2. r.world = Step(r.ring[cursor], RowOf(r, cursor))
        BY <1>4
    <2> QED
        BY <1>3, <1>4, <1>5, <2>1, <2>2 DEF HistoryIsChained
<1> QED
    BY <1>6, <1>9 DEF Chain

LEMMA ChainStep == Shape /\ Chain /\ [Next]_vars => Chain'
<1> SUFFICES ASSUME Shape, Chain, [Next]_vars PROVE Chain'
    OBVIOUS
<1>1. IsSession(sess)
    BY DEF Shape, TypeOK
<1>2. ASSUME NEW p \in Players \union Strangers, NEW t \in Ticks, NEW v \in Input, Submit(p, t, v)
      PROVE  Chain'
    <2>1. t \in Nat
        BY DEF Ticks
    <2>2. /\ sess'.ring = sess.ring /\ sess'.used = sess.used /\ sess'.world = sess.world
          /\ sess'.next = sess.next /\ sess'.digests = sess.digests /\ cursor' = cursor
        BY <1>1, <1>2, <2>1, SubmitFrame DEF Submit
    <2> QED
        BY <2>2, ChainKept
<1>3. ASSUME NEW p \in Players, NEW from \in Ticks, SetAbsent(p, from)
      PROVE  Chain'
    <2>1. from \in Nat
        BY DEF Ticks
    <2>2. /\ sess'.ring = sess.ring /\ sess'.used = sess.used /\ sess'.world = sess.world
          /\ sess'.next = sess.next /\ sess'.digests = sess.digests /\ cursor' = cursor
        BY <1>1, <1>3, <2>1, SetAbsentFrame DEF SetAbsent
    <2> QED
        BY <2>2, ChainKept
<1>4. CASE UNCHANGED vars
    BY <1>4, ChainKept DEF vars
<1> QED
    BY <1>2, <1>3, <1>4, ChainBegin, ChainRun DEF Next

LEMMA ChainHolds == Spec => []Chain
BY ShapeHolds, ChainInit, ChainStep, PTL DEF Spec

(* However rollbacks interleave with arrivals and departures, the world    *)
(* and every snapshot of it are the deterministic result of the inputs the *)
(* journal records as used: nothing of an undone run survives.             *)
THEOREM HistoryStaysChained == Spec => []HistoryIsChained
<1>1. Chain => HistoryIsChained
    BY DEF Chain
<1> QED
    BY <1>1, ChainHolds, PTL

(* digest_at never answers with the digest of a run that was undone.       *)
THEOREM DigestsStayFresh == Spec => []DigestsAreOfTheLastRun
<1>1. Chain => DigestsAreOfTheLastRun
    BY DEF Chain
<1> QED
    BY <1>1, ChainHolds, PTL
-----------------------------------------------------------------------------
(* Confirmed inputs are the ones played.                                   *)
AbsentIsSilent ==
    \A p \in DOMAIN sess.absent : \A t \in DOMAIN sess.arrived[p] : t < sess.absent[p]

Heard == ArrivedIsPlayed /\ AbsentIsSilent

LEMMA HeardInit == Init => Heard
<1> SUFFICES ASSUME Init PROVE Heard
    OBVIOUS
<1>1. DOMAIN sess.ring = {} /\ DOMAIN sess.absent = {}
    BY DEF Init, NewSession, NoEntries
<1> QED
    BY <1>1 DEF Heard, ArrivedIsPlayed, AbsentIsSilent

LEMMA HeardSubmit ==
    ASSUME Shape, Heard,
           NEW p \in Players \union Strangers, NEW t \in Ticks, NEW v \in Input,
           Submit(p, t, v)
    PROVE  Heard'
<1>1. IsSession(sess) /\ t \in Nat /\ sess' = SubmitTo(sess, p, t, v) /\ Idle /\ Idle'
    BY DEF Shape, TypeOK, Ticks, Submit, Idle
<1>2. /\ sess'.next = sess.next /\ sess'.ring = sess.ring /\ sess'.used = sess.used
      /\ sess'.absent = sess.absent
      /\ sess.dirty # NoTick => sess'.dirty # NoTick /\ sess'.dirty <= sess.dirty
      /\ sess'.dirty = sess.dirty \/ (sess'.dirty = t /\ t < sess.next)
    BY <1>1, SubmitFrame
<1>3. ASSUME NEW q \in Players, NEW u \in DOMAIN sess'.arrived[q]
      PROVE  \/ u \in DOMAIN sess.arrived[q] /\ sess'.arrived[q][u] = sess.arrived[q][u]
             \/ /\ u = t /\ IsPresent(sess, q, u) /\ sess'.arrived[q][u] = v
                /\ \/ t >= sess.next
                   \/ t \in DOMAIN sess.used[q] /\ sess.used[q][t] = v
                   \/ BelowRing(sess, t)
                   \/ sess'.dirty # NoTick /\ sess'.dirty <= t
    BY <1>1, <1>3, SubmitJournals
<1>4. AbsentIsSilent'
    <2>1. DOMAIN sess.absent \subseteq Players
        BY <1>1 DEF IsSession
    <2> QED
        BY <1>2, <1>3, <2>1 DEF Heard, AbsentIsSilent, IsPresent
<1>5. sess.next \in Nat /\ sess.dirty \in Nat \union {NoTick} /\ DOMAIN sess.ring \subseteq Nat
    BY <1>1 DEF IsSession
<1>6. \A u \in DOMAIN sess.ring : u < sess.next /\ ~BelowRing(sess, u)
    BY <1>5, RingIsTheWindow DEF RingTicks, BelowRing
<1>7. ASSUME NEW q \in Players, NEW u \in DOMAIN sess.ring, u \in DOMAIN sess'.arrived[q], u < Played'
      PROVE  sess.used[q][u] = sess'.arrived[q][u]
    <2>1. u < Played
        BY <1>1, <1>2, <1>5, <1>7 DEF Played, NoTick
    <2>2. sess'.dirty # NoTick => ~(sess'.dirty <= u)
        BY <1>1, <1>2, <1>5, <1>7 DEF Played
    <2>3. CASE u \in DOMAIN sess.arrived[q] /\ sess'.arrived[q][u] = sess.arrived[q][u]
        BY <2>1, <2>3 DEF Heard, ArrivedIsPlayed
    <2>4. CASE u = t /\ sess'.arrived[q][u] = v /\ sess.used[q][t] = v
        BY <2>4
    <2>5. u >= sess.next => FALSE
        BY <1>5, <1>6
    <2> QED
        BY <1>3, <1>6, <1>7, <2>2, <2>3, <2>4, <2>5
<1>8. ArrivedIsPlayed'
    BY <1>2, <1>7 DEF ArrivedIsPlayed
<1> QED
    BY <1>4, <1>8 DEF Heard

LEMMA HeardSetAbsent ==
    ASSUME Shape, Heard, NEW p \in Players, NEW from \in Ticks, SetAbsent(p, from)
    PROVE  Heard'
<1>1. IsSession(sess) /\ from \in Nat /\ sess' = SetAbsentOn(sess, p, from) /\ Idle /\ Idle'
    BY DEF Shape, TypeOK, Ticks, SetAbsent, Idle
<1>2. /\ sess'.next = sess.next /\ sess'.ring = sess.ring /\ sess'.used = sess.used
      /\ sess'.absent = Put(sess.absent, p, from)
      /\ sess.dirty # NoTick => sess'.dirty # NoTick /\ sess'.dirty <= sess.dirty
      /\ sess'.dirty = sess.dirty \/ sess'.dirty \in DOMAIN sess.used[p]
    BY <1>1, SetAbsentFrame
<1>3. ASSUME NEW q \in Players, NEW u \in DOMAIN sess'.arrived[q]
      PROVE  /\ u \in DOMAIN sess.arrived[q] /\ sess'.arrived[q][u] = sess.arrived[q][u]
             /\ q = p => u < from
    BY <1>1, <1>3, SetAbsentFrame
<1>4. AbsentIsSilent'
    <2>1. DOMAIN sess.absent \subseteq Players
        BY <1>1 DEF IsSession
    <2> QED
        BY <1>2, <1>3, <2>1 DEF Heard, AbsentIsSilent, Put
<1>5. /\ sess.next \in Nat /\ sess.dirty \in Nat \union {NoTick} /\ DOMAIN sess.ring \subseteq Nat
      /\ \A u \in DOMAIN sess.used[p] : u \in Nat /\ u < sess.next
    BY <1>1 DEF IsSession, IsJournal, Shape, UsedHasRun
<1>6. \A u \in DOMAIN sess.ring : u < Played' => u < Played
    BY <1>1, <1>2, <1>5 DEF Played, NoTick
<1>7. ArrivedIsPlayed'
    BY <1>2, <1>3, <1>6 DEF Heard, ArrivedIsPlayed
<1> QED
    BY <1>4, <1>7 DEF Heard

LEMMA HeardBegin ==
    ASSUME Shape, Heard, BeginNext \/ BeginRewind
    PROVE  Heard'
<1>1. /\ sess'.next = sess.next /\ sess'.ring = sess.ring /\ sess'.used = sess.used
      /\ sess'.arrived = sess.arrived /\ sess'.absent = sess.absent
    <2>1. DOMAIN sess = Fields
        BY DEF Shape, TypeOK, IsSession
    <2> QED
        BY <2>1 DEF BeginNext, BeginRewind, NotRewound, Rewound, Fields
<1>2. IsSession(sess) /\ Idle
    BY DEF Shape, TypeOK, BeginNext, BeginRewind
<1>3. \A u \in DOMAIN sess.ring : u < Played' => u < Played
    <2>1. CASE BeginRewind
        BY <1>2, <2>1 DEF BeginRewind, CanRewind, Played, Idle, IsSession, NoTick
    <2>2. CASE BeginNext /\ sess.dirty = NoTick
        BY <1>1, <1>2, <2>2 DEF BeginNext, Played, Idle, IsSession, NoTick
    <2>3. CASE BeginNext /\ sess.dirty # NoTick
        <3>1. sess.next = 1
            BY <2>3 DEF BeginNext, CanRewind, Shape, DirtyIsRestorable
        <3>2. DOMAIN sess.ring = {}
            BY <3>1, RingIsTheWindow DEF RingTicks
        <3> QED
            BY <3>2
    <2> QED
        BY <2>1, <2>2, <2>3
<1> QED
    BY <1>1, <1>3 DEF Heard, ArrivedIsPlayed, AbsentIsSilent

LEMMA HeardRun ==
    ASSUME Shape, Heard, RunAgain \/ RunNext
    PROVE  Heard'
<1> DEFINE r == RunTickOn(sess, cursor)
<1>1. /\ ~Idle /\ IsSession(sess) /\ cursor \in Nat /\ sess.next \in Nat
      /\ DOMAIN sess.ring = RingTicks(sess.next)
      /\ (cursor \in RingTicks(sess.next) \/ cursor = sess.next)
    BY RingIsTheWindow, CursorIsRunnable DEF Shape, TypeOK, IsSession, RunAgain, RunNext, Idle, NoTick
<1>2. /\ IsSession(r) /\ r.next = sess.next /\ r.absent = sess.absent /\ r.dirty = NoTick
    BY <1>1, RunTickIsASession, RunTickFields, CursorIsRunnable
<1>3. ASSUME NEW p \in Players
      PROVE  /\ r.used[p][cursor] = InputFor(sess, p, cursor)
             /\ \A u \in DOMAIN r.ring : u # cursor /\ u \in DOMAIN sess.used[p] =>
                    r.used[p][u] = sess.used[p][u]
             /\ \A u \in DOMAIN r.arrived[p] :
                    u \in DOMAIN sess.arrived[p] /\ r.arrived[p][u] = sess.arrived[p][u]
    BY <1>1, RunTickJournal
<1>4. \A u \in DOMAIN r.ring : u # cursor => u \in DOMAIN sess.ring
    BY <1>1, RunTickRing
<1> HIDE DEF r
<1>5. /\ sess'.ring = r.ring /\ sess'.used = r.used /\ sess'.arrived = r.arrived
      /\ sess'.absent = sess.absent /\ Played' = cursor + 1
    <2>1. CASE RunAgain
        BY <1>1, <1>2, <2>1 DEF RunAgain, Played, Idle, NoTick, r
    <2>2. CASE RunNext
        BY <1>1, <1>2, <2>2 DEF RunNext, Played, Idle, NoTick, IsSession, Fields, r
    <2> QED
        BY <2>1, <2>2
<1>6. AbsentIsSilent'
    <2>1. DOMAIN sess.absent \subseteq Players
        BY <1>1 DEF IsSession
    <2> QED
        BY <1>3, <1>5, <2>1 DEF Heard, AbsentIsSilent
<1>7. ASSUME NEW p \in Players, NEW u \in DOMAIN r.ring, u \in DOMAIN r.arrived[p], u < cursor + 1
      PROVE  r.used[p][u] = r.arrived[p][u]
    <2>1. u \in DOMAIN sess.arrived[p] /\ r.arrived[p][u] = sess.arrived[p][u]
        BY <1>3, <1>7
    <2>2. CASE u = cursor
        <3>1. IsPresent(sess, p, u)
            BY <2>1 DEF Heard, AbsentIsSilent, IsPresent
        <3> QED
            BY <1>3, <2>1, <2>2, <3>1 DEF InputFor
    <2>3. CASE u # cursor
        <3>1. u \in DOMAIN sess.ring /\ u \in Nat /\ u < cursor
            BY <1>1, <1>4, <1>7, <2>3 DEF IsSession
        <3>2. u \in DOMAIN sess.used[p] /\ u < Played
            BY <1>1, <3>1 DEF Shape, RingIsRecent, Played
        <3>3. sess.used[p][u] = sess.arrived[p][u]
            BY <2>1, <3>1, <3>2 DEF Heard, ArrivedIsPlayed
        <3> QED
            BY <1>3, <2>1, <2>3, <3>2, <3>3
    <2> QED
        BY <2>2, <2>3
<1>8. ArrivedIsPlayed'
    BY <1>5, <1>7 DEF ArrivedIsPlayed
<1> QED
    BY <1>6, <1>8 DEF Heard

LEMMA HeardStep == Shape /\ Heard /\ [Next]_vars => Heard'
<1> SUFFICES ASSUME Shape, Heard, [Next]_vars PROVE Heard'
    OBVIOUS
<1>1. ASSUME NEW p \in Players \union Strangers, NEW t \in Ticks, NEW v \in Input, Submit(p, t, v)
      PROVE  Heard'
    BY <1>1, HeardSubmit
<1>2. ASSUME NEW p \in Players, NEW from \in Ticks, SetAbsent(p, from)
      PROVE  Heard'
    BY <1>2, HeardSetAbsent
<1>3. CASE UNCHANGED vars
    BY <1>3 DEF vars, Heard, ArrivedIsPlayed, AbsentIsSilent, Played, Idle
<1> QED
    BY <1>1, <1>2, <1>3, HeardBegin, HeardRun DEF Next

(* Every input that has arrived for a tick still in the ring is the one    *)
(* that tick ran with, unless the tick is already due to run again: what   *)
(* confirmed tells a peer about the digest it is about to publish.         *)
THEOREM ArrivedStaysPlayed == Spec => []ArrivedIsPlayed
<1>1. Spec => []Heard
    BY ShapeHolds, HeardInit, HeardStep, PTL DEF Spec
<1>2. Heard => ArrivedIsPlayed
    BY DEF Heard
<1> QED
    BY <1>1, <1>2, PTL

-----------------------------------------------------------------------------
(***************************************************************************)
(* A session's settled past is final, and is a SettledHistory: every step  *)
(* of Rollback leaves the oldest restorable world alone or steps it once   *)
(* with the inputs recorded for the tick that left the ring.               *)
(***************************************************************************)
LEMMA TickOnlyGrows ==
    ASSUME Shape, [Next]_vars
    PROVE  sess'.next \in {sess.next, sess.next + 1}
<1>1. IsSession(sess)
    BY DEF Shape, TypeOK
<1>2. ASSUME NEW p \in Players \union Strangers, NEW t \in Ticks, NEW v \in Input, Submit(p, t, v)
      PROVE  sess'.next = sess.next
    BY <1>1, <1>2, SubmitFrame DEF Submit, Ticks
<1>3. ASSUME NEW p \in Players, NEW from \in Ticks, SetAbsent(p, from)
      PROVE  sess'.next = sess.next
    BY <1>1, <1>3, SetAbsentFrame DEF SetAbsent, Ticks
<1>4. CASE BeginNext \/ BeginRewind
    BY <1>1, <1>4 DEF BeginNext, BeginRewind, NotRewound, Rewound, IsSession, Fields
<1>5. CASE RunAgain \/ RunNext
    <2> DEFINE r == RunTickOn(sess, cursor)
    <2>1. ~Idle
        BY <1>5, RingIsTheWindow DEF RunAgain, RunNext, Idle, NoTick
    <2>2. DOMAIN r = Fields /\ r.next = sess.next
        BY <1>1, <2>1, RingIsTheWindow, CursorIsRunnable, RunTickFields
    <2> HIDE DEF r
    <2>3. sess' = r \/ sess' = [r EXCEPT !.next = @ + 1]
        BY <1>5 DEF RunAgain, RunNext, r
    <2> QED
        BY <2>2, <2>3 DEF Fields
<1>6. CASE UNCHANGED vars
    BY <1>6 DEF vars
<1> QED
    BY <1>2, <1>3, <1>4, <1>5, <1>6 DEF Next

(* What an effect that left the simulation rests on: a tick reported as    *)
(* settled (rollback.rs Clock) is never the tick of a later re-run, and    *)
(* the report never moves back.                                            *)
THEOREM SettledStaysFinal == Spec => SettledIsFinal
<1> DEFINE Final == /\ ~Idle' => cursor' >= sess'.clock.settled
                    /\ sess.clock.settled <= sess'.clock.settled
<1>1. Shape /\ Shape' /\ [Next]_vars => [Final]_vars
    <2> SUFFICES ASSUME Shape, Shape', [Next]_vars PROVE Final
        OBVIOUS
    <2>1. /\ sess.next \in Nat \ {0}
          /\ sess'.next \in {sess.next, sess.next + 1}
        BY RingIsTheWindow, TickOnlyGrows
    <2>2. /\ sess.clock.settled = IF sess.next = 1 THEN NoTick ELSE Oldest(sess.next)
          /\ sess'.clock.settled = IF sess'.next = 1 THEN NoTick ELSE Oldest(sess'.next)
        BY DEF Shape, ClockIsTheOldest
    <2>3. sess.clock.settled <= sess'.clock.settled
        BY <2>1, <2>2, DepthAssumption DEF Oldest, NoTick
    <2>4. ASSUME ~Idle' PROVE cursor' >= sess'.clock.settled
        <3>1. cursor' \in Nat
            BY <2>4 DEF Shape, TypeOK, Idle
        <3>2. cursor' = sess'.next \/ cursor' \in DOMAIN sess'.ring
            BY <2>4 DEF Shape, DirtyIsRestorable
        <3>3. DOMAIN sess'.ring = {t \in 1 .. sess'.next - 1 : t + Depth >= sess'.next}
            BY DEF Shape, RingIsRecent
        <3> QED
            BY <2>1, <2>2, <3>1, <3>2, <3>3, DepthAssumption DEF Oldest, NoTick
    <2> QED
        BY <2>3, <2>4
<1> QED
    BY <1>1, ShapeHolds, PTL DEF Spec, SettledIsFinal

-----------------------------------------------------------------------------
(* The settled world, by the tick it is the start of.                      *)
SettledBy(world, ring, next) ==
    /\ next = 1 => world = Start
    /\ next > 1 => Oldest(next) \in DOMAIN ring /\ world = ring[Oldest(next)]

LEMMA OldestOfTheWindow ==
    ASSUME NEW n \in Nat \ {0}
    PROVE  /\ n = 1 => RingTicks(n) = {}
           /\ n > 1 => /\ Oldest(n) \in RingTicks(n)
                       /\ Min(RingTicks(n)) = Oldest(n)
                       /\ RingTicks(n) # {}
<1>1. n > 1 => Min(RingTicks(n)) = Oldest(n)
    BY WindowMin
<1> QED
    BY <1>1, DepthAssumption DEF RingTicks, Oldest

LEMMA SettledWorldIs ==
    (Shape => SettledBy(SettledWorld, sess.ring, sess.next))
    /\ (Shape' => SettledBy(SettledWorld', sess'.ring, sess'.next))
<1>1. ASSUME Shape PROVE SettledBy(SettledWorld, sess.ring, sess.next)
    <2>1. DOMAIN sess.ring = RingTicks(sess.next) /\ sess.next \in Nat \ {0}
        BY <1>1 DEF Shape, TypeOK, IsSession, RingIsRecent, RingTicks
    <2> QED
        BY <2>1, OldestOfTheWindow DEF SettledWorld, SettledBy
<1>2. ASSUME Shape' PROVE SettledBy(SettledWorld', sess'.ring, sess'.next)
    <2>1. DOMAIN sess'.ring = RingTicks(sess'.next) /\ sess'.next \in Nat \ {0}
        BY <1>2 DEF Shape, TypeOK, IsSession, RingIsRecent, RingTicks
    <2> QED
        BY <2>1, OldestOfTheWindow DEF SettledWorld, SettledBy
<1> QED
    BY <1>1, <1>2

LEMMA RecordedRowIsARow ==
    ASSUME Shape, NEW t \in DOMAIN sess.ring
    PROVE  RowOf(sess, t) \in [Players -> Input]
<1>1. \A p \in Players : t \in DOMAIN sess.used[p] /\ sess.used[p][t] \in Input
    BY DEF Shape, TypeOK, IsSession, IsJournal, RingIsRecent
<1> QED
    BY <1>1 DEF RowOf

(* A tick run again leaves the settled world as it was: the oldest tick of *)
(* the ring starts again from the snapshot the rewind restored.            *)
LEMMA RunAgainKeepsTheSettled ==
    ASSUME Shape, Chain, Shape', RunAgain
    PROVE  SettledWorld' = SettledWorld
<1> DEFINE m == Oldest(sess.next)
           r == RunTickOn(sess, cursor)
<1>1. /\ ~Idle /\ cursor \in Nat /\ cursor \in RingTicks(sess.next) /\ sess.next \in Nat \ {0}
      /\ DOMAIN sess.ring = RingTicks(sess.next) /\ sess' = r
    BY CursorIsRunnable, RingIsTheWindow DEF RunAgain, Idle
<1>2. sess.next > 1 /\ sess'.next = sess.next
    <2>1. IsSession(sess)
        BY DEF Shape, TypeOK
    <2>2. r.next = sess.next
        BY <1>1, <2>1, RunTickFields
    <2> QED
        BY <1>1, <2>2 DEF RingTicks
<1>3. SettledWorld = sess.ring[m] /\ m \in DOMAIN sess.ring
    BY <1>2, SettledWorldIs DEF SettledBy
<1>4. SettledWorld' = r.ring[m] /\ m \in DOMAIN r.ring
    BY <1>1, <1>2, SettledWorldIs DEF SettledBy
<1>5. CASE cursor = m
    <2>1. r.ring[m] = sess.world
        BY <1>1, <1>5, RunRecords
    <2>2. cursor - 1 \notin DOMAIN sess.ring /\ cursor - 1 + 1 = m
        BY <1>1, <1>5, DepthAssumption DEF RingTicks, Oldest
    <2>3. sess.world = sess.ring[m]
        BY <1>1, <1>3, <2>2 DEF Chain, HistoryIsChained
    <2> QED
        BY <1>3, <1>4, <2>1, <2>3
<1>6. CASE cursor # m
    BY <1>1, <1>3, <1>4, <1>6, RunRecords
<1> QED
    BY <1>5, <1>6

(* A new tick settles at most one: the tick that left the ring, with the   *)
(* row recorded for it.                                                    *)
LEMMA RunNextSettlesOne ==
    ASSUME Shape, Chain, Shape', RunNext
    PROVE  \/ SettledWorld' = SettledWorld
           \/ \E row \in [Players -> Input] : SettledWorld' = Step(SettledWorld, row)
<1> DEFINE n == sess.next
           m == Oldest(n)
           r == RunTickOn(sess, cursor)
<1>1. /\ ~Idle /\ cursor = n /\ n \in Nat \ {0}
      /\ DOMAIN sess.ring = RingTicks(n) /\ IsSession(sess)
    BY RingIsTheWindow DEF RunNext, Idle, NoTick, Shape, TypeOK
<1>2. DOMAIN r = Fields /\ r.next = n
    BY <1>1, RunTickFields
<1>3. /\ n \in DOMAIN r.ring /\ r.ring[n] = sess.world
      /\ \A u \in DOMAIN r.ring : u # n => u \in DOMAIN sess.ring /\ r.ring[u] = sess.ring[u]
    BY <1>1, RunRecords
<1> HIDE DEF r
<1>4. sess'.next = n + 1 /\ sess'.ring = r.ring
    BY <1>2 DEF RunNext, Fields, r
<1>5. Oldest(n + 1) \in DOMAIN r.ring /\ SettledWorld' = r.ring[Oldest(n + 1)]
    BY <1>1, <1>4, SettledWorldIs DEF SettledBy
<1>6. CASE n = 1
    <2>1. Oldest(n + 1) = n /\ SettledWorld = Start
        BY <1>6, DepthAssumption, SettledWorldIs DEF Oldest, SettledBy
    <2>2. sess.world = Start
        BY <1>1, <1>6 DEF Chain, HistoryIsChained, RingTicks
    <2> QED
        BY <1>3, <1>5, <2>1, <2>2
<1>7. CASE n > 1 /\ n <= Depth
    <2>1. Oldest(n + 1) = m /\ m # n
        BY <1>1, <1>7, DepthAssumption DEF Oldest
    <2>2. SettledWorld = sess.ring[m]
        BY <1>7, SettledWorldIs DEF SettledBy
    <2> QED
        BY <1>3, <1>5, <2>1, <2>2
<1>8. CASE n > Depth /\ n > 1
    <2>1. Oldest(n + 1) = m + 1 /\ m + 1 <= n /\ m \in Nat
        BY <1>1, <1>8, DepthAssumption DEF Oldest
    <2>2. m \in DOMAIN sess.ring /\ SettledWorld = sess.ring[m]
        BY <1>8, SettledWorldIs DEF SettledBy
    <2>3. r.ring[m + 1] = Step(sess.ring[m], RowOf(sess, m))
        <3>1. CASE m + 1 = n
            <4>1. cursor - 1 = m
                BY <1>1, <2>1, <3>1
            <4>2. sess.world = Step(sess.ring[m], RowOf(sess, m))
                BY <1>1, <2>2, <4>1 DEF Chain, HistoryIsChained
            <4> QED
                BY <1>3, <3>1, <4>2
        <3>2. CASE m + 1 # n
            <4>1. m + 1 \in DOMAIN sess.ring /\ r.ring[m + 1] = sess.ring[m + 1]
                BY <1>3, <1>5, <2>1, <3>2
            <4>2. sess.ring[m + 1] = Step(sess.ring[m], RowOf(sess, m))
                BY <1>1, <2>2, <3>2, <4>1 DEF Chain, HistoryIsChained
            <4> QED
                BY <4>1, <4>2
        <3> QED
            BY <3>1, <3>2
    <2>4. RowOf(sess, m) \in [Players -> Input]
        BY <2>2, RecordedRowIsARow
    <2> QED
        BY <1>5, <2>1, <2>2, <2>3, <2>4
<1>9. n = 1 \/ (n > 1 /\ n <= Depth) \/ (n > Depth /\ n > 1)
    BY <1>1, DepthAssumption
<1> QED
    BY <1>6, <1>7, <1>8, <1>9

LEMMA EveryStepSettlesAtMostOne ==
    ASSUME Shape, Chain, Shape', [Next]_vars
    PROVE  \/ SettledWorld' = SettledWorld
           \/ \E row \in [Players -> Input] : SettledWorld' = Step(SettledWorld, row)
<1>1. IsSession(sess)
    BY DEF Shape, TypeOK
<1>2. ASSUME NEW p \in Players \union Strangers, NEW t \in Ticks, NEW v \in Input, Submit(p, t, v)
      PROVE  sess'.ring = sess.ring
    BY <1>1, <1>2, SubmitFrame DEF Submit, Ticks
<1>3. ASSUME NEW p \in Players, NEW from \in Ticks, SetAbsent(p, from)
      PROVE  sess'.ring = sess.ring
    BY <1>1, <1>3, SetAbsentFrame DEF SetAbsent, Ticks
<1>4. BeginNext \/ BeginRewind => sess'.ring = sess.ring
    BY <1>1 DEF BeginNext, BeginRewind, NotRewound, Rewound, IsSession, Fields
<1>5. UNCHANGED vars => sess'.ring = sess.ring
    BY DEF vars
<1>6. sess'.ring = sess.ring => SettledWorld' = SettledWorld
    BY DEF SettledWorld
<1> QED
    BY <1>2, <1>3, <1>4, <1>5, <1>6, RunAgainKeepsTheSettled, RunNextSettlesOne DEF Next

(* A rollback session implements a history that only grows: whatever is    *)
(* predicted, corrected and run again in front of it, the past the ring    *)
(* has let go of is one deterministic step per tick, and final.            *)
THEOREM RollbackImplementsSettledHistory == Spec => ImplementsSettledHistory
<1>1. Init => History!Init
    <2>1. Init => SettledWorld = Start
        BY DEF Init, NewSession, NoEntries, SettledWorld
    <2> QED
        BY <2>1 DEF History!Init
<1>2. Shape /\ Chain /\ Shape' /\ [Next]_vars => [History!Next]_SettledWorld
    BY EveryStepSettlesAtMostOne DEF History!Next, History!Settle
<1> QED
    BY <1>1, <1>2, ShapeHolds, ChainHolds, PTL DEF Spec, ImplementsSettledHistory, History!Spec

-----------------------------------------------------------------------------
(* The newest entry of a journal up to tick t.                             *)
Latest(journal, t) ==
    LET upto == {u \in DOMAIN journal : u <= t}
    IN  IF upto = {} THEN Nil ELSE journal[Max(upto)]

NewestUpTo(journal, t, k) ==
    /\ k \in DOMAIN journal /\ k <= t
    /\ \A u \in DOMAIN journal : u <= t => u <= k

LEMMA MaxIsTheGreatest ==
    ASSUME NEW S \in SUBSET Nat, NEW m \in S, \A x \in S : x <= m
    PROVE  Max(S) = m
<1>1. Max(S) \in S /\ \A x \in S : x <= Max(S)
    BY MaxOfBoundedNats
<1>2. Max(S) \in Nat /\ m \in Nat /\ Max(S) <= m /\ m <= Max(S)
    BY <1>1
<1> QED
    BY <1>2

(* Latest names the newest entry, when there is one.                       *)
LEMMA LatestIsNewest ==
    ASSUME NEW journal, DOMAIN journal \subseteq Nat, NEW t \in Nat,
           NEW k, NewestUpTo(journal, t, k)
    PROVE  Latest(journal, t) = journal[k]
<1> DEFINE upto == {u \in DOMAIN journal : u <= t}
<1>1. upto \in SUBSET Nat /\ k \in upto /\ \A u \in upto : u <= k
    BY DEF NewestUpTo
<1>2. Max(upto) = k
    <2> HIDE DEF upto
    <2> QED
        BY <1>1, MaxIsTheGreatest
<1> QED
    BY <1>1, <1>2 DEF Latest

LEMMA NewestOrNone ==
    ASSUME NEW journal, DOMAIN journal \subseteq Nat, NEW t \in Nat
    PROVE  \/ \A u \in DOMAIN journal : ~(u <= t)
           \/ \E k \in DOMAIN journal : NewestUpTo(journal, t, k)
<1> DEFINE upto == {u \in DOMAIN journal : u <= t}
<1>1. upto \in SUBSET Nat /\ \A u \in upto : u <= t
    OBVIOUS
<1>2. CASE upto # {}
    <2>1. Max(upto) \in upto /\ \A u \in upto : u <= Max(upto)
        BY <1>1, <1>2, MaxOfBoundedNats
    <2>2. NewestUpTo(journal, t, Max(upto))
        BY <2>1 DEF NewestUpTo
    <2> QED
        BY <2>1, <2>2
<1> QED
    BY <1>2

LEMMA LatestOfNone ==
    ASSUME NEW journal, NEW t, \A u \in DOMAIN journal : ~(u <= t)
    PROVE  Latest(journal, t) = Nil
<1>1. {u \in DOMAIN journal : u <= t} = {}
    OBVIOUS
<1> QED
    BY <1>1 DEF Latest

(* Two journals with the same newest entry up to t decide t alike.         *)
LEMMA LatestAlike ==
    ASSUME NEW j, NEW k, DOMAIN j \subseteq Nat, DOMAIN k \subseteq Nat, NEW t \in Nat,
           \A u \in DOMAIN k : u <= t => u \in DOMAIN j,
           \A u \in DOMAIN j : NewestUpTo(j, t, u) => u \in DOMAIN k /\ k[u] = j[u]
    PROVE  Latest(k, t) = Latest(j, t)
<1>1. CASE \A u \in DOMAIN j : ~(u <= t)
    <2>1. \A u \in DOMAIN k : ~(u <= t)
        BY <1>1
    <2> QED
        BY <1>1, <2>1, LatestOfNone
<1>2. CASE \E u \in DOMAIN j : NewestUpTo(j, t, u)
    <2>1. PICK u \in DOMAIN j : NewestUpTo(j, t, u)
        BY <1>2
    <2>2. NewestUpTo(k, t, u) /\ k[u] = j[u]
        BY <2>1 DEF NewestUpTo
    <2>3. Latest(j, t) = j[u] /\ Latest(k, t) = k[u]
        BY <2>1, <2>2, LatestIsNewest
    <2> QED
        BY <2>2, <2>3
<1> QED
    BY <1>1, <1>2, NewestOrNone

-----------------------------------------------------------------------------
(* What the operations do to it.                                           *)

(* inputs_for plays the newest arrival up to the tick: the tick's own, or  *)
(* the one its prediction repeats.                                         *)
LEMMA InputForIsLatest ==
    ASSUME NEW s, IsSession(s), NEW p \in Players, NEW t \in Nat
    PROVE  InputFor(s, p, t) = IF IsPresent(s, p, t) THEN Latest(s.arrived[p], t) ELSE Nil
<1> DEFINE journal == s.arrived[p]
           before == {u \in DOMAIN journal : u < t}
           upto == {u \in DOMAIN journal : u <= t}
<1>1. DOMAIN journal \subseteq Nat
    BY DEF IsSession, IsJournal
<1>2. CASE t \in DOMAIN journal
    <2>1. NewestUpTo(journal, t, t)
        BY <1>1, <1>2 DEF NewestUpTo
    <2>2. Latest(journal, t) = journal[t]
        BY <1>1, <2>1, LatestIsNewest
    <2> QED
        BY <1>2, <2>2 DEF InputFor
<1>3. CASE t \notin DOMAIN journal
    <2>1. before = upto
        BY <1>1, <1>3
    <2>2. Predict(s, p, t) = Latest(journal, t)
        BY <2>1 DEF Predict, Latest
    <2> QED
        BY <1>3, <2>2 DEF InputFor
<1> QED
    BY <1>2, <1>3

(* Pruning changes no decision from the tick just below the ring on.       *)
LEMMA LatestAfterPrune ==
    ASSUME NEW j, DOMAIN j \subseteq Nat, NEW first \in Nat, NEW t \in Nat, first <= t + 1
    PROVE  Latest(Prune(j, first), t) = Latest(j, t)
<1> DEFINE k == Prune(j, first)
<1>1. DOMAIN k \subseteq DOMAIN j /\ \A u \in DOMAIN k : k[u] = j[u]
    BY PruneKeeps
<1>2. ASSUME NEW u \in DOMAIN j, NewestUpTo(j, t, u)
      PROVE  u \in DOMAIN k
    <2>1. \A x \in DOMAIN j : x < first => x <= u
        BY <1>2 DEF NewestUpTo
    <2> QED
        BY <2>1 DEF Prune, Restrict
<1> HIDE DEF k
<1>3. \A u \in DOMAIN j : NewestUpTo(j, t, u) => u \in DOMAIN k /\ k[u] = j[u]
    BY <1>1, <1>2
<1>4. DOMAIN k \subseteq Nat /\ \A u \in DOMAIN k : u <= t => u \in DOMAIN j
    BY <1>1
<1>5. Latest(k, t) = Latest(j, t)
    BY <1>3, <1>4, LatestAlike
<1> QED
    BY <1>5 DEF k

(* An input changes no decision below its tick, and none above it when it  *)
(* is what was played there.                                               *)
LEMMA LatestAfterPut ==
    ASSUME NEW j, DOMAIN j \subseteq Nat, NEW t \in Nat, NEW u \in Nat, NEW v,
           t < u \/ Latest(j, u) = v
    PROVE  Latest(Put(j, u, v), t) = Latest(j, t)
<1> DEFINE k == Put(j, u, v)
<1>1. /\ DOMAIN k = DOMAIN j \union {u} /\ k[u] = v
      /\ \A x \in DOMAIN j : x # u => k[x] = j[x]
    BY DEF Put
<1> HIDE DEF k
<1>2. DOMAIN k \subseteq Nat
    BY <1>1
<1>3. CASE t < u
    <2>1. \A x \in DOMAIN k : x <= t => x \in DOMAIN j
        BY <1>1, <1>3
    <2>2. \A x \in DOMAIN j : NewestUpTo(j, t, x) => x \in DOMAIN k /\ k[x] = j[x]
        BY <1>1, <1>3 DEF NewestUpTo
    <2>3. Latest(k, t) = Latest(j, t)
        BY <1>2, <2>1, <2>2, LatestAlike
    <2> QED
        BY <2>3 DEF k
<1>4. CASE ~(t < u) /\ \E x \in DOMAIN j : x <= t /\ u < x
    <2>1. PICK x \in DOMAIN j : NewestUpTo(j, t, x)
        BY <1>4, NewestOrNone
    <2>2. u < x
        BY <1>4, <2>1 DEF NewestUpTo
    <2>3. NewestUpTo(k, t, x) /\ k[x] = j[x]
        BY <1>1, <2>1, <2>2 DEF NewestUpTo
    <2>4. Latest(j, t) = j[x] /\ Latest(k, t) = k[x]
        BY <1>2, <2>1, <2>3, LatestIsNewest
    <2> QED
        BY <2>3, <2>4 DEF k
<1>5. CASE ~(t < u) /\ ~\E x \in DOMAIN j : x <= t /\ u < x
    <2>1. NewestUpTo(k, t, u)
        BY <1>1, <1>5 DEF NewestUpTo
    <2>2. Latest(k, t) = v
        BY <1>1, <1>2, <2>1, LatestIsNewest
    <2>3. {x \in DOMAIN j : x <= t} = {x \in DOMAIN j : x <= u}
        BY <1>5
    <2>4. Latest(j, t) = Latest(j, u)
        BY <2>3 DEF Latest
    <2> QED
        BY <1>5, <2>2, <2>4 DEF k
<1> QED
    BY <1>3, <1>4, <1>5

(* Forgetting what comes after a player left changes nothing before it.    *)
LEMMA LatestAfterCut ==
    ASSUME NEW j, DOMAIN j \subseteq Nat, NEW from \in Nat, NEW t \in Nat, t < from
    PROVE  Latest(Restrict(j, {u \in DOMAIN j : u < from}), t) = Latest(j, t)
<1> DEFINE k == Restrict(j, {u \in DOMAIN j : u < from})
<1>1. /\ DOMAIN k = {u \in DOMAIN j : u < from}
      /\ \A u \in DOMAIN k : k[u] = j[u]
    BY DEF Restrict
<1> HIDE DEF k
<1>2. DOMAIN k \subseteq Nat /\ \A u \in DOMAIN k : u <= t => u \in DOMAIN j
    BY <1>1
<1>3. \A u \in DOMAIN j : NewestUpTo(j, t, u) => u \in DOMAIN k /\ k[u] = j[u]
    BY <1>1 DEF NewestUpTo
<1>4. Latest(k, t) = Latest(j, t)
    BY <1>2, <1>3, LatestAlike
<1> QED
    BY <1>4 DEF k
-----------------------------------------------------------------------------
(* submit, field by field: refused, or journalled under its tick; and a    *)
(* correction to what was played is counted or marked.                     *)
LEMMA SubmitDecides ==
    ASSUME NEW s, IsSession(s), NEW p, NEW t \in Nat, NEW v \in Input
    PROVE  LET r == SubmitTo(s, p, t, v)
           IN  \/ r = s
               \/ /\ p \in Players /\ IsPresent(s, p, t) /\ t <= s.next + Ahead
                  /\ r.arrived = [s.arrived EXCEPT ![p] = Put(@, t, v)]
                  /\ r.stale = 0 => s.stale = 0
                  /\ \/ t >= s.next
                     \/ t \in DOMAIN s.used[p] /\ s.used[p][t] = v
                     \/ r.stale # 0
                     \/ r.dirty # NoTick /\ r.dirty <= t
<1> DEFINE newest == IF p \in DOMAIN s.newest /\ t < s.newest[p] THEN s.newest[p] ELSE t
           noted == [s EXCEPT !.newest = Put(@, p, newest),
                              !.arrived[p] = Put(@, t, v)]
           changed == t \notin DOMAIN s.used[p] \/ s.used[p][t] # v
<1>1. CASE Refused(s, p, t)
    BY <1>1 DEF SubmitTo
<1>2. CASE ~Refused(s, p, t)
    <2>1. p \in Players /\ IsPresent(s, p, t) /\ t <= s.next + Ahead
        BY <1>2, AheadAssumption DEF Refused, IsSession
    <2>2. /\ DOMAIN noted = Fields
          /\ noted.ring = s.ring /\ noted.dirty = s.dirty /\ noted.stale = s.stale
          /\ noted.arrived = [s.arrived EXCEPT ![p] = Put(@, t, v)]
        BY DEF IsSession, Fields
    <2>3. s.next \in Nat /\ s.stale \in Nat /\ s.dirty \in Nat \union {NoTick}
        BY DEF IsSession
    <2> HIDE DEF noted
    <2>4. CASE t < s.next /\ changed
        <3>1. SubmitTo(s, p, t, v) = MarkDirty(noted, t)
            BY <1>2, <2>4 DEF SubmitTo, noted
        <3> DEFINE r == MarkDirty(noted, t)
        <3>2. r.arrived = noted.arrived
            BY <2>2 DEF MarkDirty, Fields
        <3>3. CASE BelowRing(noted, t)
            <4>1. r.stale = s.stale + 1
                BY <2>2, <3>3 DEF MarkDirty, Fields
            <4> HIDE DEF r
            <4> QED
                BY <2>1, <2>2, <2>3, <3>1, <3>2, <4>1 DEF r
        <3>4. CASE ~BelowRing(noted, t)
            <4>1. /\ r.stale = s.stale
                  /\ r.dirty = IF s.dirty = NoTick \/ t < s.dirty THEN t ELSE s.dirty
                BY <2>2, <3>4 DEF MarkDirty, Fields
            <4>2. r.dirty # NoTick /\ r.dirty <= t
                BY <2>3, <4>1 DEF NoTick
            <4> HIDE DEF r
            <4> QED
                BY <2>1, <2>2, <3>1, <3>2, <4>1, <4>2 DEF r
        <3> QED
            BY <3>3, <3>4
    <2>5. CASE ~(t < s.next /\ changed)
        <3>1. SubmitTo(s, p, t, v) = noted
            BY <1>2, <2>5 DEF SubmitTo, noted
        <3>2. t >= s.next \/ (t \in DOMAIN s.used[p] /\ s.used[p][t] = v)
            BY <2>3, <2>5
        <3> QED
            BY <2>1, <2>2, <3>1, <3>2
    <2> QED
        BY <2>4, <2>5
<1> QED
    BY <1>1, <1>2

(* set_absent: the journal is cut, and the first tick that played anything *)
(* but Nil from there on is counted or marked.                             *)
LEMMA SetAbsentDecides ==
    ASSUME NEW s, IsSession(s), NEW p \in Players, NEW from \in Nat
    PROVE  LET r == SetAbsentOn(s, p, from)
           IN  /\ r.arrived = [s.arrived EXCEPT ![p] = Restrict(@, {u \in DOMAIN @ : u < from})]
               /\ r.stale = 0 => s.stale = 0
               /\ r.stale = 0 => \A t \in DOMAIN s.used[p] : t >= from /\ s.used[p][t] # Nil =>
                    r.dirty # NoTick /\ r.dirty <= t
<1> DEFINE left == [s EXCEPT !.absent = Put(@, p, from),
                             !.arrived[p] = Restrict(@, {t \in DOMAIN @ : t < from})]
           wrong == {t \in DOMAIN s.used[p] : t >= from /\ s.used[p][t] # Nil}
           m == Min(wrong)
<1>1. /\ DOMAIN left = Fields
      /\ left.ring = s.ring /\ left.dirty = s.dirty /\ left.stale = s.stale
      /\ left.arrived = [s.arrived EXCEPT ![p] = Restrict(@, {u \in DOMAIN @ : u < from})]
    BY DEF IsSession, Fields
<1>2. s.stale \in Nat /\ s.dirty \in Nat \union {NoTick} /\ wrong \in SUBSET Nat
    BY DEF IsSession, IsJournal
<1>3. CASE wrong = {}
    <2>1. SetAbsentOn(s, p, from) = left
        BY <1>3 DEF SetAbsentOn
    <2>2. \A t \in DOMAIN s.used[p] : ~(t >= from /\ s.used[p][t] # Nil)
        BY <1>3
    <2> HIDE DEF left
    <2> QED
        BY <1>1, <2>1, <2>2
<1>4. CASE wrong # {}
    <2>1. SetAbsentOn(s, p, from) = MarkDirty(left, m)
        BY <1>4 DEF SetAbsentOn
    <2>2. m \in Nat /\ \A t \in wrong : m <= t
        <3> HIDE DEF wrong
        <3> QED
            BY <1>2, <1>4, MinOfNats
    <2> DEFINE r == MarkDirty(left, m)
    <2> HIDE DEF left, m
    <2>3. r.arrived = left.arrived
        BY <1>1 DEF MarkDirty, Fields
    <2>4. CASE BelowRing(left, m)
        <3>1. r.stale = s.stale + 1
            BY <1>1, <2>4 DEF MarkDirty, Fields
        <3> HIDE DEF r
        <3> QED
            BY <1>1, <1>2, <2>1, <2>3, <3>1 DEF r
    <2>5. CASE ~BelowRing(left, m)
        <3>1. /\ r.stale = s.stale
              /\ r.dirty = IF s.dirty = NoTick \/ m < s.dirty THEN m ELSE s.dirty
            BY <1>1, <2>5 DEF MarkDirty, Fields
        <3>2. r.dirty \in Nat /\ r.dirty # NoTick /\ r.dirty <= m
            BY <1>2, <2>2, <3>1 DEF NoTick
        <3>3. \A t \in wrong : r.dirty # NoTick /\ r.dirty <= t
            BY <1>2, <2>2, <3>2
        <3> HIDE DEF r
        <3> QED
            BY <1>1, <2>1, <2>3, <3>1, <3>3 DEF r
    <2> QED
        BY <2>4, <2>5
<1> QED
    BY <1>3, <1>4
-----------------------------------------------------------------------------
(* What is remembered: the recorded inputs of the ring's ticks and of one  *)
(* tick below it, and no arrival beyond the window.                        *)
UsedIsRecent ==
    \A p \in Players : \A t \in DOMAIN sess.used[p] : t + Depth + 1 >= sess.next

InReach ==
    \A p \in Players : \A t \in DOMAIN sess.arrived[p] : t <= sess.next + Ahead

Bounded == UsedIsRecent /\ InReach

(* A tick of advance, whichever it is: the session it leaves.              *)
LEMMA RunStep ==
    ASSUME Shape, RunAgain \/ RunNext
    PROVE  LET r == RunTickOn(sess, cursor)
           IN  /\ ~Idle /\ IsSession(sess) /\ cursor \in Nat /\ sess.next \in Nat \ {0}
               /\ DOMAIN sess.ring = RingTicks(sess.next)
               /\ cursor \in RingTicks(sess.next) \/ cursor = sess.next
               /\ IsSession(r) /\ IsSession(sess')
               /\ sess'.ring = r.ring /\ sess'.used = r.used /\ sess'.arrived = r.arrived
               /\ sess'.absent = sess.absent /\ sess'.stale = sess.stale
               /\ sess'.next = Following(cursor, sess.next)
               /\ Played' = cursor + 1
<1> DEFINE r == RunTickOn(sess, cursor)
<1>1. /\ ~Idle /\ IsSession(sess) /\ cursor \in Nat /\ sess.next \in Nat \ {0}
      /\ DOMAIN sess.ring = RingTicks(sess.next)
      /\ cursor \in RingTicks(sess.next) \/ cursor = sess.next
    BY RingIsTheWindow, CursorIsRunnable DEF Shape, TypeOK, IsSession, RunAgain, RunNext, Idle, NoTick
<1>2. /\ IsSession(r) /\ r.next = sess.next /\ r.absent = sess.absent /\ r.dirty = NoTick
      /\ r.stale = sess.stale
    BY <1>1, RunTickIsASession, RunTickFrame, CursorIsRunnable
<1>3. IsSession(sess')
    <2>1. Shape'
        BY ShapeRunAgain, ShapeRunNext
    <2> QED
        BY <2>1 DEF Shape, TypeOK
<1> HIDE DEF r
<1>4. /\ sess'.ring = r.ring /\ sess'.used = r.used /\ sess'.arrived = r.arrived
      /\ sess'.absent = sess.absent /\ sess'.stale = sess.stale
      /\ sess'.next = Following(cursor, sess.next) /\ Played' = cursor + 1
    <2>1. CASE RunAgain
        BY <1>1, <1>2, <2>1 DEF RunAgain, Played, Idle, NoTick, Following, r
    <2>2. CASE RunNext
        BY <1>1, <1>2, <2>2 DEF RunNext, Played, Idle, NoTick, IsSession, Fields, Following, r
    <2> QED
        BY <2>1, <2>2
<1> QED
    BY <1>1, <1>2, <1>3, <1>4 DEF r

(* The beginning of advance journals nothing.                              *)
LEMMA BeginStep ==
    ASSUME Shape, BeginNext \/ BeginRewind
    PROVE  /\ sess'.next = sess.next /\ sess'.ring = sess.ring /\ sess'.used = sess.used
           /\ sess'.arrived = sess.arrived /\ sess'.absent = sess.absent
           /\ Idle /\ IsSession(sess)
<1>1. IsSession(sess) /\ DOMAIN sess = Fields /\ Idle
    BY DEF Shape, TypeOK, IsSession, BeginNext, BeginRewind
<1> QED
    BY <1>1 DEF BeginNext, BeginRewind, NotRewound, Rewound, Fields

(* What pruning leaves of the inputs a session ran with.                   *)
LEMMA UsedAfterRun ==
    ASSUME Shape, RunAgain \/ RunNext, UsedIsRecent, NEW p \in Players,
           NEW t \in DOMAIN sess'.used[p]
    PROVE  /\ t \in Nat /\ 0 < t
           /\ t + Depth + 1 >= sess'.next
           /\ Settled(sess, cursor) <= t + 1
<1> DEFINE r == RunTickOn(sess, cursor)
           n == Following(cursor, sess.next)
           noted == Put(sess.used[p], cursor, InputFor(sess, p, cursor))
<1>1. /\ IsSession(sess) /\ cursor \in Nat /\ sess.next \in Nat \ {0}
      /\ DOMAIN sess.ring = RingTicks(sess.next)
      /\ cursor \in RingTicks(sess.next) \/ cursor = sess.next
      /\ sess'.used = r.used /\ sess'.next = n
    BY RunStep
<1>2. r.used[p] = Prune(noted, Oldest(n))
    BY <1>1, RunTickFields DEF Settled
<1>3. DOMAIN noted = DOMAIN sess.used[p] \union {cursor}
    BY DEF Put
<1>4. \A u \in DOMAIN sess.used[p] : u \in Nat /\ 0 < u /\ u < sess.next /\ u + Depth + 1 >= sess.next
    BY <1>1 DEF IsSession, IsJournal, Shape, UsedHasRun, UsedIsRecent
<1>5. RingTicks(sess.next) \subseteq DOMAIN sess.used[p]
    BY <1>1 DEF Shape, RingIsRecent
<1>6. /\ t \in DOMAIN noted
      /\ t < Oldest(n) => \A u \in DOMAIN noted : u < Oldest(n) => u <= t
    BY <1>1, <1>2 DEF Prune, Restrict
<1>7. t \in Nat /\ 0 < t
    BY <1>1, <1>3, <1>4, <1>6 DEF RingTicks
<1> HIDE DEF r, noted
<1>8. n = sess.next \/ (n = sess.next + 1 /\ cursor = sess.next)
    BY DEF Following
<1>9. t + Depth + 1 >= n
    <2>1. CASE n = sess.next
        BY <1>1, <1>3, <1>4, <1>6, <2>1, DepthAssumption DEF RingTicks
    <2>2. CASE n = sess.next + 1 /\ cursor = sess.next /\ n > Depth + 1
        <3>1. Oldest(n) = n - Depth /\ Oldest(n) - 1 \in RingTicks(sess.next)
            BY <1>1, <2>2, DepthAssumption DEF Oldest, RingTicks
        <3>2. Oldest(n) \in Int
            BY <1>1, <3>1, DepthAssumption DEF Following
        <3>3. Oldest(n) - 1 \in DOMAIN noted /\ Oldest(n) - 1 < Oldest(n)
            BY <1>3, <1>5, <3>1, <3>2
        <3>4. t < Oldest(n) => Oldest(n) - 1 <= t
            BY <1>6, <3>3
        <3> HIDE DEF n
        <3> QED
            BY <1>1, <1>7, <2>2, <3>1, <3>4, DepthAssumption
    <2>3. CASE n = sess.next + 1 /\ ~(n > Depth + 1)
        BY <1>1, <1>7, <2>3, DepthAssumption
    <2> QED
        BY <1>8, <2>1, <2>2, <2>3, <1>1, DepthAssumption
<1>10. Oldest(n) <= t + 1
    BY <1>1, <1>7, <1>8, <1>9, DepthAssumption DEF Oldest
<1> QED
    BY <1>1, <1>7, <1>9, <1>10 DEF Settled

LEMMA BoundedInit == Init => Bounded
<1> SUFFICES ASSUME Init PROVE Bounded
    OBVIOUS
<1>1. \A p \in Players : DOMAIN sess.used[p] = {} /\ DOMAIN sess.arrived[p] = {}
    BY DEF Init, NewSession, NoEntries
<1> QED
    BY <1>1 DEF Bounded, UsedIsRecent, InReach

LEMMA BoundedSubmit ==
    ASSUME Shape, Bounded,
           NEW p \in Players \union Strangers, NEW t \in Ticks, NEW v \in Input,
           Submit(p, t, v)
    PROVE  Bounded'
<1>1. IsSession(sess) /\ t \in Nat /\ sess' = SubmitTo(sess, p, t, v)
    BY DEF Shape, TypeOK, Ticks, Submit
<1>2. sess'.next = sess.next /\ sess'.used = sess.used
    BY <1>1, SubmitFrame
<1>3. CASE sess' = sess
    BY <1>3 DEF Bounded, UsedIsRecent, InReach
<1>4. CASE /\ t <= sess.next + Ahead
           /\ sess'.arrived = [sess.arrived EXCEPT ![p] = Put(@, t, v)]
    <2>1. DOMAIN sess.arrived = Players
        BY <1>1 DEF IsSession, IsJournal
    <2>2. \A q \in Players : DOMAIN sess'.arrived[q] \subseteq DOMAIN sess.arrived[q] \union {t}
        BY <1>4, <2>1 DEF Put
    <2> QED
        BY <1>2, <1>4, <2>2 DEF Bounded, UsedIsRecent, InReach
<1> QED
    BY <1>1, <1>3, <1>4, SubmitDecides

LEMMA BoundedSetAbsent ==
    ASSUME Shape, Bounded, NEW p \in Players, NEW from \in Ticks, SetAbsent(p, from)
    PROVE  Bounded'
<1>1. IsSession(sess) /\ from \in Nat /\ sess' = SetAbsentOn(sess, p, from)
    BY DEF Shape, TypeOK, Ticks, SetAbsent
<1>2. sess'.next = sess.next /\ sess'.used = sess.used
    BY <1>1, SetAbsentFrame
<1>3. \A q \in Players : \A u \in DOMAIN sess'.arrived[q] : u \in DOMAIN sess.arrived[q]
    BY <1>1, SetAbsentFrame
<1> QED
    BY <1>2, <1>3 DEF Bounded, UsedIsRecent, InReach

LEMMA BoundedRun ==
    ASSUME Shape, Bounded, RunAgain \/ RunNext
    PROVE  Bounded'
<1>1. UsedIsRecent'
    BY UsedAfterRun DEF Bounded, UsedIsRecent
<1>2. InReach'
    <2> DEFINE r == RunTickOn(sess, cursor)
    <2>1. /\ IsSession(sess) /\ sess.next \in Nat /\ DOMAIN sess.ring = RingTicks(sess.next)
          /\ cursor \in RingTicks(sess.next) \/ cursor = sess.next
          /\ sess'.arrived = r.arrived /\ sess'.next = Following(cursor, sess.next)
        BY RunStep
    <2>2. \A p \in Players : \A u \in DOMAIN r.arrived[p] : u \in DOMAIN sess.arrived[p]
        BY <2>1, RunTickJournal
    <2>3. \A p \in Players : \A u \in DOMAIN sess.arrived[p] : u \in Nat
        BY <2>1 DEF IsSession, IsJournal
    <2>4. sess'.next = sess.next \/ sess'.next = sess.next + 1
        BY <2>1 DEF Following
    <2> HIDE DEF r
    <2> QED
        BY <2>1, <2>2, <2>3, <2>4, AheadAssumption DEF Bounded, InReach
<1> QED
    BY <1>1, <1>2 DEF Bounded

LEMMA BoundedStep == Shape /\ Bounded /\ [Next]_vars => Bounded'
<1> SUFFICES ASSUME Shape, Bounded, [Next]_vars PROVE Bounded'
    OBVIOUS
<1>1. ASSUME NEW p \in Players \union Strangers, NEW t \in Ticks, NEW v \in Input, Submit(p, t, v)
      PROVE  Bounded'
    BY <1>1, BoundedSubmit
<1>2. ASSUME NEW p \in Players, NEW from \in Ticks, SetAbsent(p, from)
      PROVE  Bounded'
    BY <1>2, BoundedSetAbsent
<1>3. CASE BeginNext \/ BeginRewind
    BY <1>3, BeginStep DEF Bounded, UsedIsRecent, InReach
<1>4. CASE UNCHANGED vars
    BY <1>4 DEF vars, Bounded, UsedIsRecent, InReach
<1> QED
    BY <1>1, <1>2, <1>3, <1>4, BoundedRun DEF Next
-----------------------------------------------------------------------------
(* Every recorded input, below the ring too, is what would be decided now. *)
Decided ==
    sess.stale = 0 =>
        \A p \in Players : \A t \in DOMAIN sess.used[p] :
            t < Played => sess.used[p][t] = InputFor(sess, p, t)

LEMMA DecidedInit == Init => Decided
<1> SUFFICES ASSUME Init PROVE Decided
    OBVIOUS
<1>1. \A p \in Players : DOMAIN sess.used[p] = {}
    BY DEF Init, NewSession, NoEntries
<1> QED
    BY <1>1 DEF Decided

(* Between two calls the mark only moves down, so no tick is played anew.  *)
LEMMA PlayedMovesDown ==
    ASSUME IsSession(sess), IsSession(sess'), Idle, Idle', sess'.next = sess.next,
           sess.dirty # NoTick => sess'.dirty # NoTick /\ sess'.dirty <= sess.dirty,
           \A p \in Players : \A t \in DOMAIN sess.used[p] : t < sess.next,
           NEW p \in Players, NEW t \in DOMAIN sess.used[p], t < Played'
    PROVE  t < Played /\ (sess'.dirty # NoTick => ~(sess'.dirty <= t))
<1>1. /\ t \in Nat /\ sess.next \in Nat /\ t < sess.next
      /\ sess.dirty \in Nat \union {NoTick} /\ sess'.dirty \in Nat \union {NoTick}
    BY DEF IsSession, IsJournal
<1>2. /\ Played = IF sess.dirty # NoTick THEN sess.dirty ELSE sess.next
      /\ Played' = IF sess'.dirty # NoTick THEN sess'.dirty ELSE sess.next
    BY DEF Played
<1> QED
    BY <1>1, <1>2 DEF NoTick

LEMMA DecidedSubmit ==
    ASSUME Shape, Decided,
           NEW p \in Players \union Strangers, NEW t \in Ticks, NEW v \in Input,
           Submit(p, t, v)
    PROVE  Decided'
<1>1. IsSession(sess) /\ t \in Nat /\ sess' = SubmitTo(sess, p, t, v) /\ Idle /\ Idle'
      /\ \A q \in Players : \A u \in DOMAIN sess.used[q] : u \in Nat /\ u < sess.next
    BY DEF Shape, TypeOK, Ticks, Submit, Idle, UsedHasRun, IsSession, IsJournal
<1>2. /\ IsSession(sess')
      /\ sess'.next = sess.next /\ sess'.used = sess.used /\ sess'.absent = sess.absent
      /\ sess.dirty # NoTick => sess'.dirty # NoTick /\ sess'.dirty <= sess.dirty
    BY <1>1, SubmitFrame
<1>3. CASE sess' = sess
    BY <1>1, <1>3 DEF Decided, Played
<1>4. CASE /\ p \in Players /\ IsPresent(sess, p, t)
           /\ sess'.arrived = [sess.arrived EXCEPT ![p] = Put(@, t, v)]
           /\ sess'.stale = 0 => sess.stale = 0
           /\ \/ t >= sess.next
              \/ t \in DOMAIN sess.used[p] /\ sess.used[p][t] = v
              \/ sess'.stale # 0
              \/ sess'.dirty # NoTick /\ sess'.dirty <= t
    <2> SUFFICES ASSUME sess'.stale = 0,
                        NEW q \in Players, NEW u \in DOMAIN sess.used[q], u < Played'
                 PROVE  sess.used[q][u] = InputFor(sess', q, u)
        BY <1>2 DEF Decided
    <2>1. u \in Nat /\ u < sess.next
        BY <1>1
    <2>2. u < Played /\ (sess'.dirty # NoTick => ~(sess'.dirty <= u))
        BY <1>1, <1>2, PlayedMovesDown
    <2>3. sess.used[q][u] = InputFor(sess, q, u)
        BY <1>4, <2>2 DEF Decided
    <2>4. IsPresent(sess', q, u) <=> IsPresent(sess, q, u)
        BY <1>2 DEF IsPresent
    <2>5. DOMAIN sess.arrived = Players /\ DOMAIN sess.arrived[q] \subseteq Nat
        BY <1>1 DEF IsSession, IsJournal
    <2>6. Latest(sess'.arrived[q], u) = Latest(sess.arrived[q], u)
        <3>1. CASE q # p
            BY <1>4, <2>5, <3>1
        <3>2. CASE q = p
            <4>1. sess'.arrived[q] = Put(sess.arrived[q], t, v)
                BY <1>4, <2>5, <3>2
            <4>2. u < t \/ Latest(sess.arrived[q], t) = v
                <5>1. CASE t >= sess.next
                    BY <1>1, <2>1, <5>1 DEF IsSession
                <5>2. CASE sess'.dirty # NoTick /\ sess'.dirty <= t
                    <6>1. sess'.dirty \in Nat
                        BY <1>2, <5>2 DEF IsSession
                    <6> QED
                        BY <1>1, <2>1, <2>2, <5>2, <6>1
                <5>3. CASE t \in DOMAIN sess.used[p] /\ sess.used[p][t] = v /\ ~(u < t)
                    <6>1. Played \in Nat /\ t < Played
                        BY <1>1, <2>1, <2>2, <5>3 DEF Played, IsSession, NoTick
                    <6>2. v = InputFor(sess, q, t)
                        BY <1>4, <3>2, <5>3, <6>1 DEF Decided
                    <6> QED
                        BY <1>1, <1>4, <3>2, <6>2, InputForIsLatest
                <5> QED
                    BY <1>4, <5>1, <5>2, <5>3
            <4> QED
                BY <1>1, <2>1, <2>5, <4>1, <4>2, LatestAfterPut
        <3> QED
            BY <3>1, <3>2
    <2> QED
        BY <1>1, <1>2, <2>1, <2>3, <2>4, <2>6, InputForIsLatest
<1> QED
    BY <1>1, <1>3, <1>4, SubmitDecides

LEMMA DecidedSetAbsent ==
    ASSUME Shape, Decided, NEW p \in Players, NEW from \in Ticks, SetAbsent(p, from)
    PROVE  Decided'
<1>1. /\ IsSession(sess) /\ from \in Nat /\ sess' = SetAbsentOn(sess, p, from) /\ Idle /\ Idle'
      /\ p \notin DOMAIN sess.absent
      /\ \A q \in Players : \A u \in DOMAIN sess.used[q] : u \in Nat /\ u < sess.next
    BY DEF Shape, TypeOK, Ticks, SetAbsent, Idle, UsedHasRun, IsSession, IsJournal
<1>2. /\ IsSession(sess')
      /\ sess'.next = sess.next /\ sess'.used = sess.used
      /\ sess'.absent = Put(sess.absent, p, from)
      /\ sess.dirty # NoTick => sess'.dirty # NoTick /\ sess'.dirty <= sess.dirty
    BY <1>1, SetAbsentFrame
<1>3. /\ sess'.arrived = [sess.arrived EXCEPT ![p] = Restrict(@, {u \in DOMAIN @ : u < from})]
      /\ sess'.stale = 0 => sess.stale = 0
      /\ sess'.stale = 0 => \A u \in DOMAIN sess.used[p] : u >= from /\ sess.used[p][u] # Nil =>
           sess'.dirty # NoTick /\ sess'.dirty <= u
    <2> DEFINE r == SetAbsentOn(sess, p, from)
    <2>1. /\ r.arrived = [sess.arrived EXCEPT ![p] = Restrict(@, {u \in DOMAIN @ : u < from})]
          /\ r.stale = 0 => sess.stale = 0
          /\ r.stale = 0 => \A u \in DOMAIN sess.used[p] : u >= from /\ sess.used[p][u] # Nil =>
               r.dirty # NoTick /\ r.dirty <= u
        BY <1>1, SetAbsentDecides, Zenon
    <2>2. sess' = r
        BY <1>1
    <2> HIDE DEF r
    <2> QED
        BY <2>1, <2>2, Zenon
<1> SUFFICES ASSUME sess'.stale = 0,
                    NEW q \in Players, NEW u \in DOMAIN sess.used[q], u < Played'
             PROVE  sess.used[q][u] = InputFor(sess', q, u)
    BY <1>2 DEF Decided
<1>4. u \in Nat
    BY <1>1
<1>5. u < Played /\ (sess'.dirty # NoTick => ~(sess'.dirty <= u))
    BY <1>1, <1>2, PlayedMovesDown
<1>6. sess.used[q][u] = InputFor(sess, q, u)
    BY <1>3, <1>5 DEF Decided
<1>7. DOMAIN sess.arrived = Players /\ DOMAIN sess.arrived[q] \subseteq Nat
    BY <1>1 DEF IsSession, IsJournal
<1>8. CASE q # p
    <2>1. IsPresent(sess', q, u) <=> IsPresent(sess, q, u)
        BY <1>2, <1>8 DEF IsPresent, Put
    <2>2. sess'.arrived[q] = sess.arrived[q]
        BY <1>3, <1>7, <1>8
    <2> QED
        BY <1>1, <1>2, <1>4, <1>6, <2>1, <2>2, InputForIsLatest
<1>9. CASE q = p /\ u < from
    <2>1. IsPresent(sess', q, u) /\ IsPresent(sess, q, u)
        BY <1>1, <1>2, <1>9 DEF IsPresent, Put
    <2>2. sess'.arrived[q] = Restrict(sess.arrived[q], {x \in DOMAIN sess.arrived[q] : x < from})
        BY <1>3, <1>7, <1>9
    <2>3. Latest(sess'.arrived[q], u) = Latest(sess.arrived[q], u)
        BY <1>1, <1>4, <1>7, <1>9, <2>2, LatestAfterCut
    <2> QED
        BY <1>1, <1>2, <1>4, <1>6, <2>1, <2>3, InputForIsLatest
<1>10. CASE q = p /\ ~(u < from)
    <2>1. ~IsPresent(sess', q, u)
        BY <1>2, <1>10 DEF IsPresent, Put
    <2>2. sess.used[q][u] = Nil
        BY <1>1, <1>3, <1>4, <1>5, <1>10
    <2> QED
        BY <2>1, <2>2 DEF InputFor
<1> QED
    BY <1>8, <1>9, <1>10

LEMMA DecidedBegin ==
    ASSUME Shape, Decided, BeginNext \/ BeginRewind
    PROVE  Decided'
<1>1. /\ sess'.used = sess.used /\ sess'.arrived = sess.arrived /\ sess'.absent = sess.absent
      /\ Idle /\ IsSession(sess) /\ DOMAIN sess = Fields
    BY BeginStep DEF IsSession
<1>2. \A p \in Players, t \in Nat : InputFor(sess', p, t) = InputFor(sess, p, t)
    BY <1>1 DEF InputFor, IsPresent, Predict
<1>3. \A p \in Players : \A t \in DOMAIN sess.used[p] : t \in Nat
    BY <1>1 DEF IsSession, IsJournal
<1>4. CASE BeginRewind
    <2>1. sess'.stale = sess.stale /\ Played' = Played
        BY <1>1, <1>4 DEF BeginRewind, Rewound, CanRewind, Played, Idle, IsSession, Fields, NoTick
    <2> QED
        BY <1>1, <1>2, <1>3, <2>1 DEF Decided
<1>5. CASE BeginNext /\ sess.dirty = NoTick
    <2>1. sess'.stale = sess.stale /\ Played' = Played
        BY <1>1, <1>5 DEF BeginNext, NotRewound, Played, Idle, IsSession, Fields, NoTick
    <2> QED
        BY <1>1, <1>2, <1>3, <2>1 DEF Decided
<1>6. CASE BeginNext /\ sess.dirty # NoTick
    <2>1. sess'.stale = sess.stale + 1 /\ sess.stale \in Nat
        BY <1>1, <1>6 DEF BeginNext, NotRewound, IsSession, Fields
    <2>2. sess'.stale # 0
        BY <2>1
    <2> QED
        BY <2>2 DEF Decided
<1> QED
    BY <1>4, <1>5, <1>6

LEMMA DecidedRun ==
    ASSUME Shape, Bounded, Decided, RunAgain \/ RunNext
    PROVE  Decided'
<1> DEFINE r == RunTickOn(sess, cursor)
<1>1. /\ ~Idle /\ IsSession(sess) /\ cursor \in Nat /\ sess.next \in Nat \ {0}
      /\ DOMAIN sess.ring = RingTicks(sess.next)
      /\ cursor \in RingTicks(sess.next) \/ cursor = sess.next
      /\ IsSession(sess')
      /\ sess'.used = r.used /\ sess'.arrived = r.arrived
      /\ sess'.absent = sess.absent /\ sess'.stale = sess.stale
      /\ Played' = cursor + 1
    BY RunStep
<1> SUFFICES ASSUME sess.stale = 0,
                    NEW p \in Players, NEW t \in DOMAIN sess'.used[p], t < cursor + 1
             PROVE  sess'.used[p][t] = InputFor(sess', p, t)
    BY <1>1 DEF Decided
<1>2. t \in Nat /\ Settled(sess, cursor) <= t + 1 /\ Settled(sess, cursor) \in Nat
    BY <1>1, UsedAfterRun, RunTickWindow DEF Bounded
<1>3. InputFor(sess', p, t) = InputFor(sess, p, t)
    <2>1. r.arrived[p] = Prune(sess.arrived[p], Settled(sess, cursor))
        BY <1>1, RunTickFields
    <2>2. DOMAIN sess.arrived[p] \subseteq Nat
        BY <1>1 DEF IsSession, IsJournal
    <2>3. Latest(sess'.arrived[p], t) = Latest(sess.arrived[p], t)
        BY <1>1, <1>2, <2>1, <2>2, LatestAfterPrune
    <2>4. IsPresent(sess', p, t) <=> IsPresent(sess, p, t)
        BY <1>1 DEF IsPresent
    <2> HIDE DEF r
    <2> QED
        BY <1>1, <1>2, <2>3, <2>4, InputForIsLatest
<1>4. /\ r.used[p][cursor] = InputFor(sess, p, cursor)
      /\ \A u \in DOMAIN r.used[p] : u # cursor =>
            u \in DOMAIN sess.used[p] /\ r.used[p][u] = sess.used[p][u]
    BY <1>1, RunTickJournal
<1> HIDE DEF r
<1>5. CASE t # cursor
    <2>1. t \in DOMAIN sess.used[p] /\ sess'.used[p][t] = sess.used[p][t] /\ t < cursor
        BY <1>1, <1>2, <1>4, <1>5
    <2>2. t < Played
        BY <1>1, <2>1 DEF Played
    <2> QED
        BY <1>3, <2>1, <2>2 DEF Decided
<1> QED
    BY <1>1, <1>3, <1>4, <1>5

LEMMA DecidedStep == Shape /\ Bounded /\ Decided /\ [Next]_vars => Decided'
<1> SUFFICES ASSUME Shape, Bounded, Decided, [Next]_vars PROVE Decided'
    OBVIOUS
<1>1. ASSUME NEW p \in Players \union Strangers, NEW t \in Ticks, NEW v \in Input, Submit(p, t, v)
      PROVE  Decided'
    BY <1>1, DecidedSubmit
<1>2. ASSUME NEW p \in Players, NEW from \in Ticks, SetAbsent(p, from)
      PROVE  Decided'
    BY <1>2, DecidedSetAbsent
<1>3. CASE UNCHANGED vars
    BY <1>3 DEF vars, Decided, Played, Idle
<1> QED
    BY <1>1, <1>2, <1>3, DecidedBegin, DecidedRun DEF Next

-----------------------------------------------------------------------------
(* Until a correction comes too late, every tick in the ring that is not   *)
(* due to run again played what inputs_for decides for it now: no pruning, *)
(* late input or departure leaves a prediction standing that it refutes.   *)
THEOREM PredictionsAlwaysStand == Spec => []PredictionsStand
<1>1. Spec => []Decided
    BY ShapeHolds, BoundedInit, BoundedStep, DecidedInit, DecidedStep, PTL DEF Spec
<1>2. Shape /\ Decided => PredictionsStand
    BY DEF Shape, RingIsRecent, Decided, PredictionsStand
<1> QED
    BY <1>1, <1>2, ShapeHolds, PTL

(* What is left below a bound after pruning: one entry at most.            *)
LEMMA PruneLeavesOne ==
    ASSUME NEW journal, DOMAIN journal \subseteq Nat, NEW first \in Nat
    PROVE  Cardinality({t \in DOMAIN Prune(journal, first) : t < first}) <= 1
<1> DEFINE S == {t \in DOMAIN Prune(journal, first) : t < first}
<1>1. \A t, u \in S : t \in Nat /\ u \in Nat /\ t <= u /\ u <= t
    BY DEF Prune, Restrict
<1>2. \A t, u \in S : t = u
    BY <1>1
<1>3. CASE S = {}
    <2>1. Cardinality(S) = 0
        BY <1>3, FS_EmptySet
    <2> QED
        BY <2>1
<1>4. CASE S # {}
    <2>1. PICK t \in S : S = {t}
        BY <1>2, <1>4
    <2>2. Cardinality({t}) = 1
        BY FS_Singleton
    <2> QED
        BY <2>1, <2>2
<1> QED
    BY <1>3, <1>4

LEMMA TrimmedAfterRun ==
    ASSUME Shape, Bounded, RunAgain \/ RunNext, NEW p \in Players
    PROVE  Trimmed(sess.arrived[p])' /\ Trimmed(sess.used[p])'
<1> DEFINE r == RunTickOn(sess, cursor)
           first == Settled(sess, cursor)
           noted == Put(sess.used[p], cursor, InputFor(sess, p, cursor))
<1>1. /\ IsSession(sess) /\ cursor \in Nat /\ sess.next \in Nat \ {0}
      /\ DOMAIN sess.ring = RingTicks(sess.next)
      /\ cursor \in RingTicks(sess.next) \/ cursor = sess.next
      /\ sess'.ring = r.ring /\ sess'.used = r.used /\ sess'.arrived = r.arrived
      /\ sess'.next = Following(cursor, sess.next)
    BY RunStep
<1>2. /\ r.used[p] = Prune(noted, first) /\ r.arrived[p] = Prune(sess.arrived[p], first)
      /\ DOMAIN r.ring = RingTicks(Following(cursor, sess.next))
    BY <1>1, RunTickFields
<1>3. first \in Nat /\ cursor \in DOMAIN r.ring /\ \A u \in DOMAIN r.ring : u \in Nat /\ ~(u < first)
    BY <1>1, <1>2, RunTickWindow
<1>4. DOMAIN sess.arrived[p] \subseteq Nat /\ DOMAIN noted \subseteq Nat
    BY <1>1 DEF IsSession, IsJournal, Put
<1>5. first \in DOMAIN r.ring
    <2>1. Following(cursor, sess.next) \in Nat \ {0} /\ Following(cursor, sess.next) > 1
        BY <1>1, DepthAssumption DEF Following, RingTicks
    <2>2. /\ RingTicks(Following(cursor, sess.next)) = first .. Following(cursor, sess.next) - 1
          /\ cursor \in first .. Following(cursor, sess.next) - 1
        BY <1>2, <1>3, <2>1, WindowIsAnInterval DEF Settled
    <2> HIDE DEF r, first, noted
    <2> QED
        BY <1>2, <1>3, <2>1, <2>2
<1> HIDE DEF r, first, noted
<1>6. \A t \in Nat : BelowRing(sess', t) <=> t < first
    BY <1>1, <1>3, <1>5 DEF BelowRing
<1>7. ASSUME NEW journal, DOMAIN journal \subseteq Nat
      PROVE  Cardinality({t \in DOMAIN Prune(journal, first) : BelowRing(sess', t)}) <= 1
    <2>1. DOMAIN Prune(journal, first) \subseteq Nat
        BY <1>7, PruneKeeps
    <2>2. {t \in DOMAIN Prune(journal, first) : BelowRing(sess', t)}
            = {t \in DOMAIN Prune(journal, first) : t < first}
        BY <1>6, <2>1
    <2> QED
        BY <1>3, <1>7, <2>2, PruneLeavesOne
<1>8. \A t \in DOMAIN sess'.arrived[p] : t <= sess'.next + Ahead
    BY BoundedRun DEF Bounded, InReach
<1>9. \A t \in DOMAIN sess'.used[p] : t <= sess'.next + Ahead
    <2>1. IsSession(sess') /\ \A t \in DOMAIN sess'.used[p] : t < sess'.next
        BY ShapeRunAgain, ShapeRunNext DEF Shape, TypeOK, UsedHasRun
    <2>2. sess'.next \in Nat /\ \A t \in DOMAIN sess'.used[p] : t \in Nat
        BY <2>1 DEF IsSession, IsJournal
    <2> QED
        BY <2>1, <2>2, AheadAssumption
<1> QED
    BY <1>1, <1>2, <1>4, <1>7, <1>8, <1>9 DEF Trimmed

(* However long a session runs, a tick of it leaves each player at most    *)
(* one journal entry below the ring, and none beyond the input window.     *)
THEOREM JournalStaysTrimmed == Spec => JournalIsTrimmed
<1>1. Spec => [](Shape /\ Bounded)
    BY ShapeHolds, BoundedInit, BoundedStep, PTL DEF Spec
<1>2. ASSUME Shape, Bounded, [Next]_vars, sess' # sess \/ cursor' # cursor \/ resimulating' # resimulating
      PROVE  ~Idle => \A p \in Players : Trimmed(sess.arrived[p])' /\ Trimmed(sess.used[p])'
    <2>1. ~Idle => RunAgain \/ RunNext
        BY <1>2 DEF Next, vars, Submit, SetAbsent, BeginNext, BeginRewind
    <2> QED
        BY <1>2, <2>1, TrimmedAfterRun
<1>3. Shape /\ Bounded /\ [Next]_vars =>
        [~Idle => \A p \in Players : Trimmed(sess.arrived[p])' /\ Trimmed(sess.used[p])']_vars
    BY <1>2 DEF vars
<1> QED
    BY <1>1, <1>3, PTL DEF Spec, JournalIsTrimmed
=============================================================================
