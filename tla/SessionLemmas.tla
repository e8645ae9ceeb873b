--------------------------- MODULE SessionLemmas ---------------------------
(***************************************************************************)
(* Facts about the operators of Session, for every value of its constants. *)
(***************************************************************************)
EXTENDS Session, TLAPS, FiniteSetTheorems, WellFoundedInduction

(* A non-empty set of naturals has the smallest element Min names.         *)
LEMMA MinOfNats ==
    ASSUME NEW S \in SUBSET Nat, S # {}
    PROVE  Min(S) \in S /\ \A x \in S : Min(S) <= x
<1>1. PICK m \in S : \A y \in S : <<y, m>> \notin OpToRel(<, Nat)
    BY NatLessThanWellFounded, WFMin
<1>2. \A y \in S : <<y, m>> \in Nat \X Nat /\ <<y, m>>[1] = y /\ <<y, m>>[2] = m
    OBVIOUS
<1>3. \A y \in S : ~(y < m)
    BY <1>1, <1>2 DEF OpToRel
<1>4. \A y \in S : m <= y
    BY <1>3
<1> QED
    BY <1>4 DEF Min

(* A non-empty set of naturals with an upper bound has the largest element *)
(* Max names.                                                              *)
LEMMA MaxOfBoundedNats ==
    ASSUME NEW S \in SUBSET Nat, S # {}, NEW n \in Nat, \A x \in S : x <= n
    PROVE  Max(S) \in S /\ \A x \in S : x <= Max(S)
<1> DEFINE T == {n - x : x \in S}
<1>1. T \in SUBSET Nat /\ T # {}
    <2>1. \A x \in S : n - x \in Nat
        OBVIOUS
    <2> QED
        BY <2>1
<1>2. Min(T) \in T /\ \A y \in T : Min(T) <= y
    BY <1>1, MinOfNats
<1>3. PICK m \in S : Min(T) = n - m
    BY <1>2
<1>4. \A x \in S : n - m <= n - x
    BY <1>2, <1>3
<1>5. \A x \in S : x <= m
    BY <1>4
<1> QED
    BY <1>5 DEF Max

(* The least of the naturals that make up a window.                        *)
LEMMA MinIsTheLeast ==
    ASSUME NEW S \in SUBSET Nat, NEW m \in S, \A x \in S : m <= x
    PROVE  Min(S) = m
<1>1. Min(S) \in S /\ \A x \in S : Min(S) <= x
    BY MinOfNats
<1>2. Min(S) \in Nat /\ m \in Nat /\ Min(S) <= m /\ m <= Min(S)
    BY <1>1
<1> QED
    BY <1>2

-----------------------------------------------------------------------------
(* The ticks a ring holds just before tick n runs.                         *)
RingTicks(n) == {t \in 1 .. n - 1 : t + Depth >= n}

Oldest(n) == IF n > Depth THEN n - Depth ELSE 1

LEMMA WindowIsAnInterval ==
    ASSUME NEW n \in Nat \ {0}
    PROVE  /\ RingTicks(n) = Oldest(n) .. n - 1
           /\ Oldest(n) \in Nat \ {0}
           /\ IsFiniteSet(RingTicks(n))
           /\ Cardinality(RingTicks(n)) = Depth <=> n > Depth
<1>1. RingTicks(n) = Oldest(n) .. n - 1 /\ Oldest(n) \in Nat \ {0}
    BY DepthAssumption DEF RingTicks, Oldest
<1>2. /\ IsFiniteSet(Oldest(n) .. n - 1)
      /\ Cardinality(Oldest(n) .. n - 1) = IF Oldest(n) > n - 1 THEN 0 ELSE n - 1 - Oldest(n) + 1
    <2>1. Oldest(n) \in Int /\ n - 1 \in Int
        BY <1>1
    <2> QED
        BY <2>1, FS_Interval, Zenon
<1> QED
    BY <1>1, <1>2, DepthAssumption DEF Oldest

LEMMA WindowMin ==
    ASSUME NEW n \in Nat \ {0}, n > 1
    PROVE  Min(RingTicks(n)) = Oldest(n)
<1>1. RingTicks(n) \in SUBSET Nat /\ Oldest(n) \in RingTicks(n) /\ \A x \in RingTicks(n) : Oldest(n) <= x
    BY WindowIsAnInterval, DepthAssumption DEF Oldest
<1> QED
    BY <1>1, MinIsTheLeast

(* The tick the next advance runs, once t has run before tick n.           *)
Following(t, n) == IF t = n THEN n + 1 ELSE n

(* CheckpointRing::push keeps the ring a window: re-running a tick keeps   *)
(* its ticks, and a new tick moves it on by one.                           *)
LEMMA PushMovesTheWindow ==
    ASSUME NEW ring, NEW w, NEW n \in Nat \ {0}, DOMAIN ring = RingTicks(n),
           NEW t, t \in RingTicks(n) \/ t = n
    PROVE  /\ DOMAIN Push(ring, t, w) = RingTicks(Following(t, n))
           /\ Push(ring, t, w)[t] = w
           /\ \A u \in DOMAIN Push(ring, t, w) : u # t =>
                u \in DOMAIN ring /\ Push(ring, t, w)[u] = ring[u]
           /\ Min(DOMAIN Push(ring, t, w)) = Oldest(Following(t, n))
<1> DEFINE pushed == Push(ring, t, w)
           m == Following(t, n)
<1> USE DEF Following
<1>1. n \notin RingTicks(n) /\ n \in RingTicks(n + 1)
    BY DepthAssumption DEF RingTicks
<1>2. CASE t \in RingTicks(n)
    <2>1. pushed = Put(ring, t, w)
        BY <1>2 DEF Push
    <2>2. DOMAIN pushed = RingTicks(m)
        BY <1>1, <1>2, <2>1 DEF Put
    <2>3. m > 1
        BY <1>1, <1>2 DEF RingTicks
    <2> QED
        BY <1>1, <1>2, <2>1, <2>2, <2>3, WindowMin DEF Put
<1>3. CASE t = n /\ n > Depth
    <2>1. n > 1
        BY <1>3, DepthAssumption
    <2>2. pushed = Put(Restrict(ring, RingTicks(n) \ {Oldest(n)}), n, w)
        BY <1>1, <1>3, <2>1, WindowMin, WindowIsAnInterval DEF Push
    <2>3. (RingTicks(n) \ {Oldest(n)}) \union {n} = RingTicks(n + 1)
        BY <1>3, DepthAssumption DEF RingTicks, Oldest
    <2>4. DOMAIN pushed = RingTicks(m)
        BY <1>3, <2>2, <2>3 DEF Put, Restrict
    <2> QED
        BY <1>1, <1>3, <2>2, <2>4, WindowMin DEF Put, Restrict
<1>4. CASE t = n /\ ~(n > Depth)
    <2>1. pushed = Put(ring, n, w)
        BY <1>1, <1>4, WindowIsAnInterval DEF Push
    <2>2. RingTicks(n) \union {n} = RingTicks(n + 1)
        BY <1>4, DepthAssumption DEF RingTicks
    <2>3. DOMAIN pushed = RingTicks(m)
        BY <1>4, <2>1, <2>2 DEF Put
    <2> QED
        BY <1>1, <1>4, <2>1, <2>3, WindowMin DEF Put
<1> QED
    BY <1>2, <1>3, <1>4

-----------------------------------------------------------------------------
(* Pruning forgets nothing at or above the ring, and changes no entry.     *)
LEMMA PruneKeeps ==
    ASSUME NEW journal, NEW first
    PROVE  /\ DOMAIN Prune(journal, first) \subseteq DOMAIN journal
           /\ \A t \in DOMAIN Prune(journal, first) : Prune(journal, first)[t] = journal[t]
           /\ \A t \in DOMAIN journal : ~(t < first) => t \in DOMAIN Prune(journal, first)
BY DEF Prune, Restrict
-----------------------------------------------------------------------------
(* Operations, field by field.                                             *)

LEMMA NewSessionIsASession == IsSession(NewSession)
BY NilAssumption DEF NewSession, NoEntries, NoTick, IsSession, IsJournal, Fields

(* A mark touches only dirty and stale, and lands on the earlier tick when *)
(* the ring can still answer it.                                           *)
LEMMA MarkDirtyFrame ==
    ASSUME NEW s, IsSession(s), NEW t \in Nat
    PROVE  LET r == MarkDirty(s, t)
           IN  /\ IsSession(r)
               /\ r.next = s.next /\ r.world = s.world /\ r.ring = s.ring
               /\ r.arrived = s.arrived /\ r.used = s.used /\ r.digests = s.digests
               /\ r.absent = s.absent /\ r.newest = s.newest /\ r.clock = s.clock
               /\ r.dirty \in {s.dirty, t}
               /\ s.dirty # NoTick => r.dirty # NoTick /\ r.dirty <= s.dirty
               /\ ~BelowRing(s, t) => r.dirty # NoTick /\ r.dirty <= t
               /\ BelowRing(s, t) => r.dirty = s.dirty
BY DEF MarkDirty, IsSession, IsJournal, Fields, NoTick

(* submit leaves everything alone but what it journals and the mark.       *)
LEMMA SubmitFrame ==
    ASSUME NEW s, IsSession(s), NEW p, NEW t \in Nat, NEW v \in Input
    PROVE  LET r == SubmitTo(s, p, t, v)
           IN  /\ IsSession(r)
               /\ r.next = s.next /\ r.world = s.world /\ r.ring = s.ring
               /\ r.used = s.used /\ r.digests = s.digests
               /\ r.absent = s.absent /\ r.clock = s.clock
               /\ s.dirty # NoTick => r.dirty # NoTick /\ r.dirty <= s.dirty
               /\ r.dirty = s.dirty \/ (r.dirty = t /\ t < s.next /\ ~BelowRing(s, t))
<1> DEFINE newest == IF p \in DOMAIN s.newest /\ t < s.newest[p] THEN s.newest[p] ELSE t
           noted == [s EXCEPT !.newest = Put(@, p, newest),
                              !.arrived[p] = Put(@, t, v)]
<1>1. CASE Refused(s, p, t)
    BY <1>1 DEF SubmitTo, NoTick, IsSession
<1>2. CASE ~Refused(s, p, t)
    <2>1. p \in Players
        BY <1>2 DEF Refused
    <2>2. /\ DOMAIN noted = Fields
          /\ noted.next = s.next /\ noted.world = s.world /\ noted.ring = s.ring
          /\ noted.used = s.used /\ noted.digests = s.digests /\ noted.dirty = s.dirty
          /\ noted.stale = s.stale /\ noted.absent = s.absent /\ noted.clock = s.clock
          /\ noted.arrived = [s.arrived EXCEPT ![p] = Put(@, t, v)]
        BY DEF IsSession, Fields
    <2>3. IsJournal(noted.arrived)
        BY <2>1, <2>2 DEF IsSession, IsJournal, Put
    <2>4. IsSession(noted)
        BY <2>2, <2>3 DEF IsSession
    <2>5. BelowRing(noted, t) <=> BelowRing(s, t)
        BY <2>2 DEF BelowRing
    <2>6. SubmitTo(s, p, t, v) = noted \/ (SubmitTo(s, p, t, v) = MarkDirty(noted, t) /\ t < s.next)
        BY <1>2 DEF SubmitTo
    <2>7. noted.dirty # NoTick => noted.dirty \in Nat /\ noted.dirty <= noted.dirty
        BY <2>4 DEF IsSession
    <2> HIDE DEF noted
    <2>8. CASE SubmitTo(s, p, t, v) = noted
        BY <2>2, <2>4, <2>7, <2>8
    <2>9. CASE SubmitTo(s, p, t, v) = MarkDirty(noted, t) /\ t < s.next
        BY <2>2, <2>4, <2>5, <2>9, MarkDirtyFrame
    <2> QED
        BY <2>6, <2>8, <2>9
<1> QED
    BY <1>1, <1>2
(* An entry of the journal after submit was there before it, or is the     *)
(* input submitted: for a tick not run yet, or one that played it already, *)
(* or one too old to run again, or one now due to.                         *)
LEMMA SubmitJournals ==
    ASSUME NEW s, IsSession(s), NEW p, NEW t \in Nat, NEW v \in Input
    PROVE  LET r == SubmitTo(s, p, t, v)
           IN  \A q \in Players : \A u \in DOMAIN r.arrived[q] :
                 \/ u \in DOMAIN s.arrived[q] /\ r.arrived[q][u] = s.arrived[q][u]
                 \/ /\ u = t /\ IsPresent(s, q, u) /\ r.arrived[q][u] = v
                    /\ \/ t >= s.next
                       \/ t \in DOMAIN s.used[q] /\ s.used[q][t] = v
                       \/ BelowRing(s, t)
                       \/ r.dirty # NoTick /\ r.dirty <= t
<1> DEFINE newest == IF p \in DOMAIN s.newest /\ t < s.newest[p] THEN s.newest[p] ELSE t
           noted == [s EXCEPT !.newest = Put(@, p, newest),
                              !.arrived[p] = Put(@, t, v)]
           changed == t \notin DOMAIN s.used[p] \/ s.used[p][t] # v
<1>1. CASE Refused(s, p, t)
    BY <1>1 DEF SubmitTo
<1>2. CASE ~Refused(s, p, t)
    <2>1. p \in Players /\ IsPresent(s, p, t)
        BY <1>2 DEF Refused
    <2>2. /\ noted.ring = s.ring /\ noted.dirty = s.dirty
          /\ noted.arrived = [s.arrived EXCEPT ![p] = Put(@, t, v)]
        BY DEF IsSession, Fields
    <2>3. DOMAIN s.arrived = Players
        BY DEF IsSession, IsJournal
    <2>4. \A q \in Players : \A u \in DOMAIN noted.arrived[q] :
            \/ u \in DOMAIN s.arrived[q] /\ noted.arrived[q][u] = s.arrived[q][u]
            \/ u = t /\ q = p /\ noted.arrived[q][u] = v
        BY <2>1, <2>2, <2>3 DEF Put
    <2>5. MarkDirty(noted, t).arrived = noted.arrived
        BY <2>2 DEF MarkDirty, IsSession, Fields
    <2>6. CASE t < s.next /\ changed
        <3>1. SubmitTo(s, p, t, v) = MarkDirty(noted, t)
            BY <1>2, <2>6 DEF SubmitTo
        <3>2. BelowRing(noted, t) <=> BelowRing(s, t)
            BY <2>2 DEF BelowRing
        <3>3. ~BelowRing(s, t) => MarkDirty(noted, t).dirty = (IF s.dirty = NoTick \/ t < s.dirty THEN t ELSE s.dirty)
            BY <3>2, <2>2 DEF MarkDirty, IsSession, Fields
        <3>4. ~BelowRing(s, t) => MarkDirty(noted, t).dirty # NoTick /\ MarkDirty(noted, t).dirty <= t
            BY <3>3 DEF IsSession, NoTick
        <3> HIDE DEF noted
        <3> QED
            BY <2>1, <2>4, <2>5, <3>1, <3>4
    <2>7. CASE ~(t < s.next /\ changed)
        <3>1. SubmitTo(s, p, t, v) = noted
            BY <1>2, <2>7 DEF SubmitTo
        <3>2. t >= s.next \/ (t \in DOMAIN s.used[p] /\ s.used[p][t] = v)
            BY <2>7 DEF IsSession
        <3> HIDE DEF noted
        <3> QED
            BY <2>1, <2>4, <3>1, <3>2
    <2> QED
        BY <2>6, <2>7
<1> QED
    BY <1>1, <1>2

(* set_absent forgets inputs the player has no tick for, and marks.        *)
LEMMA SetAbsentFrame ==
    ASSUME NEW s, IsSession(s), NEW p \in Players, NEW from \in Nat
    PROVE  LET r == SetAbsentOn(s, p, from)
           IN  /\ IsSession(r)
               /\ r.next = s.next /\ r.world = s.world /\ r.ring = s.ring
               /\ r.used = s.used /\ r.digests = s.digests /\ r.clock = s.clock
               /\ r.absent = Put(s.absent, p, from)
               /\ s.dirty # NoTick => r.dirty # NoTick /\ r.dirty <= s.dirty
               /\ \/ r.dirty = s.dirty
                  \/ r.dirty \in DOMAIN s.used[p] /\ ~BelowRing(s, r.dirty)
               /\ \A q \in Players : \A u \in DOMAIN r.arrived[q] :
                    /\ u \in DOMAIN s.arrived[q] /\ r.arrived[q][u] = s.arrived[q][u]
                    /\ q = p => u < from
<1> DEFINE left == [s EXCEPT !.absent = Put(@, p, from),
                             !.arrived[p] = Restrict(@, {t \in DOMAIN @ : t < from})]
           wrong == {t \in DOMAIN s.used[p] : t >= from /\ s.used[p][t] # Nil}
<1>1. /\ DOMAIN left = Fields
      /\ left.next = s.next /\ left.world = s.world /\ left.ring = s.ring
      /\ left.used = s.used /\ left.digests = s.digests /\ left.dirty = s.dirty
      /\ left.stale = s.stale /\ left.clock = s.clock /\ left.absent = Put(s.absent, p, from)
      /\ left.arrived = [s.arrived EXCEPT ![p] = Restrict(@, {t \in DOMAIN @ : t < from})]
    BY DEF IsSession, Fields
<1>2. DOMAIN s.arrived = Players
    BY DEF IsSession, IsJournal
<1>3. \A q \in Players : \A u \in DOMAIN left.arrived[q] :
        /\ u \in DOMAIN s.arrived[q] /\ left.arrived[q][u] = s.arrived[q][u]
        /\ q = p => u < from
    BY <1>1, <1>2 DEF Restrict
<1>4. IsJournal(left.arrived)
    BY <1>1, <1>2, <1>3 DEF IsSession, IsJournal
<1>5. DOMAIN left.absent \subseteq Players /\ \A q \in DOMAIN left.absent : left.absent[q] \in Nat
    BY <1>1 DEF IsSession, Put
<1>6. IsSession(left)
    BY <1>1, <1>4, <1>5 DEF IsSession
<1>7. \A t : BelowRing(left, t) <=> BelowRing(s, t)
    BY <1>1 DEF BelowRing
<1>8. s.dirty # NoTick => s.dirty <= s.dirty
    BY DEF IsSession
<1>9. CASE wrong = {}
    <2>1. SetAbsentOn(s, p, from) = left
        BY <1>9 DEF SetAbsentOn
    <2> HIDE DEF left
    <2> QED
        BY <1>1, <1>3, <1>6, <1>8, <2>1
<1>10. CASE wrong # {}
    <2>1. SetAbsentOn(s, p, from) = MarkDirty(left, Min(wrong))
        BY <1>10 DEF SetAbsentOn
    <2>2. wrong \in SUBSET Nat
        BY DEF IsSession, IsJournal
    <2>3. Min(wrong) \in wrong
        BY <1>10, <2>2, MinOfNats
    <2>4. Min(wrong) \in Nat /\ Min(wrong) \in DOMAIN s.used[p]
        BY <2>2, <2>3
    <2> DEFINE m == Min(wrong)
               r == MarkDirty(left, m)
    <2>5. m \in Nat /\ m \in DOMAIN s.used[p] /\ SetAbsentOn(s, p, from) = r
        BY <2>1, <2>4
    <2> HIDE DEF left, wrong, m
    <2>6. /\ IsSession(r)
          /\ r.next = left.next /\ r.world = left.world /\ r.ring = left.ring
          /\ r.used = left.used /\ r.digests = left.digests /\ r.clock = left.clock
          /\ r.absent = left.absent /\ r.arrived = left.arrived
          /\ left.dirty # NoTick => r.dirty # NoTick /\ r.dirty <= left.dirty
          /\ r.dirty \in {left.dirty, m}
          /\ BelowRing(left, m) => r.dirty = left.dirty
        BY <1>6, <2>5, MarkDirtyFrame
    <2>7. \/ r.dirty = s.dirty
          \/ r.dirty \in DOMAIN s.used[p] /\ ~BelowRing(s, r.dirty)
        BY <1>1, <1>7, <2>5, <2>6
    <2> HIDE DEF r
    <2> QED
        BY <1>1, <1>3, <2>5, <2>6, <2>7
<1> QED
    BY <1>9, <1>10

(* What a tick runs with is a value the game may hand in.                  *)
LEMMA InputForType ==
    ASSUME NEW s, IsSession(s), NEW p \in Players, NEW t \in Nat
    PROVE  InputFor(s, p, t) \in Input
<1> DEFINE before == {u \in DOMAIN s.arrived[p] : u < t}
<1>1. before \in SUBSET Nat /\ \A u \in before : u <= t
    BY DEF IsSession, IsJournal
<1>2. before # {} => Max(before) \in before
    BY <1>1, MaxOfBoundedNats
<1>3. Predict(s, p, t) \in Input
    BY <1>2, NilAssumption DEF Predict, IsSession, IsJournal
<1> QED
    BY <1>3, NilAssumption DEF InputFor, IsSession, IsJournal
(* A session's own ring, pushed on by the tick it runs.                    *)
LEMMA PushOnASession ==
    ASSUME NEW s, IsSession(s), DOMAIN s.ring = RingTicks(s.next),
           NEW t, t \in RingTicks(s.next) \/ t = s.next
    PROVE  LET pushed == Push(s.ring, t, s.world)
           IN  /\ DOMAIN pushed = RingTicks(Following(t, s.next))
               /\ pushed[t] = s.world
               /\ \A u \in DOMAIN pushed : u # t => u \in DOMAIN s.ring /\ pushed[u] = s.ring[u]
               /\ Min(DOMAIN pushed) = Oldest(Following(t, s.next))
<1> DEFINE n == s.next
           ring == s.ring
           w == s.world
<1>1. n \in Nat \ {0} /\ DOMAIN ring = RingTicks(n) /\ (t \in RingTicks(n) \/ t = n)
    BY DEF IsSession
<1> HIDE DEF n, ring, w
<1>2. /\ DOMAIN Push(ring, t, w) = RingTicks(Following(t, n))
      /\ Push(ring, t, w)[t] = w
      /\ \A u \in DOMAIN Push(ring, t, w) : u # t =>
            u \in DOMAIN ring /\ Push(ring, t, w)[u] = ring[u]
      /\ Min(DOMAIN Push(ring, t, w)) = Oldest(Following(t, n))
    BY <1>1, PushMovesTheWindow
<1> QED
    BY <1>2 DEF n, ring, w

(* run_tick, field by field, for a tick in the ring or the next one.       *)
Settled(s, t) == Oldest(Following(t, s.next))

LEMMA RunTickFields ==
    ASSUME NEW s, IsSession(s), DOMAIN s.ring = RingTicks(s.next),
           NEW t, t \in RingTicks(s.next) \/ t = s.next
    PROVE  /\ DOMAIN RunTickOn(s, t) = Fields
           /\ RunTickOn(s, t).next = s.next
           /\ RunTickOn(s, t).dirty = s.dirty
           /\ RunTickOn(s, t).stale = s.stale
           /\ RunTickOn(s, t).absent = s.absent
           /\ RunTickOn(s, t).ring = Push(s.ring, t, s.world)
           /\ DOMAIN RunTickOn(s, t).ring = RingTicks(Following(t, s.next))
           /\ RunTickOn(s, t).world = Step(s.world, DecidedRow(s, t))
           /\ RunTickOn(s, t).clock = [tick |-> t, settled |-> Settled(s, t)]
           /\ RunTickOn(s, t).digests =
                From(Settled(s, t), Put(s.digests, t, Digest(RunTickOn(s, t).world)))
           /\ DOMAIN RunTickOn(s, t).used = Players
           /\ DOMAIN RunTickOn(s, t).arrived = Players
           /\ \A p \in Players :
                /\ RunTickOn(s, t).used[p] = Prune(Put(s.used[p], t, InputFor(s, p, t)), Settled(s, t))
                /\ RunTickOn(s, t).arrived[p] = Prune(s.arrived[p], Settled(s, t))
<1>1. /\ DOMAIN Push(s.ring, t, s.world) = RingTicks(Following(t, s.next))
      /\ Min(DOMAIN Push(s.ring, t, s.world)) = Settled(s, t)
    BY PushOnASession DEF Settled
<1> QED
    BY <1>1 DEF RunTickOn, IsSession, Fields

(* What run_tick leaves as it was.                                         *)
LEMMA RunTickFrame ==
    ASSUME NEW s, IsSession(s), NEW t
    PROVE  /\ RunTickOn(s, t).next = s.next
           /\ RunTickOn(s, t).dirty = s.dirty
           /\ RunTickOn(s, t).stale = s.stale
           /\ RunTickOn(s, t).absent = s.absent
           /\ RunTickOn(s, t).newest = s.newest
BY DEF RunTickOn, IsSession, Fields

(* The ticks the ring then holds: all at or above the settled mark.        *)
LEMMA RunTickWindow ==
    ASSUME NEW s, IsSession(s), NEW t, t \in RingTicks(s.next) \/ t = s.next
    PROVE  /\ t \in Nat /\ t \in RingTicks(Following(t, s.next))
           /\ Settled(s, t) \in Nat
           /\ \A u \in RingTicks(Following(t, s.next)) : u \in Nat /\ ~(u < Settled(s, t))
           /\ \A u \in RingTicks(s.next) \union {t} :
                u >= Settled(s, t) <=> u \in RingTicks(Following(t, s.next))
<1>1. s.next \in Nat \ {0} /\ t \in Nat
    BY DEF IsSession, RingTicks
<1>2. Following(t, s.next) \in Nat \ {0} /\ t \in RingTicks(Following(t, s.next))
    BY <1>1, DepthAssumption DEF Following, RingTicks
<1>3. /\ RingTicks(Following(t, s.next)) = Settled(s, t) .. Following(t, s.next) - 1
      /\ Settled(s, t) \in Nat
    BY <1>2, WindowIsAnInterval DEF Settled
<1>4. \A u \in RingTicks(s.next) \union {t} : u \in Nat /\ u <= Following(t, s.next) - 1
    BY <1>1 DEF RingTicks, Following
<1> HIDE DEF Settled, Following
<1> QED
    BY <1>1, <1>2, <1>3, <1>4

(* What the ring and the digests record of the tick run, and of others.    *)
LEMMA RunTickRing ==
    ASSUME NEW s, IsSession(s), DOMAIN s.ring = RingTicks(s.next),
           NEW t, t \in RingTicks(s.next) \/ t = s.next
    PROVE  /\ RunTickOn(s, t).ring[t] = s.world
           /\ DOMAIN RunTickOn(s, t).digests = DOMAIN RunTickOn(s, t).ring
           /\ RunTickOn(s, t).digests[t] = Digest(RunTickOn(s, t).world)
           /\ \A u \in DOMAIN RunTickOn(s, t).ring : u # t =>
                /\ u \in DOMAIN s.ring
                /\ RunTickOn(s, t).ring[u] = s.ring[u]
                /\ RunTickOn(s, t).digests[u] = s.digests[u]
<1> DEFINE r == RunTickOn(s, t)
           mark == Settled(s, t)
           held == RingTicks(Following(t, s.next))
<1>1. /\ DOMAIN r.ring = held
      /\ r.ring = Push(s.ring, t, s.world)
      /\ r.digests = From(mark, Put(s.digests, t, Digest(r.world)))
    BY RunTickFields
<1>2. /\ t \in held
      /\ \A u \in RingTicks(s.next) \union {t} : u >= mark <=> u \in held
    BY RunTickWindow
<1>3. s.next \in Nat \ {0} /\ DOMAIN s.digests = RingTicks(s.next)
    BY DEF IsSession
<1>4. r.ring[t] = s.world
    BY <1>1, PushOnASession
<1>5. \A u \in held : u # t => u \in DOMAIN s.ring /\ r.ring[u] = s.ring[u]
    BY <1>1, PushOnASession
<1> HIDE DEF r, mark, held
<1>6. \A u \in DOMAIN s.digests \union {t} : u >= mark <=> u \in held
    BY <1>2, <1>3
<1>7. /\ DOMAIN r.digests = held
      /\ r.digests[t] = Digest(r.world)
      /\ \A u \in held : u # t => r.digests[u] = s.digests[u]
    BY <1>1, <1>2, <1>3, <1>5, <1>6 DEF From, Restrict, Put
<1> QED
    BY <1>1, <1>4, <1>5, <1>7 DEF r

(* What the journal then holds: the tick with the inputs decided for it,   *)
(* what it held of the ring's other ticks, and nothing new.                *)
LEMMA RunTickJournal ==
    ASSUME NEW s, IsSession(s), DOMAIN s.ring = RingTicks(s.next),
           NEW t, t \in RingTicks(s.next) \/ t = s.next,
           NEW p \in Players
    PROVE  /\ t \in DOMAIN RunTickOn(s, t).used[p]
           /\ RunTickOn(s, t).used[p][t] = InputFor(s, p, t)
           /\ \A u \in DOMAIN RunTickOn(s, t).ring : u # t /\ u \in DOMAIN s.used[p] =>
                /\ u \in DOMAIN RunTickOn(s, t).used[p]
                /\ RunTickOn(s, t).used[p][u] = s.used[p][u]
           /\ \A u \in DOMAIN RunTickOn(s, t).used[p] : u # t =>
                /\ u \in DOMAIN s.used[p]
                /\ RunTickOn(s, t).used[p][u] = s.used[p][u]
           /\ \A u \in DOMAIN RunTickOn(s, t).arrived[p] :
                /\ u \in DOMAIN s.arrived[p]
                /\ RunTickOn(s, t).arrived[p][u] = s.arrived[p][u]
<1> DEFINE r == RunTickOn(s, t)
           mark == Settled(s, t)
           noted == Put(s.used[p], t, InputFor(s, p, t))
<1>1. /\ DOMAIN r.ring = RingTicks(Following(t, s.next))
      /\ r.used[p] = Prune(noted, mark)
      /\ r.arrived[p] = Prune(s.arrived[p], mark)
    BY RunTickFields
<1>2. t \in DOMAIN r.ring /\ \A u \in DOMAIN r.ring : ~(u < mark)
    BY <1>1, RunTickWindow
<1>3. DOMAIN noted = DOMAIN s.used[p] \union {t} /\ noted[t] = InputFor(s, p, t)
    BY DEF Put
<1>4. \A u \in DOMAIN s.used[p] : u # t => noted[u] = s.used[p][u]
    BY DEF Put
<1> HIDE DEF r, mark, noted
<1>5. /\ t \in DOMAIN r.used[p] /\ r.used[p][t] = InputFor(s, p, t)
      /\ \A u \in DOMAIN r.ring : u # t /\ u \in DOMAIN s.used[p] =>
            u \in DOMAIN r.used[p] /\ r.used[p][u] = s.used[p][u]
    BY <1>1, <1>2, <1>3, <1>4, PruneKeeps
<1>6. \A u \in DOMAIN r.used[p] : u # t => u \in DOMAIN s.used[p] /\ r.used[p][u] = s.used[p][u]
    BY <1>1, <1>3, <1>4, PruneKeeps
<1>7. \A u \in DOMAIN r.arrived[p] : u \in DOMAIN s.arrived[p] /\ r.arrived[p][u] = s.arrived[p][u]
    BY <1>1, PruneKeeps
<1> QED
    BY <1>5, <1>6, <1>7 DEF r

LEMMA RunTickIsASession ==
    ASSUME NEW s, IsSession(s), DOMAIN s.ring = RingTicks(s.next),
           NEW t, t \in RingTicks(s.next) \/ t = s.next
    PROVE  IsSession(RunTickOn(s, t))
<1> DEFINE r == RunTickOn(s, t)
<1>1. /\ DOMAIN r = Fields /\ r.next = s.next /\ r.dirty = s.dirty /\ r.stale = s.stale
      /\ r.absent = s.absent
      /\ DOMAIN r.used = Players /\ DOMAIN r.arrived = Players
      /\ DOMAIN r.ring = RingTicks(Following(t, s.next))
    BY RunTickFields
<1>2. DOMAIN r.ring \subseteq Nat /\ t \in Nat
    BY <1>1, RunTickWindow
<1>3. DOMAIN r.digests = DOMAIN r.ring
    BY RunTickRing
<1>4. ASSUME NEW p \in Players
      PROVE  /\ \A u \in DOMAIN r.used[p] : u \in Nat /\ r.used[p][u] \in Input
             /\ \A u \in DOMAIN r.arrived[p] : u \in Nat /\ r.arrived[p][u] \in Input
    <2>1. \A u \in DOMAIN r.used[p] : u # t => u \in DOMAIN s.used[p] /\ r.used[p][u] = s.used[p][u]
        BY RunTickJournal
    <2>2. \A u \in DOMAIN r.arrived[p] : u \in DOMAIN s.arrived[p] /\ r.arrived[p][u] = s.arrived[p][u]
        BY RunTickJournal
    <2>3. r.used[p][t] = InputFor(s, p, t) /\ InputFor(s, p, t) \in Input
        BY <1>2, InputForType, RunTickJournal
    <2> HIDE DEF r
    <2> QED
        BY <1>2, <2>1, <2>2, <2>3 DEF IsSession, IsJournal
<1> HIDE DEF r
<1>5. IsJournal(r.used) /\ IsJournal(r.arrived)
    BY <1>1, <1>4 DEF IsJournal
<1>6. IsSession(r)
    BY <1>1, <1>2, <1>3, <1>5 DEF IsSession
<1> QED
    BY <1>6 DEF r

-----------------------------------------------------------------------------
(* What a whole advance does to a session, and a run of submits: the      *)
(* operators of Session that are recursive functions, by induction on the *)
(* tick they have come to.                                                *)

(* The tick an advance starts from, and the session it starts with.        *)
FirstRun(s) == IF CanRewind(s) THEN s.dirty ELSE s.next

Begun(s) == IF CanRewind(s) THEN Rewound(s) ELSE NotRewound(s)

(* The sessions an advance goes through, one for each tick it is about to  *)
(* run, up to tick n.                                                      *)
RunsTo(f, s, n) ==
    f = [t \in FirstRun(s) .. n |->
            IF t = FirstRun(s) THEN Begun(s) ELSE RunTickOn(f[t - 1], t - 1)]

LEMMA RunsExist ==
    ASSUME NEW s, FirstRun(s) \in Nat, NEW n \in Nat, FirstRun(s) <= n
    PROVE  \E f : RunsTo(f, s, n)
<1> DEFINE a == FirstRun(s)
           Bad == {k \in Nat : a <= k /\ ~\E f : RunsTo(f, s, k)}
<1>1. SUFFICES ASSUME Bad # {} PROVE FALSE
    OBVIOUS
<1>2. Min(Bad) \in Bad /\ \A x \in Bad : Min(Bad) <= x
    BY <1>1, MinOfNats
<1>3. PICK k \in Bad : \A x \in Bad : k <= x
    BY <1>2
<1>4. CASE k = a
    <2> DEFINE f == [t \in a .. k |-> Begun(s)]
    <2>1. f = [t \in a .. k |-> IF t = a THEN Begun(s) ELSE RunTickOn(f[t - 1], t - 1)]
        BY <1>4
    <2>2. RunsTo(f, s, k)
        BY <2>1 DEF RunsTo
    <2> QED
        BY <1>3, <2>2
<1>5. CASE k # a
    <2>1. k \in Nat /\ k - 1 \in Nat /\ a <= k - 1 /\ k - 1 \notin Bad
        BY <1>3, <1>5
    <2>2. PICK g : RunsTo(g, s, k - 1)
        BY <2>1
    <2> DEFINE f == [t \in a .. k |-> IF t = k THEN RunTickOn(g[k - 1], k - 1) ELSE g[t]]
    <2>3. \A t \in a .. k - 1 : g[t] = IF t = a THEN Begun(s) ELSE RunTickOn(g[t - 1], t - 1)
        BY <2>2 DEF RunsTo
    <2>4. \A t \in a .. k : f[t] = IF t = a THEN Begun(s) ELSE RunTickOn(f[t - 1], t - 1)
        <3>1. f[k] = RunTickOn(f[k - 1], k - 1)
            BY <2>1
        <3>2. ASSUME NEW t \in a .. k - 1
              PROVE  f[t] = IF t = a THEN Begun(s) ELSE RunTickOn(f[t - 1], t - 1)
            <4>1. t # k /\ t \in a .. k /\ f[t] = g[t]
                BY <2>1
            <4>2. t # a => f[t - 1] = g[t - 1]
                BY <2>1
            <4> QED
                BY <2>3, <4>1, <4>2
        <3>3. \A t \in a .. k : t = k \/ t \in a .. k - 1
            BY <2>1
        <3> HIDE DEF f, a
        <3> QED
            BY <1>5, <3>1, <3>2, <3>3
    <2> HIDE DEF f
    <2>5. f = [t \in a .. k |-> f[t]]
        BY DEF f
    <2>6. RunsTo(f, s, k)
        BY <2>4, <2>5 DEF RunsTo
    <2> QED
        BY <1>3, <2>6
<1> QED
    BY <1>4, <1>5

(* advance is those runs, and the tick counted.                            *)
LEMMA AdvanceRuns ==
    ASSUME NEW s, FirstRun(s) \in Nat, s.next \in Nat, FirstRun(s) <= s.next
    PROVE  \E f : RunsTo(f, s, s.next + 1) /\ AdvanceOf(s) = [f[s.next + 1] EXCEPT !.next = @ + 1]
<1> DEFINE first == FirstRun(s)
           F(f) == f = [t \in first .. s.next + 1 |->
                          IF t = first THEN Begun(s) ELSE Bind(f[t - 1], LAMBDA r : RunTickOn(r, t - 1))]
           ran == CHOOSE f : F(f)
<1>1. \A x, t : (CHOOSE y \in {RunTickOn(z, t) : z \in {x}} : TRUE) = RunTickOn(x, t)
    OBVIOUS
<1>2. \A f : F(f) <=> RunsTo(f, s, s.next + 1)
    BY <1>1 DEF RunsTo, Bind
<1>3. AdvanceOf(s) = [ran[s.next + 1] EXCEPT !.next = @ + 1]
    BY DEF AdvanceOf, FirstRun, Begun, Bind
<1> HIDE DEF F
<1>4. s.next + 1 \in Nat /\ first <= s.next + 1
    OBVIOUS
<1>5. \E f : RunsTo(f, s, s.next + 1)
    BY <1>4, RunsExist
<1>6. F(ran)
    BY <1>2, <1>5
<1> HIDE DEF ran
<1> QED
    BY <1>2, <1>3, <1>6
-----------------------------------------------------------------------------
(* A session between two calls, and one inside an advance.                 *)

(* Its ring is a window, every tick in it ran with some input, no tick     *)
(* ahead has, and nothing is kept of a player who is gone.                 *)
Shaped(s) ==
    /\ IsSession(s)
    /\ DOMAIN s.ring = RingTicks(s.next)
    /\ \A p \in Players : /\ RingTicks(s.next) \subseteq DOMAIN s.used[p]
                          /\ \A t \in DOMAIN s.used[p] : 0 < t /\ t < s.next
    /\ \A p \in DOMAIN s.absent : \A t \in DOMAIN s.arrived[p] : t < s.absent[p]

(* Its snapshots are a chain that breaks, if at all, ahead of tick c.      *)
ChainedTo(s, c) ==
    /\ \A t \in DOMAIN s.ring :
        t + 1 \in DOMAIN s.ring /\ t + 1 # c => s.ring[t + 1] = Step(s.ring[t], RowOf(s, t))
    /\ c - 1 \in DOMAIN s.ring => s.world = Step(s.ring[c - 1], RowOf(s, c - 1))
    /\ c - 1 \notin DOMAIN s.ring => s.world = IF c \in DOMAIN s.ring THEN s.ring[c] ELSE Start
    /\ \A t \in DOMAIN s.ring : s.digests[t] = Digest(Step(s.ring[t], RowOf(s, t)))

(* The ticks below c ran with what arrived for them.                       *)
PlayedTo(s, c) ==
    \A p \in Players : \A t \in DOMAIN s.ring \intersect DOMAIN s.arrived[p] :
        t < c => s.used[p][t] = s.arrived[p][t]

(* Those who left played nothing in the ticks below c.                     *)
SatOut(s, c) ==
    \A p \in DOMAIN s.absent : \A t \in DOMAIN s.ring :
        s.absent[p] <= t /\ t < c => s.used[p][t] = Nil

Due(s) == IF s.dirty = NoTick THEN s.next ELSE s.dirty

Resting(s) ==
    /\ Shaped(s)
    /\ s.dirty # NoTick => s.dirty \in DOMAIN s.ring
    /\ ChainedTo(s, s.next)
    /\ PlayedTo(s, Due(s))

AtTick(s, c) ==
    /\ Shaped(s)
    /\ s.dirty = NoTick
    /\ c \in RingTicks(s.next) \/ c = s.next
    /\ ChainedTo(s, c)
    /\ PlayedTo(s, c)

(* What running ticks again from tick a on leaves as it was in s.          *)
Keeps(s, r, a) ==
    /\ r.next = s.next /\ r.absent = s.absent /\ r.newest = s.newest
    /\ DOMAIN r.ring = DOMAIN s.ring
    /\ \A t \in DOMAIN s.ring : t < a => r.ring[t] = s.ring[t] /\ r.digests[t] = s.digests[t]
    /\ \A p \in Players :
        /\ \A t \in DOMAIN s.arrived[p] : t \in DOMAIN r.arrived[p] \/ BelowRing(r, t)
        /\ \A t \in DOMAIN r.arrived[p] :
             t \in DOMAIN s.arrived[p] /\ r.arrived[p][t] = s.arrived[p][t]

LEMMA RestingBegins ==
    ASSUME NEW s, Resting(s)
    PROVE  /\ FirstRun(s) \in Nat /\ s.next \in Nat \ {0} /\ FirstRun(s) <= s.next
           /\ FirstRun(s) = Due(s)
           /\ AtTick(Begun(s), FirstRun(s))
           /\ Keeps(s, Begun(s), FirstRun(s))
           /\ Begun(s).ring = s.ring
           /\ SatOut(s, FirstRun(s)) => SatOut(Begun(s), FirstRun(s))
           /\ FirstRun(s) \in DOMAIN s.ring => Begun(s).world = s.ring[FirstRun(s)]
<1>1. IsSession(s) /\ DOMAIN s.ring = RingTicks(s.next) /\ s.next \in Nat \ {0}
    BY DEF Resting, Shaped, IsSession
<1>2. DOMAIN s.ring \subseteq Nat /\ \A t \in DOMAIN s.ring : t < s.next /\ t # NoTick
    BY <1>1 DEF RingTicks, NoTick
<1>3. CASE s.dirty = NoTick
    <2>1. FirstRun(s) = s.next /\ Begun(s) = NotRewound(s) /\ Due(s) = s.next
        BY <1>3 DEF FirstRun, Begun, CanRewind, Due
    <2> DEFINE r == NotRewound(s)
    <2>2. /\ IsSession(r) /\ r.dirty = NoTick /\ r.next = s.next /\ r.ring = s.ring
          /\ r.used = s.used /\ r.arrived = s.arrived /\ r.world = s.world
          /\ r.digests = s.digests /\ r.absent = s.absent /\ r.newest = s.newest
        BY <1>1, <1>3 DEF NotRewound, IsSession, Fields, NoTick
    <2> HIDE DEF r
    <2>3. AtTick(r, s.next)
        BY <1>3, <2>1, <2>2 DEF Resting, AtTick, Shaped, ChainedTo, PlayedTo, RowOf
    <2>4. Keeps(s, r, s.next)
        BY <2>2 DEF Keeps
    <2>5. SatOut(s, s.next) => SatOut(r, s.next)
        BY <2>2 DEF SatOut
    <2> QED
        BY <1>1, <1>2, <2>1, <2>2, <2>3, <2>4, <2>5 DEF r
<1>4. CASE s.dirty # NoTick
    <2> DEFINE d == s.dirty
               r == Rewound(s)
    <2>1. /\ d \in DOMAIN s.ring /\ d \in Nat /\ d < s.next
          /\ FirstRun(s) = d /\ Begun(s) = r /\ Due(s) = d
        BY <1>2, <1>4 DEF Resting, FirstRun, Begun, CanRewind, Due
    <2>2. /\ IsSession(r) /\ r.dirty = NoTick /\ r.next = s.next /\ r.ring = s.ring
          /\ r.used = s.used /\ r.arrived = s.arrived /\ r.world = s.ring[d]
          /\ r.digests = s.digests /\ r.absent = s.absent /\ r.newest = s.newest
        BY <1>1 DEF Rewound, IsSession, Fields, NoTick
    <2> HIDE DEF r
    <2>3. \A t \in DOMAIN s.ring : t + 1 \in DOMAIN s.ring =>
            s.ring[t + 1] = Step(s.ring[t], RowOf(s, t))
        BY <1>2 DEF Resting, ChainedTo
    <2>4. d - 1 \in DOMAIN s.ring => s.ring[d] = Step(s.ring[d - 1], RowOf(s, d - 1))
        <3>1. d - 1 + 1 = d
            BY <2>1
        <3> QED
            BY <2>1, <2>3, <3>1
    <2>5. ChainedTo(r, d)
        BY <2>1, <2>2, <2>3, <2>4 DEF Resting, ChainedTo, RowOf
    <2>6. PlayedTo(r, d)
        BY <2>1, <2>2 DEF Resting, PlayedTo
    <2>7. AtTick(r, d)
        BY <1>1, <2>1, <2>2, <2>5, <2>6 DEF Resting, AtTick, Shaped
    <2>8. Keeps(s, r, d)
        BY <2>2 DEF Keeps
    <2>9. SatOut(s, d) => SatOut(r, d)
        BY <2>2 DEF SatOut
    <2> QED
        BY <1>1, <2>1, <2>2, <2>7, <2>8, <2>9
<1> QED
    BY <1>3, <1>4

(* What one run_tick records: in the ring it leaves, tick c is the one it  *)
(* ran, and the others are as they were.                                   *)
LEMMA RunAt ==
    ASSUME NEW s, NEW c, AtTick(s, c)
    PROVE  LET r == RunTickOn(s, c)
           IN  /\ s.next \in Nat \ {0} /\ c \in Nat /\ DOMAIN s.ring \subseteq Nat
               /\ IsSession(r) /\ r.next = s.next /\ r.dirty = NoTick
               /\ r.absent = s.absent /\ r.newest = s.newest
               /\ DOMAIN r.ring = RingTicks(Following(c, s.next))
               /\ c \in DOMAIN r.ring /\ r.ring[c] = s.world
               /\ r.world = Step(s.world, RowOf(r, c))
               /\ r.digests[c] = Digest(r.world)
               /\ \A u \in DOMAIN r.ring : u # c =>
                    /\ u \in DOMAIN s.ring
                    /\ r.ring[u] = s.ring[u]
                    /\ r.digests[u] = s.digests[u]
                    /\ RowOf(r, u) = RowOf(s, u)
               /\ \A p \in Players :
                    /\ DOMAIN r.ring \subseteq DOMAIN r.used[p]
                    /\ \A u \in DOMAIN r.used[p] : 0 < u /\ (u < s.next \/ u = c)
                    /\ r.used[p][c] = InputFor(s, p, c)
                    /\ \A u \in DOMAIN r.ring : u # c => r.used[p][u] = s.used[p][u]
                    /\ \A u \in DOMAIN s.arrived[p] : u \in DOMAIN r.arrived[p] \/ BelowRing(r, u)
                    /\ \A u \in DOMAIN r.arrived[p] :
                            u \in DOMAIN s.arrived[p] /\ r.arrived[p][u] = s.arrived[p][u]
<1> DEFINE r == RunTickOn(s, c)
<1>1. /\ IsSession(s) /\ DOMAIN s.ring = RingTicks(s.next) /\ s.next \in Nat \ {0}
      /\ c \in RingTicks(s.next) \/ c = s.next
      /\ c \in Nat /\ 0 < c /\ s.dirty = NoTick
    BY DEF AtTick, Shaped, IsSession, RingTicks
<1>2. /\ IsSession(r) /\ r.next = s.next /\ r.dirty = NoTick
      /\ r.absent = s.absent /\ r.newest = s.newest
      /\ DOMAIN r.ring = RingTicks(Following(c, s.next))
      /\ r.world = Step(s.world, DecidedRow(s, c))
    <2>1. IsSession(r)
        BY <1>1, RunTickIsASession
    <2>2. DOMAIN r.ring = RingTicks(Following(c, s.next)) /\ r.world = Step(s.world, DecidedRow(s, c))
        BY <1>1, RunTickFields
    <2> QED
        BY <1>1, <2>1, <2>2, RunTickFrame
<1>3. c \in DOMAIN r.ring /\ \A u \in DOMAIN r.ring : ~(u < Settled(s, c))
    BY <1>1, <1>2, RunTickWindow
<1>4. /\ r.ring[c] = s.world /\ r.digests[c] = Digest(r.world)
      /\ \A u \in DOMAIN r.ring : u # c =>
            /\ u \in DOMAIN s.ring
            /\ r.ring[u] = s.ring[u]
            /\ r.digests[u] = s.digests[u]
    BY <1>1, <1>3, RunTickRing
<1>5. ASSUME NEW p \in Players
      PROVE  /\ c \in DOMAIN r.used[p]
             /\ r.used[p][c] = InputFor(s, p, c)
             /\ \A u \in DOMAIN r.ring : u # c /\ u \in DOMAIN s.used[p] =>
                    u \in DOMAIN r.used[p] /\ r.used[p][u] = s.used[p][u]
             /\ \A u \in DOMAIN r.used[p] : u # c => u \in DOMAIN s.used[p]
             /\ \A u \in DOMAIN r.arrived[p] :
                    u \in DOMAIN s.arrived[p] /\ r.arrived[p][u] = s.arrived[p][u]
             /\ r.arrived[p] = Prune(s.arrived[p], Settled(s, c))
    <2>1. r.arrived[p] = Prune(s.arrived[p], Settled(s, c))
        BY <1>1, RunTickFields
    <2> QED
        BY <1>1, <2>1, RunTickJournal
<1> HIDE DEF r
<1>6. ASSUME NEW p \in Players
      PROVE  /\ DOMAIN r.ring \subseteq DOMAIN r.used[p]
             /\ \A u \in DOMAIN r.used[p] : 0 < u /\ (u < s.next \/ u = c)
             /\ \A u \in DOMAIN r.ring : u # c => r.used[p][u] = s.used[p][u]
             /\ \A u \in DOMAIN s.arrived[p] : u \in DOMAIN r.arrived[p] \/ BelowRing(r, u)
    <2>1. DOMAIN s.ring \subseteq DOMAIN s.used[p] /\ \A u \in DOMAIN s.used[p] : 0 < u /\ u < s.next
        BY <1>1 DEF AtTick, Shaped
    <2>2. \A u \in DOMAIN r.ring : u # c => u \in DOMAIN s.used[p]
        BY <1>4, <2>1
    <2>3. \A u \in DOMAIN s.arrived[p] : u \in DOMAIN r.arrived[p] \/ u < Settled(s, c)
        BY <1>5, PruneKeeps
    <2>4. \A u \in DOMAIN s.arrived[p] : u < Settled(s, c) => BelowRing(r, u)
        <3>1. /\ \A u \in DOMAIN r.ring : u \in Nat /\ ~(u < Settled(s, c))
              /\ Settled(s, c) \in Nat
            BY <1>1, <1>2, RunTickWindow
        <3>2. DOMAIN s.arrived[p] \subseteq Nat
            BY <1>1 DEF IsSession, IsJournal
        <3> QED
            BY <1>3, <3>1, <3>2 DEF BelowRing
    <2> QED
        BY <1>1, <1>5, <2>1, <2>2, <2>3, <2>4
<1>7. RowOf(r, c) = DecidedRow(s, c)
    BY <1>5 DEF RowOf, DecidedRow
<1>8. \A u \in DOMAIN r.ring : u # c => RowOf(r, u) = RowOf(s, u)
    BY <1>6 DEF RowOf
<1>9. DOMAIN s.ring \subseteq Nat
    BY <1>1 DEF IsSession
<1> QED
    BY <1>1, <1>2, <1>3, <1>4, <1>5, <1>6, <1>7, <1>8, <1>9 DEF r

(* Running tick c mends the chain behind it, and plays what has arrived.   *)
LEMMA RunMends ==
    ASSUME NEW s, NEW c, AtTick(s, c)
    PROVE  LET r == RunTickOn(s, c)
           IN  /\ ChainedTo(r, c + 1)
               /\ PlayedTo(r, c + 1)
               /\ SatOut(s, c) => SatOut(r, c + 1)
               /\ \A p \in DOMAIN r.absent : \A t \in DOMAIN r.arrived[p] : t < r.absent[p]
<1> DEFINE r == RunTickOn(s, c)
<1>1. /\ s.next \in Nat \ {0} /\ c \in Nat /\ DOMAIN s.ring \subseteq Nat
      /\ IsSession(r) /\ r.absent = s.absent
      /\ c \in DOMAIN r.ring /\ r.ring[c] = s.world
      /\ r.world = Step(s.world, RowOf(r, c))
      /\ r.digests[c] = Digest(r.world)
      /\ \A u \in DOMAIN r.ring : u # c =>
            /\ u \in DOMAIN s.ring
            /\ r.ring[u] = s.ring[u]
            /\ r.digests[u] = s.digests[u]
            /\ RowOf(r, u) = RowOf(s, u)
    BY RunAt
<1>2. ASSUME NEW p \in Players
      PROVE  /\ r.used[p][c] = InputFor(s, p, c)
             /\ \A u \in DOMAIN r.ring : u # c => r.used[p][u] = s.used[p][u]
             /\ \A u \in DOMAIN r.arrived[p] :
                    u \in DOMAIN s.arrived[p] /\ r.arrived[p][u] = s.arrived[p][u]
    BY RunAt
<1>3. /\ IsSession(s) /\ ChainedTo(s, c) /\ PlayedTo(s, c)
      /\ \A p \in DOMAIN s.absent : \A t \in DOMAIN s.arrived[p] : t < s.absent[p]
    BY DEF AtTick, Shaped
<1> HIDE DEF r
<1>4. \A p \in DOMAIN s.absent : p \in Players
    BY <1>3 DEF IsSession
<1>5. \A p \in DOMAIN r.absent : \A t \in DOMAIN r.arrived[p] : t < r.absent[p]
    BY <1>1, <1>2, <1>3, <1>4
<1>6. PlayedTo(r, c + 1)
    <2> SUFFICES ASSUME NEW p \in Players, NEW t \in DOMAIN r.ring \intersect DOMAIN r.arrived[p],
                        t < c + 1
                 PROVE  r.used[p][t] = r.arrived[p][t]
        BY DEF PlayedTo
    <2>1. t \in DOMAIN s.arrived[p] /\ r.arrived[p][t] = s.arrived[p][t]
        BY <1>2
    <2>2. CASE t = c
        <3>1. IsPresent(s, p, c)
            BY <1>3, <2>1, <2>2 DEF IsPresent
        <3> QED
            BY <1>2, <2>1, <2>2, <3>1 DEF InputFor
    <2>3. CASE t # c
        <3>1. t \in DOMAIN s.ring /\ t < c /\ r.used[p][t] = s.used[p][t]
            <4>1. t \in DOMAIN s.ring /\ r.used[p][t] = s.used[p][t]
                BY <1>1, <1>2, <2>3
            <4>2. t \in Nat
                BY <1>1, <4>1
            <4> QED
                BY <1>1, <2>3, <4>1, <4>2
        <3> QED
            BY <1>3, <2>1, <3>1 DEF PlayedTo
    <2> QED
        BY <2>2, <2>3
<1>7. ASSUME NEW t \in DOMAIN r.ring, t + 1 \in DOMAIN r.ring, t + 1 # c + 1
      PROVE  r.ring[t + 1] = Step(r.ring[t], RowOf(r, t))
    <2>1. t # c /\ t \in DOMAIN s.ring /\ t \in Nat
        BY <1>1, <1>7
    <2>2. r.ring[t] = s.ring[t] /\ RowOf(r, t) = RowOf(s, t)
        BY <1>1, <2>1
    <2>3. CASE t + 1 = c
        <3>1. c - 1 = t
            BY <1>1, <2>1, <2>3
        <3>2. s.world = Step(s.ring[t], RowOf(s, t))
            BY <1>3, <2>1, <3>1 DEF ChainedTo
        <3> QED
            BY <1>1, <2>2, <2>3, <3>2
    <2>4. CASE t + 1 # c
        <3>1. t + 1 \in DOMAIN s.ring /\ r.ring[t + 1] = s.ring[t + 1]
            BY <1>1, <1>7, <2>4
        <3> QED
            BY <1>3, <2>1, <2>2, <2>4, <3>1 DEF ChainedTo
    <2> QED
        BY <2>3, <2>4
<1>8. c + 1 - 1 = c
    BY <1>1
<1>9. ASSUME NEW t \in DOMAIN r.ring
      PROVE  r.digests[t] = Digest(Step(r.ring[t], RowOf(r, t)))
    <2>1. CASE t = c
        BY <1>1, <2>1
    <2>2. CASE t # c
        <3>1. /\ t \in DOMAIN s.ring /\ r.ring[t] = s.ring[t]
              /\ r.digests[t] = s.digests[t] /\ RowOf(r, t) = RowOf(s, t)
            BY <1>1, <2>2
        <3> QED
            BY <1>3, <3>1 DEF ChainedTo
    <2> QED
        BY <2>1, <2>2
<1>10. ChainedTo(r, c + 1)
    BY <1>1, <1>7, <1>8, <1>9 DEF ChainedTo
<1>11. ASSUME SatOut(s, c), NEW p \in DOMAIN r.absent, NEW t \in DOMAIN r.ring,
              r.absent[p] <= t, t < c + 1
       PROVE  r.used[p][t] = Nil
    <2>1. /\ p \in Players /\ p \in DOMAIN s.absent /\ s.absent[p] <= t
          /\ s.absent[p] \in Nat
        BY <1>1, <1>3, <1>4, <1>11 DEF IsSession
    <2>2. CASE t = c
        <3>1. ~IsPresent(s, p, c)
            BY <1>1, <2>1, <2>2 DEF IsPresent
        <3> QED
            BY <1>2, <2>1, <2>2, <3>1 DEF InputFor
    <2>3. CASE t # c
        <3>1. t \in DOMAIN s.ring /\ t \in Nat /\ r.used[p][t] = s.used[p][t]
            BY <1>1, <1>2, <2>1, <2>3
        <3>2. t < c
            BY <1>1, <1>11, <2>3, <3>1
        <3> QED
            BY <1>11, <2>1, <3>1, <3>2 DEF SatOut
    <2> QED
        BY <2>2, <2>3
<1>12. SatOut(s, c) => SatOut(r, c + 1)
    BY <1>11 DEF SatOut
<1> QED
    BY <1>5, <1>6, <1>10, <1>12 DEF r

(* Running again a tick behind the next one.                               *)
LEMMA AgainRuns ==
    ASSUME NEW s, NEW c, AtTick(s, c), c < s.next
    PROVE  LET r == RunTickOn(s, c)
           IN  /\ AtTick(r, c + 1) /\ r.ring[c] = s.world /\ Keeps(s, r, c)
               /\ SatOut(s, c) => SatOut(r, c + 1)
<1> DEFINE r == RunTickOn(s, c)
<1>1. /\ s.next \in Nat \ {0} /\ c \in Nat
      /\ IsSession(r) /\ r.next = s.next /\ r.dirty = NoTick
      /\ r.absent = s.absent /\ r.newest = s.newest
      /\ DOMAIN r.ring = RingTicks(Following(c, s.next))
      /\ c \in DOMAIN r.ring /\ r.ring[c] = s.world
      /\ \A u \in DOMAIN r.ring : u # c =>
            r.ring[u] = s.ring[u] /\ r.digests[u] = s.digests[u]
    BY RunAt
<1>2. ASSUME NEW p \in Players
      PROVE  /\ DOMAIN r.ring \subseteq DOMAIN r.used[p]
             /\ \A u \in DOMAIN r.used[p] : 0 < u /\ (u < s.next \/ u = c)
             /\ \A u \in DOMAIN s.arrived[p] : u \in DOMAIN r.arrived[p] \/ BelowRing(r, u)
             /\ \A u \in DOMAIN r.arrived[p] :
                    u \in DOMAIN s.arrived[p] /\ r.arrived[p][u] = s.arrived[p][u]
    BY RunAt
<1>3. /\ ChainedTo(r, c + 1) /\ PlayedTo(r, c + 1)
      /\ SatOut(s, c) => SatOut(r, c + 1)
      /\ \A p \in DOMAIN r.absent : \A t \in DOMAIN r.arrived[p] : t < r.absent[p]
    BY RunMends
<1>4. IsSession(s) /\ DOMAIN s.ring = RingTicks(s.next) /\ c \in DOMAIN s.ring
    BY <1>1 DEF AtTick, Shaped
<1> HIDE DEF r
<1>5. DOMAIN r.ring = DOMAIN s.ring
    BY <1>1, <1>4 DEF Following
<1>6. c + 1 \in RingTicks(s.next) \/ c + 1 = s.next
    BY <1>1, <1>4, DepthAssumption DEF RingTicks
<1>7. Shaped(r)
    BY <1>1, <1>2, <1>3, <1>4, <1>5 DEF Shaped
<1>8. AtTick(r, c + 1)
    BY <1>1, <1>3, <1>6, <1>7 DEF AtTick
<1>9. \A t \in DOMAIN s.ring : t < c => r.ring[t] = s.ring[t] /\ r.digests[t] = s.digests[t]
    BY <1>1, <1>5
<1>10. Keeps(s, r, c)
    BY <1>1, <1>2, <1>5, <1>9 DEF Keeps
<1> QED
    BY <1>1, <1>3, <1>8, <1>10 DEF r

(* Running the next tick.                                                  *)
RanNext(s) == [RunTickOn(s, s.next) EXCEPT !.next = @ + 1]

LEMMA NextRuns ==
    ASSUME NEW s, AtTick(s, s.next)
    PROVE  LET r == RanNext(s)
           IN  /\ Resting(r) /\ r.dirty = NoTick /\ r.next = s.next + 1
               /\ r.absent = s.absent /\ r.newest = s.newest
               /\ SatOut(s, s.next) => SatOut(r, r.next)
               /\ s.next \in Nat \ {0}
               /\ r.ring[s.next] = s.world
               /\ \A u \in DOMAIN r.ring : u # s.next =>
                    /\ u \in DOMAIN s.ring
                    /\ r.ring[u] = s.ring[u]
                    /\ r.digests[u] = s.digests[u]
               /\ \A p \in Players :
                    /\ \A u \in DOMAIN s.arrived[p] : u \in DOMAIN r.arrived[p] \/ BelowRing(r, u)
                    /\ \A u \in DOMAIN r.arrived[p] :
                            u \in DOMAIN s.arrived[p] /\ r.arrived[p][u] = s.arrived[p][u]
<1> DEFINE n == s.next
           x == RunTickOn(s, n)
           r == RanNext(s)
<1>1. /\ n \in Nat \ {0}
      /\ IsSession(x) /\ x.next = n /\ x.dirty = NoTick
      /\ x.absent = s.absent /\ x.newest = s.newest
      /\ DOMAIN x.ring = RingTicks(Following(n, n))
      /\ n \in DOMAIN x.ring /\ x.ring[n] = s.world
      /\ \A u \in DOMAIN x.ring : u # n =>
            /\ u \in DOMAIN s.ring
            /\ x.ring[u] = s.ring[u]
            /\ x.digests[u] = s.digests[u]
    BY RunAt
<1>2. ASSUME NEW p \in Players
      PROVE  /\ DOMAIN x.ring \subseteq DOMAIN x.used[p]
             /\ \A u \in DOMAIN x.used[p] : 0 < u /\ (u < n \/ u = n)
             /\ \A u \in DOMAIN s.arrived[p] : u \in DOMAIN x.arrived[p] \/ BelowRing(x, u)
             /\ \A u \in DOMAIN x.arrived[p] :
                    u \in DOMAIN s.arrived[p] /\ x.arrived[p][u] = s.arrived[p][u]
    BY RunAt
<1>3. /\ ChainedTo(x, n + 1) /\ PlayedTo(x, n + 1)
      /\ SatOut(s, n) => SatOut(x, n + 1)
      /\ \A p \in DOMAIN x.absent : \A t \in DOMAIN x.arrived[p] : t < x.absent[p]
    BY RunMends
<1>4. /\ IsSession(r) /\ r.next = n + 1 /\ r.dirty = NoTick
      /\ r.ring = x.ring /\ r.digests = x.digests /\ r.used = x.used /\ r.arrived = x.arrived
      /\ r.world = x.world /\ r.absent = x.absent /\ r.newest = x.newest
    <2> HIDE DEF x, n
    <2>1. /\ r = [x EXCEPT !.next = @ + 1]
        BY DEF RanNext, x, n
    <2> HIDE DEF r
    <2> QED
        BY <1>1, <2>1 DEF IsSession, Fields
<1> HIDE DEF x, n, r
<1>5. DOMAIN r.ring = RingTicks(n + 1) /\ n + 1 \in Nat
    BY <1>1, <1>4 DEF Following
<1>6. \A p \in Players : \A u \in DOMAIN r.used[p] : 0 < u /\ u < n + 1
    <2>1. \A p \in Players : \A u \in DOMAIN x.used[p] : u \in Nat
        BY <1>1 DEF IsSession, IsJournal
    <2> QED
        BY <1>1, <1>2, <1>4, <2>1
<1>7. Shaped(r)
    BY <1>2, <1>3, <1>4, <1>5, <1>6 DEF Shaped
<1>8. ChainedTo(r, n + 1) /\ PlayedTo(r, n + 1)
    BY <1>3, <1>4 DEF ChainedTo, PlayedTo, RowOf
<1>9. Resting(r)
    BY <1>4, <1>7, <1>8 DEF Resting, Due
<1>10. \A u : BelowRing(x, u) <=> BelowRing(r, u)
    BY <1>4 DEF BelowRing
<1>11. SatOut(s, n) => SatOut(r, n + 1)
    BY <1>3, <1>4 DEF SatOut
<1> QED
    BY <1>1, <1>2, <1>4, <1>9, <1>10, <1>11 DEF n, r

LEMMA KeepsOn ==
    ASSUME NEW s, NEW x, NEW r, NEW a \in Nat, NEW c \in Nat, a <= c,
           DOMAIN s.ring \subseteq Nat, Keeps(s, x, a), Keeps(x, r, c)
    PROVE  Keeps(s, r, a)
<1>1. ASSUME NEW t \in DOMAIN s.ring, t < a
      PROVE  r.ring[t] = s.ring[t] /\ r.digests[t] = s.digests[t]
    <2>1. t \in Nat /\ t \in DOMAIN x.ring /\ t < c
        BY <1>1 DEF Keeps
    <2>2. r.ring[t] = x.ring[t] /\ r.digests[t] = x.digests[t]
        BY <2>1 DEF Keeps
    <2>3. x.ring[t] = s.ring[t] /\ x.digests[t] = s.digests[t]
        BY <1>1 DEF Keeps
    <2> QED
        BY <2>2, <2>3
<1>2. ASSUME NEW p \in Players
      PROVE  /\ \A t \in DOMAIN s.arrived[p] : t \in DOMAIN r.arrived[p] \/ BelowRing(r, t)
             /\ \A t \in DOMAIN r.arrived[p] :
                    t \in DOMAIN s.arrived[p] /\ r.arrived[p][t] = s.arrived[p][t]
    <2>1. \A t : BelowRing(x, t) <=> BelowRing(r, t)
        BY DEF Keeps, BelowRing
    <2> QED
        BY <2>1 DEF Keeps
<1>3. /\ r.next = s.next /\ r.absent = s.absent /\ r.newest = s.newest
      /\ DOMAIN r.ring = DOMAIN s.ring
    BY DEF Keeps
<1> QED
    BY <1>1, <1>2, <1>3 DEF Keeps

(* An advance catches up with the next tick, and then runs it.             *)
LEMMA CatchUp ==
    ASSUME NEW s, Resting(s)
    PROVE  \E x : /\ AtTick(x, s.next)
                  /\ Keeps(s, x, FirstRun(s))
                  /\ SatOut(s, FirstRun(s)) => SatOut(x, s.next)
                  /\ FirstRun(s) \in DOMAIN s.ring => x.ring[FirstRun(s)] = s.ring[FirstRun(s)]
                  /\ AdvanceOf(s) = RanNext(x)
<1> DEFINE a == FirstRun(s)
           n == s.next
<1>1. /\ a \in Nat /\ n \in Nat \ {0} /\ a <= n
      /\ AtTick(Begun(s), a) /\ Keeps(s, Begun(s), a) /\ Begun(s).ring = s.ring
      /\ SatOut(s, a) => SatOut(Begun(s), a)
      /\ a \in DOMAIN s.ring => Begun(s).world = s.ring[a]
    BY RestingBegins
<1>2. PICK f : RunsTo(f, s, n + 1) /\ AdvanceOf(s) = [f[n + 1] EXCEPT !.next = @ + 1]
    BY <1>1, AdvanceRuns
<1>3. DOMAIN s.ring \subseteq Nat
    BY DEF Resting, Shaped, IsSession
<1> HIDE DEF a, n
<1>4. f[a] = Begun(s) /\ \A t \in a .. n : f[t + 1] = RunTickOn(f[t], t)
    <2>1. \A t \in a .. n + 1 : f[t] = IF t = a THEN Begun(s) ELSE RunTickOn(f[t - 1], t - 1)
        BY <1>2 DEF RunsTo, a
    <2>2. \A t \in a .. n : t + 1 \in a .. n + 1 /\ t + 1 # a /\ t + 1 - 1 = t
        BY <1>1
    <2>3. a \in a .. n + 1
        BY <1>1
    <2> QED
        BY <2>1, <2>2, <2>3
<1> DEFINE Good(c) == /\ AtTick(f[c], c) /\ Keeps(s, f[c], a)
                      /\ SatOut(s, a) => SatOut(f[c], c)
                      /\ a \in DOMAIN s.ring => /\ f[c].ring[a] = s.ring[a]
                                                /\ c = a => f[c].world = s.ring[a]
           Bad == {c \in a .. n : ~Good(c)}
<1>5. Bad = {}
    <2> SUFFICES ASSUME Bad # {} PROVE FALSE
        OBVIOUS
    <2>1. Bad \in SUBSET Nat
        BY <1>1
    <2>2. PICK c \in Bad : \A x \in Bad : c <= x
        BY <2>1, MinOfNats
    <2>3. c \in Nat /\ a <= c /\ c <= n /\ ~Good(c)
        BY <1>1, <2>2
    <2>4. Good(a)
        BY <1>1, <1>4
    <2>5. c # a
        BY <2>3, <2>4
    <2> DEFINE b == c - 1
    <2>6. b \in Nat /\ a <= b /\ b < n /\ b + 1 = c /\ b \in a .. n
        BY <1>1, <2>3, <2>5
    <2>7. Good(b)
        BY <2>2, <2>3, <2>6
    <2> HIDE DEF b
    <2>8. f[c] = RunTickOn(f[b], b)
        BY <1>4, <2>6
    <2> DEFINE x == f[b]
               r == f[c]
    <2>9. AtTick(x, b) /\ Keeps(s, x, a) /\ x.next = n
        BY <2>7 DEF Keeps, n
    <2>10. /\ AtTick(r, c) /\ r.ring[b] = x.world /\ Keeps(x, r, b)
           /\ SatOut(x, b) => SatOut(r, c)
        BY <2>6, <2>8, <2>9, AgainRuns
    <2>11. Keeps(s, r, a)
        <3> HIDE DEF x, r
        <3> QED
            BY <1>1, <1>3, <2>6, <2>9, <2>10, KeepsOn
    <2>12. ASSUME a \in DOMAIN s.ring
           PROVE  r.ring[a] = s.ring[a]
        <3>1. x.ring[a] = s.ring[a] /\ (b = a => x.world = s.ring[a]) /\ a \in DOMAIN x.ring
            BY <2>7, <2>9, <2>12 DEF Keeps
        <3>2. b # a => r.ring[a] = x.ring[a]
            <4>1. b # a => a < b
                BY <1>1, <2>6
            <4> QED
                BY <2>10, <3>1, <4>1 DEF Keeps
        <3> QED
            BY <2>10, <3>1, <3>2
    <2>13. SatOut(s, a) => SatOut(r, c)
        BY <2>7, <2>10
    <2> QED
        BY <2>3, <2>5, <2>10, <2>11, <2>12, <2>13
<1>6. n \in a .. n
    BY <1>1
<1>7. Good(n)
    BY <1>5, <1>6
<1>8. f[n].next = n
    BY <1>7 DEF Keeps, n
<1>9. AdvanceOf(s) = RanNext(f[n])
    BY <1>2, <1>4, <1>6, <1>8 DEF RanNext
<1> QED
    BY <1>7, <1>9 DEF a, n

(* A whole advance: what it leaves of the session it was called on, and    *)
(* the ticks it ran again, once every input for them is in.                *)
LEMMA AdvanceKeeps ==
    ASSUME NEW s, Resting(s)
    PROVE  LET r == AdvanceOf(s)
           IN  /\ Resting(r) /\ r.dirty = NoTick
               /\ s.next \in Nat \ {0} /\ r.next = s.next + 1
               /\ r.absent = s.absent /\ r.newest = s.newest
               /\ SatOut(s, Due(s)) => SatOut(r, Due(r))
               /\ DOMAIN r.ring \subseteq DOMAIN s.ring \union {s.next}
               /\ \A t \in DOMAIN r.ring : t < Due(s) =>
                    t \in DOMAIN s.ring /\ r.ring[t] = s.ring[t] /\ r.digests[t] = s.digests[t]
               /\ \A t \in DOMAIN r.ring \intersect DOMAIN s.ring : t = Due(s) => r.ring[t] = s.ring[t]
               /\ \A p \in Players :
                    /\ \A t \in DOMAIN s.arrived[p] : t \in DOMAIN r.arrived[p] \/ BelowRing(r, t)
                    /\ \A t \in DOMAIN r.arrived[p] :
                            t \in DOMAIN s.arrived[p] /\ r.arrived[p][t] = s.arrived[p][t]
               /\ s.next = 1 => r.ring[1] = Start
<1> DEFINE n == s.next
           a == FirstRun(s)
           r == AdvanceOf(s)
<1>1. a \in Nat /\ n \in Nat \ {0} /\ a <= n /\ a = Due(s)
    BY RestingBegins
<1>2. PICK x : /\ AtTick(x, n) /\ Keeps(s, x, a) /\ r = RanNext(x)
               /\ SatOut(s, a) => SatOut(x, n)
               /\ a \in DOMAIN s.ring => x.ring[a] = s.ring[a]
    BY CatchUp
<1>3. x.next = n /\ DOMAIN x.ring = DOMAIN s.ring /\ x.absent = s.absent /\ x.newest = s.newest
    BY <1>2 DEF Keeps
<1> HIDE DEF n, a, r
<1>4. /\ Resting(r) /\ r.dirty = NoTick /\ r.next = n + 1
      /\ r.absent = x.absent /\ r.newest = x.newest
      /\ SatOut(x, n) => SatOut(r, r.next)
      /\ r.ring[n] = x.world
      /\ \A u \in DOMAIN r.ring : u # n =>
            u \in DOMAIN x.ring /\ r.ring[u] = x.ring[u] /\ r.digests[u] = x.digests[u]
      /\ \A p \in Players :
            /\ \A u \in DOMAIN x.arrived[p] : u \in DOMAIN r.arrived[p] \/ BelowRing(r, u)
            /\ \A u \in DOMAIN r.arrived[p] :
                    u \in DOMAIN x.arrived[p] /\ r.arrived[p][u] = x.arrived[p][u]
    BY <1>2, <1>3, NextRuns
<1>5. DOMAIN s.ring = RingTicks(n) /\ \A u \in DOMAIN s.ring : u \in Nat /\ u < n
    <2>1. DOMAIN s.ring = RingTicks(n)
        BY DEF Resting, Shaped, n
    <2> QED
        BY <1>1, <2>1 DEF RingTicks
<1>6. DOMAIN r.ring \subseteq DOMAIN s.ring \union {n}
    BY <1>3, <1>4
<1>7. ASSUME NEW t \in DOMAIN r.ring, t < a
      PROVE  t \in DOMAIN s.ring /\ r.ring[t] = s.ring[t] /\ r.digests[t] = s.digests[t]
    <2>1. t # n
        BY <1>1, <1>7
    <2>2. t \in DOMAIN s.ring /\ r.ring[t] = x.ring[t] /\ r.digests[t] = x.digests[t]
        BY <1>3, <1>4, <2>1
    <2> QED
        BY <1>2, <1>7, <2>2 DEF Keeps
<1>8. ASSUME NEW t \in DOMAIN r.ring \intersect DOMAIN s.ring, t = a
      PROVE  r.ring[t] = s.ring[t]
    <2>1. t # n
        BY <1>1, <1>5
    <2> QED
        BY <1>2, <1>4, <1>8, <2>1
<1>9. ASSUME NEW p \in Players, NEW t \in DOMAIN s.arrived[p]
      PROVE  t \in DOMAIN r.arrived[p] \/ BelowRing(r, t)
    <2>1. t \in DOMAIN x.arrived[p] \/ BelowRing(x, t)
        BY <1>2 DEF Keeps
    <2>2. CASE t \in DOMAIN x.arrived[p]
        BY <1>4, <2>2
    <2>3. CASE BelowRing(x, t)
        <3>1. PICK e \in DOMAIN s.ring : t < e
            BY <1>3, <2>3 DEF BelowRing
        <3>2. t \in Nat /\ e \in Nat /\ e < n
            BY <1>5 DEF Resting, Shaped, IsSession, IsJournal
        <3>3. n \in DOMAIN r.ring
            <4>1. DOMAIN r.ring = RingTicks(n + 1)
                BY <1>4 DEF Resting, Shaped
            <4> QED
                BY <1>1, <4>1, DepthAssumption DEF RingTicks
        <3>4. \A u \in DOMAIN r.ring : t < u
            BY <1>1, <1>3, <1>6, <2>3, <3>1, <3>2 DEF BelowRing
        <3> QED
            BY <3>3, <3>4 DEF BelowRing
    <2> QED
        BY <2>1, <2>2, <2>3
<1>10. ASSUME NEW p \in Players, NEW t \in DOMAIN r.arrived[p]
       PROVE  t \in DOMAIN s.arrived[p] /\ r.arrived[p][t] = s.arrived[p][t]
    BY <1>2, <1>4 DEF Keeps
<1>11. ASSUME n = 1
       PROVE  r.ring[1] = Start
    <2>1. DOMAIN x.ring = {}
        BY <1>3, <1>5, <1>11 DEF RingTicks
    <2>2. n - 1 \notin DOMAIN x.ring /\ n \notin DOMAIN x.ring
        BY <2>1
    <2>3. x.world = Start
        BY <1>2, <2>2 DEF AtTick, ChainedTo
    <2> QED
        BY <1>4, <1>11, <2>3
<1>12. SatOut(s, Due(s)) => SatOut(r, Due(r))
    BY <1>1, <1>2, <1>4 DEF Due
<1> QED
    BY <1>1, <1>3, <1>4, <1>6, <1>7, <1>8, <1>9, <1>10, <1>11, <1>12 DEF n, r

(* The row of a tick that has every input it is to play.                   *)
ArrivedRow(s, t) == [p \in Players |-> IF IsPresent(s, p, t) THEN s.arrived[p][t] ELSE Nil]

LEMMA AdvanceSteps ==
    ASSUME NEW s, Resting(s), SatOut(s, Due(s)),
           NEW t \in DOMAIN s.ring, t <= Due(s), t + 1 \in DOMAIN AdvanceOf(s).ring,
           Confirmed(s, t)
    PROVE  AdvanceOf(s).ring[t + 1] = Step(s.ring[t], ArrivedRow(s, t))
<1> DEFINE n == s.next
           a == FirstRun(s)
           r == AdvanceOf(s)
<1>1. a \in Nat /\ n \in Nat \ {0} /\ a <= n /\ a = Due(s)
    BY RestingBegins
<1>2. PICK x : /\ AtTick(x, n) /\ Keeps(s, x, a) /\ r = RanNext(x)
               /\ SatOut(s, a) => SatOut(x, n)
               /\ a \in DOMAIN s.ring => x.ring[a] = s.ring[a]
    BY CatchUp
<1>3. x.next = n /\ DOMAIN x.ring = DOMAIN s.ring
    BY <1>2 DEF Keeps
<1> HIDE DEF n, a, r
<1>4. /\ r.ring[n] = x.world
      /\ \A u \in DOMAIN r.ring : u # n => u \in DOMAIN x.ring /\ r.ring[u] = x.ring[u]
    BY <1>2, <1>3, NextRuns
<1>5. /\ t \in Nat /\ t < n /\ \A u \in DOMAIN s.ring : ~(t < t)
    <2>1. DOMAIN s.ring = RingTicks(n)
        BY DEF Resting, Shaped, n
    <2> QED
        BY <1>1, <2>1 DEF RingTicks
<1>6. x.ring[t] = s.ring[t]
    <2>1. t < a \/ t = a
        BY <1>1, <1>5
    <2> QED
        BY <1>2, <2>1 DEF Keeps
<1>7. ASSUME NEW p \in Players
      PROVE  x.used[p][t] = IF IsPresent(s, p, t) THEN s.arrived[p][t] ELSE Nil
    <2>1. CASE IsPresent(s, p, t)
        <3>1. ~BelowRing(x, t) /\ t \in DOMAIN s.arrived[p]
            BY <1>3, <1>5, <2>1 DEF BelowRing, Confirmed
        <3>2. t \in DOMAIN x.arrived[p] /\ x.arrived[p][t] = s.arrived[p][t]
            BY <1>2, <3>1 DEF Keeps
        <3> QED
            BY <1>2, <1>3, <1>5, <2>1, <3>2 DEF AtTick, PlayedTo
    <2>2. CASE ~IsPresent(s, p, t)
        <3>1. p \in DOMAIN s.absent /\ s.absent[p] \in Nat /\ ~(t < s.absent[p])
            BY <2>2 DEF IsPresent, Resting, Shaped, IsSession
        <3>2. x.absent = s.absent /\ SatOut(x, n)
            BY <1>1, <1>2 DEF Keeps
        <3> QED
            BY <1>3, <1>5, <2>2, <3>1, <3>2 DEF SatOut
    <2> QED
        BY <2>1, <2>2
<1>8. RowOf(x, t) = ArrivedRow(s, t)
    BY <1>7 DEF RowOf, ArrivedRow
<1>9. CASE t + 1 = n
    <2>1. n - 1 = t
        BY <1>1, <1>5, <1>9
    <2>2. x.world = Step(x.ring[t], RowOf(x, t))
        BY <1>2, <1>3, <2>1 DEF AtTick, ChainedTo
    <2> QED
        BY <1>4, <1>6, <1>8, <1>9, <2>2 DEF r
<1>10. CASE t + 1 # n
    <2>1. t + 1 \in DOMAIN x.ring /\ r.ring[t + 1] = x.ring[t + 1]
        BY <1>4, <1>10 DEF r
    <2>2. x.ring[t + 1] = Step(x.ring[t], RowOf(x, t))
        BY <1>2, <1>3, <1>10, <2>1 DEF AtTick, ChainedTo
    <2> QED
        BY <1>6, <1>8, <2>1, <2>2 DEF r
<1> QED
    BY <1>9, <1>10
=============================================================================
