----------------------------- MODULE NetProofs -----------------------------
(***************************************************************************)
(* What the network session promises, proved for any players, inputs,      *)
(* game, depth, slack and window, and for a match of any length; then what *)
(* Match keeps of it when players leave.                                   *)
(***************************************************************************)
EXTENDS Match, SessionLemmas, SequenceTheorems, Stepwise

-----------------------------------------------------------------------------
(* The terms the proofs are stated in (what the machines and what is in    *)
(* flight between them satisfy), and what the operators do with sessions    *)
(* and datagrams that satisfy them.                                         *)

(* Ticks a machine may run past the newest input it has of another.        *)
Leeway == Depth - Slack - 1

(* What a datagram repeats covers what pacing lets go unheard. The code's  *)
(* constants say so for depths up to 9: a machine runs Leeway ticks past   *)
(* the other's newest input, and the other as many past its own.           *)
WindowCovers == Window >= 2 * Leeway

(* What a datagram repeats reaches back to the newest input known.         *)
Covered(s, d) == d.first <= NewestOf(s, d.player) + 1

InTime == \A d \in datagrams, q \in Players : Covered(peer[q].sess, d)

Made == [q \in Players |-> peer[q].mine]

Making(made) ==
    \A q \in Players : \A t \in DOMAIN made[q] : t \in Nat \ {0} /\ made[q][t] \in Input

(* What arrived is what was made, and nothing is newer than that.          *)
Sound(s, made) ==
    /\ Resting(s)
    /\ DOMAIN s.absent = {}
    /\ \A q \in Players :
        /\ \A t \in DOMAIN s.arrived[q] : t \in DOMAIN made[q] /\ s.arrived[q][t] = made[q][t]
        /\ NewestOf(s, q) \in DOMAIN made[q] \union {0}

MachineFields == {"sess", "mine", "theirLead", "claimed", "settled", "desync"}

Machine(p) ==
    LET m == peer[p]
    IN  /\ DOMAIN m = MachineFields
        /\ m.sess.next <= MaxTick + 1
        /\ DOMAIN m.mine = 1 .. m.sess.next - 1
        /\ m.mine \in [1 .. m.sess.next - 1 -> Input]
        /\ \A t \in DOMAIN m.mine : m.mine[t] \in Plays(p, t)
        /\ m.theirLead \in [Links(p) -> Int]
        /\ Sound(m.sess, Made)
        /\ NewestOf(m.sess, p) = m.sess.next - 1
        /\ m.claimed \subseteq (1 .. MaxTick) \X Links(p)
        /\ m.settled \in Nat /\ m.desync \in Nat \union {NoTick}

(* No machine outruns what it has heard by more than the leeway.           *)
Paced(p) ==
    LET s == peer[p].sess
    IN  \A q \in Players \ {p} : s.next > 1 => s.next <= NewestOf(s, q) + Leeway + 1

DatagramFields == {"link", "to", "player", "first", "tick", "values", "lead"}

(* A datagram holds inputs its player made, as many as the window asks for.*)
Truthful(d, made) ==
    /\ DOMAIN d = DatagramFields
    /\ d.link \in Players /\ d.to \in Players /\ Linked(d.link, d.to)
    /\ d.player \in Players
    /\ d.lead \in Int
    /\ d.first \in Nat \ {0} /\ d.tick \in Nat /\ d.first <= d.tick
    /\ d.first = 1 \/ d.first + Window = d.tick + 1
    /\ DOMAIN d.values = d.first .. d.tick
    /\ \A t \in d.first .. d.tick : t \in DOMAIN made[d.player] /\ d.values[t] = made[d.player][t]

NetInv ==
    /\ peer = [p \in Players |-> peer[p]]
    /\ published = [p \in Players |-> published[p]]
    /\ read = [p \in Players |-> read[p]]
    /\ \A p \in Players : Machine(p) /\ Paced(p)
    /\ IsFiniteSet(datagrams)
    /\ \A d \in datagrams : Truthful(d, Made)

-----------------------------------------------------------------------------
(* The ticks up to u that can run again have all their inputs, and none of *)
(* them is due to.                                                         *)
Firm(s, u) ==
    /\ \A t \in DOMAIN s.ring : t <= u => Confirmed(s, t)
    /\ s.dirty = NoTick \/ u < s.dirty

(* The digests a machine published are of ticks that stay as they are.     *)
Final(p) ==
    LET m == peer[p]
    IN  /\ m.settled < m.sess.next
        /\ Firm(m.sess, m.settled)
        /\ DOMAIN published[p] \subseteq 1 .. m.settled
        /\ \A t \in DOMAIN published[p] \intersect DOMAIN m.sess.digests :
             published[p][t] = m.sess.digests[t]

(* Claims are of published ticks, each read once.                          *)
Claims(p) ==
    /\ read[p] \in [Links(p) -> 0 .. MaxTick]
    /\ \A k \in peer[p].claimed : k[1] \in DOMAIN published[k[2]] /\ k[1] <= read[p][k[2]]

(* A digest is published before the ring drops its tick.                   *)
Timely(p) ==
    /\ DOMAIN published[p] = 1 .. peer[p].settled
    /\ peer[p].settled + Depth >= peer[p].sess.next

(* A digest that was read is still claimed, or its tick is over here.      *)
Taken(p) ==
    \A q \in Links(p) : \A t \in 1 .. read[p][q] :
        <<t, q>> \in peer[p].claimed \/ Over(peer[p].sess, t)

(* The one game: the world before every tick all inputs are made for, and  *)
(* the one after.                                                          *)
IsGame(w, made) ==
    /\ w[1] = Start
    /\ \A t \in Nat \ {0} : (\A q \in Players : t \in DOMAIN made[q]) =>
        w[t + 1] = Step(w[t], [q \in Players |-> made[q][t]])

InGame(w, p) ==
    /\ OldestWorld(peer[p].sess) = w[OldestTick(peer[p].sess)]
    /\ \A t \in DOMAIN published[p] : published[p][t] = Digest(w[t + 1])
-----------------------------------------------------------------------------
(* Hearing one input.                                                      *)

(* What hearing inputs, and making one, does not take back.                *)
Grown(s, r) ==
    /\ r.next = s.next /\ r.world = s.world /\ r.ring = s.ring
    /\ r.used = s.used /\ r.digests = s.digests /\ r.absent = s.absent
    /\ \A q \in Players : DOMAIN s.arrived[q] \subseteq DOMAIN r.arrived[q]
    /\ \A q \in Players : NewestOf(s, q) <= NewestOf(r, q)
    /\ \A u \in Nat : Firm(s, u) => Firm(r, u)

LEMMA GrownTwice ==
    ASSUME NEW s, NEW r, NEW x, Grown(s, r), Grown(r, x),
           \A q \in Players : NewestOf(s, q) \in Nat /\ NewestOf(r, q) \in Nat /\ NewestOf(x, q) \in Nat
    PROVE  Grown(s, x)
<1>1. \A q \in Players : NewestOf(s, q) <= NewestOf(x, q)
    BY DEF Grown
<1> QED
    BY <1>1 DEF Grown

LEMMA SoundNumbers ==
    ASSUME NEW s, NEW made, Making(made), Sound(s, made)
    PROVE  /\ IsSession(s) /\ s.next \in Nat \ {0}
           /\ DOMAIN s.ring = RingTicks(s.next) /\ DOMAIN s.ring \subseteq Nat
           /\ \A q \in Players : NewestOf(s, q) \in Nat
BY DEF Sound, Making, Resting, Shaped, IsSession

LEMMA StillInTheRing ==
    ASSUME NEW s, s.next \in Nat \ {0}, DOMAIN s.ring = RingTicks(s.next),
           NEW t \in Nat \ {0}, t < s.next, ~BelowRing(s, t)
    PROVE  t \in DOMAIN s.ring
<1>1. s.next - 1 \in DOMAIN s.ring
    BY DepthAssumption DEF RingTicks
<1>2. PICK e \in DOMAIN s.ring : ~(t < e)
    BY <1>1 DEF BelowRing
<1>3. e \in Nat /\ e + Depth >= s.next
    BY <1>2 DEF RingTicks
<1>4. t + Depth >= s.next
    BY <1>2, <1>3, DepthAssumption
<1> QED
    BY <1>4 DEF RingTicks

LEMMA SubmitHeard ==
    ASSUME NEW s, NEW made, Making(made), Sound(s, made),
           NEW q \in Players, NEW t \in DOMAIN made[q], t <= s.next + Ahead
    PROVE  LET r == SubmitTo(s, q, t, made[q][t])
           IN  /\ Sound(r, made) /\ Grown(s, r)
               /\ t \in DOMAIN r.arrived[q]
               /\ NewestOf(r, q) = IF NewestOf(s, q) < t THEN t ELSE NewestOf(s, q)
               /\ \A x \in Players \ {q} : NewestOf(r, x) = NewestOf(s, x)
<1> DEFINE v == made[q][t]
           r == SubmitTo(s, q, t, v)
           newest == IF q \in DOMAIN s.newest /\ t < s.newest[q] THEN s.newest[q] ELSE t
           noted == [s EXCEPT !.newest = Put(@, q, newest), !.arrived[q] = Put(@, t, v)]
           changed == t \notin DOMAIN s.used[q] \/ s.used[q][t] # v
<1>1. /\ IsSession(s) /\ s.next \in Nat \ {0} /\ DOMAIN s.ring = RingTicks(s.next)
      /\ DOMAIN s.ring \subseteq Nat /\ DOMAIN s = Fields
      /\ \A x \in Players : NewestOf(s, x) \in Nat
      /\ DOMAIN s.arrived = Players
    BY SoundNumbers DEF IsSession, IsJournal
<1>2. t \in Nat \ {0} /\ v \in Input
    BY DEF Making
<1>3. ~Refused(s, q, t)
    BY <1>1, <1>2, AheadAssumption DEF Refused, IsPresent, Sound
<1>4. r = IF t < s.next /\ changed THEN MarkDirty(noted, t) ELSE noted
    BY <1>3 DEF SubmitTo
<1>5. /\ noted.newest = Put(s.newest, q, newest)
      /\ noted.arrived = [s.arrived EXCEPT ![q] = Put(@, t, v)]
      /\ noted.dirty = s.dirty /\ noted.ring = s.ring
      /\ DOMAIN noted = Fields
    BY <1>1 DEF Fields
<1> HIDE DEF noted
<1>6. r.newest = noted.newest /\ r.arrived = noted.arrived
    BY <1>4, <1>5 DEF MarkDirty, Fields
<1> HIDE DEF newest
<1>7. /\ IsSession(r)
      /\ r.next = s.next /\ r.world = s.world /\ r.ring = s.ring
      /\ r.used = s.used /\ r.digests = s.digests
      /\ r.absent = s.absent
      /\ s.dirty # NoTick => r.dirty # NoTick /\ r.dirty <= s.dirty
      /\ r.dirty = s.dirty \/ (r.dirty = t /\ t < s.next /\ ~BelowRing(s, t))
    BY <1>1, <1>2, SubmitFrame DEF r
<1>8. r.dirty = s.dirty \/ changed
    BY <1>4, <1>5
<1> HIDE DEF r, v
<1>9. /\ DOMAIN r.arrived[q] = DOMAIN s.arrived[q] \union {t}
      /\ r.arrived[q][t] = v
      /\ \A u \in DOMAIN s.arrived[q] : u # t => r.arrived[q][u] = s.arrived[q][u]
      /\ \A x \in Players \ {q} : r.arrived[x] = s.arrived[x]
    BY <1>1, <1>5, <1>6 DEF Put
<1>10. /\ NewestOf(r, q) = IF NewestOf(s, q) < t THEN t ELSE NewestOf(s, q)
       /\ \A x \in Players \ {q} : NewestOf(r, x) = NewestOf(s, x)
    <2>1. DOMAIN r.newest = DOMAIN s.newest \union {q} /\ r.newest[q] = newest
        BY <1>5, <1>6 DEF Put
    <2>2. \A x \in DOMAIN s.newest : x # q => r.newest[x] = s.newest[x]
        BY <1>5, <1>6 DEF Put
    <2>3. NewestOf(r, q) = IF NewestOf(s, q) < t THEN t ELSE NewestOf(s, q)
        BY <1>1, <1>2, <2>1 DEF NewestOf, newest
    <2> QED
        BY <2>1, <2>2, <2>3 DEF NewestOf
<1>11. \A x \in Players : \A u \in DOMAIN r.arrived[x] :
            u \in DOMAIN made[x] /\ r.arrived[x][u] = made[x][u]
    BY <1>9 DEF Sound, v
<1>12. \A x \in Players : NewestOf(r, x) \in DOMAIN made[x] \union {0}
    BY <1>10 DEF Sound
<1>13. Resting(r)
    <2>1. Shaped(r)
        BY <1>1, <1>7 DEF Sound, Resting, Shaped
    <2>2. r.dirty # NoTick => r.dirty \in DOMAIN r.ring
        <3>1. ASSUME t < s.next, ~BelowRing(s, t)
              PROVE  t \in DOMAIN s.ring
            BY <1>1, <1>2, <3>1, StillInTheRing
        <3> QED
            BY <1>7, <3>1 DEF Sound, Resting
    <2>3. ChainedTo(r, r.next)
        BY <1>7 DEF Sound, Resting, ChainedTo, RowOf
    <2>4. PlayedTo(r, Due(r))
        <3> SUFFICES ASSUME NEW x \in Players, NEW u \in DOMAIN r.ring \intersect DOMAIN r.arrived[x],
                            u < Due(r)
                     PROVE  r.used[x][u] = r.arrived[x][u]
            BY DEF PlayedTo
        <3>1. u \in Nat /\ u < s.next /\ u \in DOMAIN s.ring
            BY <1>1, <1>7 DEF RingTicks
        <3>2. u < Due(s)
            <4>1. s.dirty \in Nat \union {NoTick} /\ r.dirty \in Nat \union {NoTick}
                BY <1>1, <1>7 DEF IsSession
            <4>2. CASE s.dirty = NoTick
                BY <3>1, <4>2 DEF Due
            <4>3. CASE s.dirty # NoTick
                <5>1. Due(r) = r.dirty /\ r.dirty \in Nat /\ s.dirty \in Nat
                    BY <1>7, <4>1, <4>3 DEF Due
                <5> QED
                    BY <1>7, <3>1, <4>3, <5>1 DEF Due
            <4> QED
                BY <4>2, <4>3
        <3>3. \A y \in DOMAIN s.arrived[x] : y = u => s.used[x][y] = s.arrived[x][y]
            BY <3>1, <3>2 DEF Sound, Resting, PlayedTo
        <3>4. CASE x = q /\ u = t
            <4>1. ~changed
                <5> SUFFICES ASSUME changed PROVE FALSE
                    OBVIOUS
                <5>1. r = MarkDirty(noted, t)
                    BY <1>4, <3>1, <3>4 DEF r
                <5>2. ~BelowRing(noted, t)
                    BY <1>1, <1>5, <3>1, <3>4 DEF BelowRing
                <5>3. r.dirty = IF s.dirty = NoTick \/ t < s.dirty THEN t ELSE s.dirty
                    BY <1>5, <5>1, <5>2 DEF MarkDirty, Fields
                <5>4. s.dirty = NoTick \/ t < s.dirty
                    BY <3>2, <3>4 DEF Due
                <5>5. Due(r) = t
                    BY <1>2, <5>3, <5>4 DEF Due, NoTick
                <5> QED
                    BY <3>1, <3>4, <5>5
            <4> QED
                BY <1>7, <1>9, <3>4, <4>1
        <3>5. CASE ~(x = q /\ u = t)
            <4>1. u \in DOMAIN s.arrived[x] /\ r.arrived[x][u] = s.arrived[x][u]
                BY <1>9, <3>5
            <4> QED
                BY <1>7, <3>3, <4>1
        <3> QED
            BY <3>4, <3>5
    <2> QED
        BY <2>1, <2>2, <2>3, <2>4 DEF Resting
<1>14. Sound(r, made)
    BY <1>7, <1>11, <1>12, <1>13 DEF Sound
<1>15. ASSUME NEW u \in Nat, Firm(s, u)
       PROVE  Firm(r, u)
    <2>1. \A y \in DOMAIN r.ring : y <= u => Confirmed(r, y)
        <3>1. \A x \in Players : DOMAIN s.arrived[x] \subseteq DOMAIN r.arrived[x]
            BY <1>9
        <3> QED
            BY <1>7, <1>15, <3>1 DEF Firm, Confirmed, IsPresent
    <2>2. r.dirty = NoTick \/ u < r.dirty
        <3> SUFFICES ASSUME r.dirty # s.dirty, ~(u < t) PROVE FALSE
            BY <1>7, <1>15 DEF Firm
        <3>1. r.dirty = t /\ t < s.next /\ ~BelowRing(s, t) /\ changed /\ t <= u
            BY <1>2, <1>7, <1>8
        <3>2. t \in DOMAIN s.ring
            BY <1>1, <1>2, <3>1, StillInTheRing
        <3>3. t \in DOMAIN s.arrived[q]
            BY <1>15, <3>1, <3>2 DEF Firm, Confirmed, IsPresent, Sound
        <3>4. s.arrived[q][t] = v
            BY <3>3 DEF Sound, v
        <3>5. t < Due(s)
            <4>1. s.dirty \in Nat \union {NoTick}
                BY <1>1 DEF IsSession
            <4> QED
                BY <1>2, <1>15, <3>1, <4>1 DEF Firm, Due
        <3>6. s.used[q][t] = v
            BY <3>2, <3>3, <3>4, <3>5 DEF Sound, Resting, PlayedTo
        <3>7. t \in DOMAIN s.used[q]
            BY <1>1, <3>2 DEF Sound, Resting, Shaped
        <3> QED
            BY <3>1, <3>6, <3>7
    <2> QED
        BY <2>1, <2>2 DEF Firm
<1>16. \A x \in Players : DOMAIN s.arrived[x] \subseteq DOMAIN r.arrived[x]
    BY <1>9
<1>17. \A x \in Players : NewestOf(s, x) <= NewestOf(r, x)
    BY <1>1, <1>2, <1>10
<1>18. Grown(s, r)
    BY <1>7, <1>15, <1>16, <1>17 DEF Grown
<1> QED
    BY <1>9, <1>10, <1>14, <1>18 DEF r, v
-----------------------------------------------------------------------------
(* Hearing a datagram: a session for each tick it has an input for.        *)
Feeding(f, s, d, n) ==
    f = [t \in d.first - 1 .. n |->
            IF t = d.first - 1 THEN s ELSE SubmitTo(f[t - 1], d.player, t, d.values[t])]

LEMMA FeedingExists ==
    ASSUME NEW s, NEW d, d.first \in Nat \ {0}, NEW n \in Nat, d.first - 1 <= n
    PROVE  \E f : Feeding(f, s, d, n)
<1> DEFINE a == d.first - 1
           Fed(f, t) == IF t = a THEN s ELSE SubmitTo(f[t - 1], d.player, t, d.values[t])
           Bad == {k \in Nat : a <= k /\ ~\E f : Feeding(f, s, d, k)}
<1> SUFFICES ASSUME Bad # {} PROVE FALSE
    OBVIOUS
<1>1. a \in Nat
    OBVIOUS
<1>2. PICK k \in Bad : \A x \in Bad : k <= x
    <2>1. Min(Bad) \in Bad /\ \A x \in Bad : Min(Bad) <= x
        BY MinOfNats
    <2> QED
        BY <2>1
<1>3. CASE k = a
    <2> DEFINE f == [t \in a .. k |-> s]
    <2>1. f = [t \in a .. k |-> Fed(f, t)]
        BY <1>1, <1>3
    <2>2. Feeding(f, s, d, k)
        BY <2>1 DEF Feeding
    <2> QED
        BY <1>2, <2>2
<1>4. CASE k # a
    <2>1. k \in Nat /\ k - 1 \in Nat /\ a <= k - 1 /\ k - 1 \notin Bad
        BY <1>1, <1>2, <1>4
    <2>2. PICK g : Feeding(g, s, d, k - 1)
        BY <2>1
    <2> DEFINE last == SubmitTo(g[k - 1], d.player, k, d.values[k])
               f == [t \in a .. k |-> IF t = k THEN last ELSE g[t]]
    <2>3. \A t \in a .. k - 1 : g[t] = Fed(g, t)
        BY <2>2 DEF Feeding
    <2>4. f[k] = last /\ f[k - 1] = g[k - 1]
        BY <1>1, <2>1
    <2>5. ASSUME NEW t \in a .. k - 1
          PROVE  f[t] = Fed(f, t)
        <3>1. f[t] = g[t] /\ (t # a => f[t - 1] = g[t - 1])
            BY <1>1, <2>1
        <3> HIDE DEF f
        <3> QED
            BY <2>3, <3>1
    <2>6. \A t \in a .. k : t = k \/ t \in a .. k - 1
        BY <1>1, <2>1
    <2>7. f = [t \in a .. k |-> f[t]]
        OBVIOUS
    <2> HIDE DEF f
    <2>8. \A t \in a .. k : f[t] = Fed(f, t)
        BY <1>4, <2>4, <2>5, <2>6
    <2> HIDE DEF a
    <2>9. Feeding(f, s, d, k)
        BY <2>7, <2>8 DEF Feeding, a
    <2> QED
        BY <1>2, <2>9
<1> QED
    BY <1>3, <1>4

LEMMA DatagramFeeds ==
    ASSUME NEW m, DOMAIN m = MachineFields, NEW d, d.first \in Nat \ {0}, d.tick \in Nat, d.first <= d.tick
    PROVE  \E f : Feeding(f, m.sess, d, d.tick) /\ HearDatagram(m, d).sess = f[d.tick]
<1> DEFINE F(f) == f = [t \in d.first - 1 .. d.tick |->
                          IF t = d.first - 1 THEN m.sess
                          ELSE Bind(f[t - 1], LAMBDA s : SubmitTo(s, d.player, t, d.values[t]))]
           fed == CHOOSE f : F(f)
           n == HearDatagram(m, d)
<1>1. \A x, t : (CHOOSE y \in {SubmitTo(z, d.player, t, d.values[t]) : z \in {x}} : TRUE)
                  = SubmitTo(x, d.player, t, d.values[t])
    OBVIOUS
<1>2. \A f : F(f) <=> Feeding(f, m.sess, d, d.tick)
    BY <1>1 DEF Feeding, Bind
<1>3. n = [m EXCEPT !.sess = fed[d.tick],
                    !.theirLead = IF d.link = d.player THEN [@ EXCEPT ![d.link] = d.lead] ELSE @]
    BY DEF HearDatagram, Bind
<1> HIDE DEF F, n
<1>4. \E f : Feeding(f, m.sess, d, d.tick)
    <2>1. d.first - 1 <= d.tick
        OBVIOUS
    <2> DEFINE s == m.sess
    <2> HIDE DEF s
    <2>2. \E f : Feeding(f, s, d, d.tick)
        BY <2>1, FeedingExists
    <2> QED
        BY <2>2 DEF s
<1>5. F(fed)
    BY <1>2, <1>4
<1> HIDE DEF fed
<1>6. n.sess = fed[d.tick] /\ Feeding(fed, m.sess, d, d.tick)
    BY <1>2, <1>3, <1>5 DEF MachineFields
<1> QED
    BY <1>6 DEF n

LEMMA DatagramFrame ==
    ASSUME NEW m, DOMAIN m = MachineFields, NEW d, d.lead \in Int, NEW links, m.theirLead \in [links -> Int]
    PROVE  LET n == HearDatagram(m, d)
           IN  /\ DOMAIN n = MachineFields
               /\ n.mine = m.mine /\ n.claimed = m.claimed
               /\ n.settled = m.settled /\ n.desync = m.desync
               /\ n.theirLead \in [links -> Int]
BY DEF HearDatagram, Bind, MachineFields

(* What a datagram adds to a session: its inputs, and nothing out of turn. *)
LEMMA DatagramHeard ==
    ASSUME NEW m, DOMAIN m = MachineFields, NEW made, Making(made), Sound(m.sess, made),
           NEW d, Truthful(d, made), d.tick <= m.sess.next + Ahead
    PROVE  LET s == m.sess
               r == HearDatagram(m, d).sess
           IN  /\ Sound(r, made) /\ Grown(s, r)
               /\ d.first .. d.tick \subseteq DOMAIN r.arrived[d.player]
               /\ NewestOf(r, d.player) =
                    IF NewestOf(s, d.player) < d.tick THEN d.tick ELSE NewestOf(s, d.player)
               /\ \A x \in Players \ {d.player} : NewestOf(r, x) = NewestOf(s, x)
<1> DEFINE s == m.sess
           q == d.player
           a == d.first - 1
           b == d.tick
<1>1. /\ q \in Players /\ d.first \in Nat \ {0} /\ b \in Nat /\ d.first <= b
      /\ a \in Nat /\ a < b /\ d.first = a + 1
      /\ \A t \in d.first .. b : t \in DOMAIN made[q] /\ d.values[t] = made[q][t]
    BY DEF Truthful
<1>2. PICK f : Feeding(f, s, d, b) /\ HearDatagram(m, d).sess = f[b]
    <2>1. d.first \in Nat \ {0} /\ d.tick \in Nat /\ d.first <= d.tick
        BY <1>1
    <2> HIDE DEF s, q, a, b
    <2>2. \E f : Feeding(f, m.sess, d, d.tick) /\ HearDatagram(m, d).sess = f[d.tick]
        BY <2>1, DatagramFeeds
    <2> QED
        BY <2>2 DEF s, b
<1>3. s.next \in Nat /\ Sound(s, made) /\ b <= s.next + Ahead /\ IsSession(s)
    BY SoundNumbers
<1> HIDE DEF s, q, a, b
<1>4. f[a] = s /\ \A t \in a .. b - 1 : f[t + 1] = SubmitTo(f[t], q, t + 1, made[q][t + 1])
    <2>1. \A t \in a .. b : f[t] = IF t = a THEN s ELSE SubmitTo(f[t - 1], q, t, d.values[t])
        BY <1>2 DEF Feeding, a, b, q
    <2>2. \A t \in a .. b - 1 : /\ t + 1 \in a .. b /\ t + 1 # a /\ t + 1 - 1 = t
                                /\ t + 1 \in d.first .. b
        BY <1>1
    <2>3. a \in a .. b
        BY <1>1
    <2> QED
        BY <1>1, <2>1, <2>2, <2>3
<1> DEFINE Newer(t) == IF t = a THEN NewestOf(s, q)
                       ELSE IF NewestOf(s, q) < t THEN t ELSE NewestOf(s, q)
           Good(t) == /\ Sound(f[t], made) /\ Grown(s, f[t])
                      /\ \A u \in d.first .. t : u \in DOMAIN f[t].arrived[q]
                      /\ NewestOf(f[t], q) = Newer(t)
                      /\ \A x \in Players \ {q} : NewestOf(f[t], x) = NewestOf(s, x)
           Bad == {t \in a .. b : ~Good(t)}
<1>5. \A x \in Players : NewestOf(s, x) \in Nat
    BY <1>3, SoundNumbers
<1>6. Good(a)
    <2>1. d.first .. a = {}
        BY <1>1
    <2>2. \A x \in Players : NewestOf(s, x) <= NewestOf(s, x)
        BY <1>5
    <2> QED
        BY <1>3, <1>4, <2>1, <2>2 DEF Grown
<1>7. Bad = {}
    <2> SUFFICES ASSUME Bad # {} PROVE FALSE
        OBVIOUS
    <2>1. Bad \in SUBSET Nat
        BY <1>1
    <2>2. PICK t \in Bad : \A x \in Bad : t <= x
        BY <2>1, MinOfNats
    <2>3. t \in Nat /\ a <= t /\ t <= b /\ ~Good(t) /\ t # a
        BY <1>1, <1>6, <2>2
    <2> DEFINE u == t - 1
    <2>4. /\ u \in Nat /\ a <= u /\ u < b /\ u + 1 = t /\ u \in a .. b - 1
          /\ u \in a .. b /\ t \in d.first .. b
        BY <1>1, <2>3
    <2>5. Good(u)
        BY <2>2, <2>3, <2>4
    <2> HIDE DEF u
    <2> DEFINE x == f[u]
               r == f[t]
    <2>6. r = SubmitTo(x, q, t, made[q][t])
        BY <1>4, <2>4
    <2>7. x.next = s.next /\ t <= x.next + Ahead /\ t \in DOMAIN made[q]
        <3>1. t <= s.next + Ahead
            BY <1>1, <1>3, <2>3, AheadAssumption
        <3> QED
            BY <1>1, <2>4, <2>5, <3>1 DEF Grown
    <2>8. Sound(x, made) /\ Grown(s, x)
        BY <2>5
    <2> HIDE DEF x, r
    <2>9. /\ Sound(r, made) /\ Grown(x, r)
          /\ t \in DOMAIN r.arrived[q]
          /\ NewestOf(r, q) = IF NewestOf(x, q) < t THEN t ELSE NewestOf(x, q)
          /\ \A y \in Players \ {q} : NewestOf(r, y) = NewestOf(x, y)
        BY <1>1, <2>6, <2>7, <2>8, SubmitHeard
    <2>10. Grown(s, r)
        <3>1. \A y \in Players : NewestOf(x, y) \in Nat /\ NewestOf(r, y) \in Nat
            BY <2>8, <2>9, SoundNumbers
        <3> QED
            BY <1>5, <2>8, <2>9, <3>1, GrownTwice
    <2>11. \A y \in d.first .. t : y \in DOMAIN r.arrived[q]
        <3>1. \A y \in d.first .. t : y = t \/ y \in d.first .. u
            BY <1>1, <2>4
        <3>2. \A y \in d.first .. u : y \in DOMAIN x.arrived[q]
            BY <2>5 DEF x
        <3> QED
            BY <1>1, <2>9, <3>1, <3>2 DEF Grown
    <2>12. NewestOf(r, q) = Newer(t)
        <3>1. NewestOf(x, q) = Newer(u)
            BY <2>5 DEF x
        <3> QED
            BY <1>1, <1>5, <2>3, <2>4, <2>9, <3>1
    <2>13. \A y \in Players \ {q} : NewestOf(r, y) = NewestOf(s, y)
        BY <2>5, <2>9 DEF x
    <2> QED
        BY <2>3, <2>9, <2>10, <2>11, <2>12, <2>13 DEF r
<1>8. b \in a .. b /\ b # a
    BY <1>1
<1>9. Good(b)
    BY <1>7, <1>8
<1> QED
    BY <1>2, <1>8, <1>9 DEF s, q, b

(* No input is missing behind a newer one, and a datagram that reaches     *)
(* back to the newest input known leaves it so.                            *)
Gapless(s) ==
    \A q \in Players : \A t \in 1 .. NewestOf(s, q) : BelowRing(s, t) \/ t \in DOMAIN s.arrived[q]

LEMMA CoveredLeavesNoGap ==
    ASSUME NEW m, DOMAIN m = MachineFields, NEW made, Making(made), Sound(m.sess, made),
           NEW d, Truthful(d, made), d.tick <= m.sess.next + Ahead,
           Gapless(m.sess), Covered(m.sess, d)
    PROVE  Gapless(HearDatagram(m, d).sess)
<1> DEFINE s == m.sess
           r == HearDatagram(m, d).sess
           q == d.player
<1>1. /\ Grown(s, r)
      /\ d.first .. d.tick \subseteq DOMAIN r.arrived[q]
      /\ NewestOf(r, q) = IF NewestOf(s, q) < d.tick THEN d.tick ELSE NewestOf(s, q)
      /\ \A x \in Players \ {q} : NewestOf(r, x) = NewestOf(s, x)
    BY DatagramHeard
<1>2. /\ d.first \in Nat \ {0} /\ d.tick \in Nat /\ q \in Players
      /\ \A x \in Players : NewestOf(s, x) \in Nat
    BY SoundNumbers DEF Truthful
<1>3. Gapless(s) /\ d.first <= NewestOf(s, q) + 1
    BY DEF Covered
<1> HIDE DEF s, r, q
<1>4. \A t : BelowRing(r, t) <=> BelowRing(s, t)
    BY <1>1 DEF Grown, BelowRing
<1>5. ASSUME NEW x \in Players, NEW t \in 1 .. NewestOf(r, x)
      PROVE  BelowRing(r, t) \/ t \in DOMAIN r.arrived[x]
    <2>1. CASE t \in 1 .. NewestOf(s, x)
        BY <1>1, <1>3, <1>4, <2>1 DEF Gapless, Grown
    <2>2. CASE t \notin 1 .. NewestOf(s, x)
        <3>1. x = q
            BY <1>1, <2>2
        <3>2. t \in d.first .. d.tick
            BY <1>1, <1>2, <1>3, <2>2, <3>1
        <3> QED
            BY <1>1, <3>1, <3>2
    <2> QED
        BY <2>1, <2>2
<1> QED
    BY <1>5 DEF Gapless, r

-----------------------------------------------------------------------------
(* Hearing what has come, datagram by datagram.                            *)
Stepping(f, m, heard, n) ==
    f = [i \in 0 .. n |-> IF i = 0 THEN m ELSE HearDatagram(f[i - 1], heard[i])]

LEMMA SteppingExists ==
    ASSUME NEW m, NEW heard, NEW n \in Nat
    PROVE  \E f : Stepping(f, m, heard, n)
<1> DEFINE Next1(f, i) == IF i = 0 THEN m ELSE HearDatagram(f[i - 1], heard[i])
           Bad == {k \in Nat : ~\E f : Stepping(f, m, heard, k)}
<1> SUFFICES ASSUME Bad # {} PROVE FALSE
    OBVIOUS
<1>1. PICK k \in Bad : \A x \in Bad : k <= x
    <2>1. Min(Bad) \in Bad /\ \A x \in Bad : Min(Bad) <= x
        BY MinOfNats
    <2> QED
        BY <2>1
<1>2. CASE k = 0
    <2> DEFINE f == [i \in 0 .. k |-> m]
    <2>1. f = [i \in 0 .. k |-> Next1(f, i)]
        BY <1>2
    <2>2. Stepping(f, m, heard, k)
        BY <2>1 DEF Stepping
    <2> QED
        BY <1>1, <2>2
<1>3. CASE k # 0
    <2>1. k \in Nat /\ k - 1 \in Nat /\ k - 1 \notin Bad
        BY <1>1, <1>3
    <2>2. PICK g : Stepping(g, m, heard, k - 1)
        BY <2>1
    <2> DEFINE last == HearDatagram(g[k - 1], heard[k])
               f == [i \in 0 .. k |-> IF i = k THEN last ELSE g[i]]
    <2>3. \A i \in 0 .. k - 1 : g[i] = Next1(g, i)
        BY <2>2 DEF Stepping
    <2>4. f[k] = last /\ f[k - 1] = g[k - 1]
        BY <2>1
    <2>5. ASSUME NEW i \in 0 .. k - 1
          PROVE  f[i] = Next1(f, i)
        <3>1. f[i] = g[i] /\ (i # 0 => f[i - 1] = g[i - 1])
            BY <2>1
        <3> HIDE DEF f
        <3> QED
            BY <2>3, <3>1
    <2>6. \A i \in 0 .. k : i = k \/ i \in 0 .. k - 1
        BY <2>1
    <2>7. f = [i \in 0 .. k |-> f[i]]
        OBVIOUS
    <2> HIDE DEF f
    <2>8. \A i \in 0 .. k : f[i] = Next1(f, i)
        BY <1>3, <2>4, <2>5, <2>6
    <2>9. Stepping(f, m, heard, k)
        BY <2>7, <2>8 DEF Stepping
    <2> QED
        BY <1>1, <2>9
<1> QED
    BY <1>2, <1>3

LEMMA DatagramsStep ==
    ASSUME NEW m, NEW heard, Len(heard) \in Nat
    PROVE  \E f : Stepping(f, m, heard, Len(heard)) /\ HearDatagrams(m, heard) = f[Len(heard)]
<1> DEFINE F(f) == f = [i \in 0 .. Len(heard) |->
                          IF i = 0 THEN m ELSE Bind(f[i - 1], LAMBDA n : HearDatagram(n, heard[i]))]
           came == CHOOSE f : F(f)
<1>1. \A x, i : (CHOOSE y \in {HearDatagram(z, heard[i]) : z \in {x}} : TRUE) = HearDatagram(x, heard[i])
    OBVIOUS
<1>2. \A f : F(f) <=> Stepping(f, m, heard, Len(heard))
    BY <1>1 DEF Stepping, Bind
<1>3. HearDatagrams(m, heard) = came[Len(heard)]
    BY DEF HearDatagrams, Bind
<1> HIDE DEF F
<1>4. \E f : Stepping(f, m, heard, Len(heard))
    BY SteppingExists
<1>5. F(came)
    BY <1>2, <1>4
<1> HIDE DEF came
<1> QED
    BY <1>2, <1>3, <1>5

LEMMA DatagramsHeard ==
    ASSUME NEW m, DOMAIN m = MachineFields, NEW links, m.theirLead \in [links -> Int],
           NEW made, Making(made), Sound(m.sess, made),
           NEW heard, Len(heard) \in Nat,
           \A i \in 1 .. Len(heard) :
                Truthful(heard[i], made) /\ heard[i].tick <= m.sess.next + Ahead
    PROVE  LET n == HearDatagrams(m, heard)
           IN  /\ DOMAIN n = MachineFields
               /\ n.mine = m.mine /\ n.claimed = m.claimed
               /\ n.settled = m.settled /\ n.desync = m.desync
               /\ n.theirLead \in [links -> Int]
               /\ Sound(n.sess, made) /\ Grown(m.sess, n.sess)
               /\ Gapless(m.sess) /\ (\A i \in 1 .. Len(heard) : Covered(m.sess, heard[i]))
                    => Gapless(n.sess)
<1> DEFINE last == Len(heard)
           Told == Gapless(m.sess) /\ (\A i \in 1 .. last : Covered(m.sess, heard[i]))
<1>1. PICK f : Stepping(f, m, heard, last) /\ HearDatagrams(m, heard) = f[last]
    BY DatagramsStep
<1>2. f[0] = m /\ \A i \in 0 .. last - 1 : f[i + 1] = HearDatagram(f[i], heard[i + 1])
    <2>1. \A i \in 0 .. last : f[i] = IF i = 0 THEN m ELSE HearDatagram(f[i - 1], heard[i])
        BY <1>1 DEF Stepping
    <2>2. \A i \in 0 .. last - 1 : i + 1 \in 0 .. last /\ i + 1 # 0 /\ i + 1 - 1 = i
        OBVIOUS
    <2>3. 0 \in 0 .. last
        OBVIOUS
    <2> QED
        BY <2>1, <2>2, <2>3
<1>3. \A x \in Players : NewestOf(m.sess, x) \in Nat
    BY SoundNumbers
<1> DEFINE Good(i) == /\ DOMAIN f[i] = MachineFields
                      /\ f[i].mine = m.mine /\ f[i].claimed = m.claimed
                      /\ f[i].settled = m.settled /\ f[i].desync = m.desync
                      /\ f[i].theirLead \in [links -> Int]
                      /\ Sound(f[i].sess, made) /\ Grown(m.sess, f[i].sess)
                      /\ Told => Gapless(f[i].sess)
           Bad == {i \in 0 .. last : ~Good(i)}
<1>4. Good(0)
    <2>1. \A x \in Players : NewestOf(m.sess, x) <= NewestOf(m.sess, x)
        BY <1>3
    <2>2. Grown(m.sess, m.sess)
        BY <2>1 DEF Grown
    <2> QED
        BY <1>2, <2>2
<1> HIDE DEF Told
<1>5. Bad = {}
    <2> SUFFICES ASSUME Bad # {} PROVE FALSE
        OBVIOUS
    <2>1. Bad \in SUBSET Nat
        OBVIOUS
    <2>2. PICK i \in Bad : \A x \in Bad : i <= x
        BY <2>1, MinOfNats
    <2>3. i \in Nat /\ i <= last /\ ~Good(i) /\ i # 0
        <3> HIDE DEF Good
        <3>1. i \in 0 .. last /\ ~Good(i)
            OBVIOUS
        <3> QED
            BY <1>4, <3>1
    <2> DEFINE j == i - 1
    <2>4. j \in Nat /\ j < last /\ j + 1 = i /\ j \in 0 .. last - 1 /\ j \in 0 .. last /\ i \in 1 .. last
        BY <2>3
    <2>5. Good(j)
        BY <2>2, <2>3, <2>4
    <2> HIDE DEF j
    <2> DEFINE x == f[j]
               n == f[i]
               d == heard[i]
    <2>6. n = HearDatagram(x, d)
        BY <1>2, <2>4
    <2>7. /\ DOMAIN x = MachineFields /\ x.theirLead \in [links -> Int]
          /\ Sound(x.sess, made) /\ Grown(m.sess, x.sess)
          /\ x.mine = m.mine /\ x.claimed = m.claimed /\ x.settled = m.settled /\ x.desync = m.desync
          /\ Told => Gapless(x.sess)
        BY <2>5
    <2>8. Truthful(d, made) /\ d.tick <= x.sess.next + Ahead
        BY <2>4, <2>7 DEF Grown
    <2>9. Told => Covered(x.sess, d)
        <3> SUFFICES ASSUME Told PROVE Covered(x.sess, d)
            OBVIOUS
        <3>1. Covered(m.sess, d)
            BY <2>4 DEF Told
        <3>2. d.player \in Players /\ d.first \in Nat
            BY <2>8 DEF Truthful
        <3>3. /\ NewestOf(m.sess, d.player) <= NewestOf(x.sess, d.player)
              /\ NewestOf(x.sess, d.player) \in Nat
            BY <2>7, <3>2, SoundNumbers DEF Grown
        <3> QED
            BY <1>3, <3>1, <3>2, <3>3 DEF Covered
    <2> HIDE DEF x, n, d
    <2>10. /\ DOMAIN n = MachineFields
           /\ n.mine = x.mine /\ n.claimed = x.claimed
           /\ n.settled = x.settled /\ n.desync = x.desync
           /\ n.theirLead \in [links -> Int]
        <3>1. d.lead \in Int
            BY <2>8 DEF Truthful
        <3> QED
            BY <2>6, <2>7, <3>1, DatagramFrame
    <2>11. Sound(n.sess, made) /\ Grown(x.sess, n.sess)
        BY <2>6, <2>7, <2>8, DatagramHeard
    <2>12. Grown(m.sess, n.sess)
        <3>1. \A y \in Players : NewestOf(x.sess, y) \in Nat /\ NewestOf(n.sess, y) \in Nat
            BY <2>7, <2>11, SoundNumbers
        <3> QED
            BY <1>3, <2>7, <2>11, <3>1, GrownTwice
    <2>13. Told => Gapless(n.sess)
        BY <2>6, <2>7, <2>8, <2>9, CoveredLeavesNoGap
    <2> QED
        BY <2>3, <2>7, <2>10, <2>11, <2>12, <2>13 DEF n
<1>6. last \in 0 .. last
    OBVIOUS
<1>7. Good(last)
    BY <1>5, <1>6
<1> QED
    BY <1>1, <1>7 DEF Told
-----------------------------------------------------------------------------
(* What pacing makes of what is in flight.                                 *)
LEMMA InboxesAreFinite ==
    ASSUME IsFiniteSet(datagrams), NEW p, NEW heard \in Arrivals(p)
    PROVE  /\ Len(heard) \in Nat
           /\ \A i \in 1 .. Len(heard) : heard[i] \in datagrams
           /\ ToSet(heard) \subseteq Inbox(p) /\ Inbox(p) \subseteq datagrams
<1>1. Inbox(p) \subseteq datagrams
    BY DEF Inbox
<1>2. PICK S \in SUBSET Inbox(p) : heard \in SetToSeqs(S)
    BY DEF Arrivals, SetToAllKPermutations
<1>3. IsFiniteSet(S)
    BY <1>1, <1>2, FS_Subset
<1>4. Cardinality(S) \in Nat
    BY <1>3, FS_CardinalityType
<1>5. heard \in [1 .. Cardinality(S) -> S]
    BY <1>2 DEF SetToSeqs
<1>6. Len(heard) = Cardinality(S) /\ heard \in Seq(S)
    BY <1>4, <1>5
<1> QED
    BY <1>1, <1>2, <1>4, <1>5, <1>6 DEF ToSet

LEMMA MadeInTime ==
    ASSUME \A p \in Players :
            /\ peer[p].sess.next \in Nat \ {0} /\ peer[p].sess.next <= MaxTick + 1
            /\ DOMAIN peer[p].mine = 1 .. peer[p].sess.next - 1
            /\ \A t \in DOMAIN peer[p].mine : peer[p].mine[t] \in Plays(p, t)
    PROVE  /\ Making(Made)
           /\ \A p \in Players : /\ Made[p] = peer[p].mine
                                 /\ DOMAIN Made[p] = 1 .. peer[p].sess.next - 1
<1>1. \A p \in Players : /\ Made[p] = peer[p].mine
                         /\ DOMAIN Made[p] = 1 .. peer[p].sess.next - 1
    BY DEF Made
<1>2. ASSUME NEW p \in Players, NEW t \in DOMAIN Made[p]
      PROVE  t \in Nat \ {0} /\ Made[p][t] \in Input
    <2>1. t \in 1 .. MaxTick /\ peer[p].mine[t] \in Plays(p, t)
        BY <1>1, BoundAssumption
    <2> QED
        BY <1>1, <2>1, PlaysAssumption
<1> QED
    BY <1>1, <1>2 DEF Making

LEMMA MadeIsMaking ==
    ASSUME NetInv
    PROVE  /\ Making(Made)
           /\ \A p \in Players : /\ Made[p] = peer[p].mine
                                 /\ DOMAIN Made[p] = 1 .. peer[p].sess.next - 1
                                 /\ peer[p].sess.next \in Nat \ {0}
<1>1. \A p \in Players :
        /\ peer[p].sess.next \in Nat \ {0} /\ peer[p].sess.next <= MaxTick + 1
        /\ DOMAIN peer[p].mine = 1 .. peer[p].sess.next - 1
        /\ \A t \in DOMAIN peer[p].mine : peer[p].mine[t] \in Plays(p, t)
    BY DEF NetInv, Machine, Sound, Resting, Shaped, IsSession
<1> QED
    BY <1>1, MadeInTime

LEMMA NewestIsMade ==
    ASSUME NetInv, NEW p \in Players, NEW q \in Players
    PROVE  LET s == peer[p].sess
           IN  /\ s.next \in Nat \ {0} /\ NewestOf(s, q) \in Nat
               /\ NewestOf(s, q) <= peer[q].sess.next - 1
               /\ q = p => NewestOf(s, q) = s.next - 1
               /\ q # p /\ s.next > 1 => s.next <= NewestOf(s, q) + Leeway + 1
<1>1. Machine(p) /\ Paced(p)
    BY DEF NetInv
<1>2. /\ peer[p].sess.next \in Nat \ {0} /\ peer[q].sess.next \in Nat \ {0}
      /\ DOMAIN Made[q] = 1 .. peer[q].sess.next - 1
    BY MadeIsMaking
<1>3. NewestOf(peer[p].sess, q) \in (1 .. peer[q].sess.next - 1) \union {0}
    BY <1>1, <1>2 DEF Machine, Sound
<1>4. q = p => NewestOf(peer[p].sess, q) = peer[p].sess.next - 1
    BY <1>1 DEF Machine
<1>5. q # p /\ peer[p].sess.next > 1 => peer[p].sess.next <= NewestOf(peer[p].sess, q) + Leeway + 1
    BY <1>1 DEF Paced
<1> QED
    BY <1>2, <1>3, <1>4, <1>5

(* No datagram is refused: neither side is far enough behind.              *)
LEMMA DatagramsAreHeard ==
    ASSUME NetInv, NEW p \in Players, NEW d \in datagrams
    PROVE  d.tick <= peer[p].sess.next + Ahead
<1> DEFINE a == d.player
           mine == peer[p].sess.next
           theirs == peer[a].sess.next
           heard == NewestOf(peer[p].sess, a)
           back == NewestOf(peer[a].sess, p)
<1>1. Truthful(d, Made)
    BY DEF NetInv
<1>2. /\ a \in Players /\ d.first \in Nat \ {0} /\ d.tick \in Nat /\ d.first <= d.tick
      /\ d.first = 1 \/ d.first + Window = d.tick + 1
    BY <1>1 DEF Truthful
<1>3. d.tick <= theirs - 1
    <2>1. d.tick \in d.first .. d.tick
        BY <1>2
    <2>2. d.tick \in DOMAIN Made[a]
        BY <1>1, <2>1 DEF Truthful
    <2> QED
        BY <1>2, <2>2, MadeIsMaking
<1>4. /\ mine \in Nat \ {0} /\ heard \in Nat /\ heard <= theirs - 1
      /\ a = p => heard = mine - 1
      /\ a # p /\ mine > 1 => mine <= heard + Leeway + 1
    BY <1>2, NewestIsMade
<1>5. /\ theirs \in Nat \ {0} /\ back \in Nat /\ back <= mine - 1
      /\ a # p /\ theirs > 1 => theirs <= back + Leeway + 1
    BY <1>2, NewestIsMade
<1>6. theirs > 1
    BY <1>2, <1>3, <1>5
<1>7. /\ Leeway \in Int /\ Leeway < Depth /\ Depth <= Ahead /\ Depth \in Nat /\ Ahead \in Nat
      /\ Window \in Nat \ {0}
    BY DepthAssumption, AheadAssumption, PacingAssumption DEF Leeway
<1>9. a = p => theirs = mine
    OBVIOUS
<1> HIDE DEF a, mine, theirs, heard, back
<1>10. d.tick <= mine + Ahead
    <2>1. CASE a = p
        BY <1>2, <1>3, <1>4, <1>5, <1>7, <1>9, <2>1
    <2>2. CASE a # p
        <3>1. theirs <= mine - 1 + Leeway + 1
            BY <1>4, <1>5, <1>6, <1>7, <2>2
        <3> QED
            BY <1>2, <1>3, <1>4, <1>5, <1>7, <3>1
    <2> QED
        BY <2>1, <2>2
<1> QED
    BY <1>10 DEF mine

(* Reading leaves a machine sound, and takes nothing back.                 *)
LEMMA HearSound ==
    ASSUME NetInv, NEW p \in Players, NEW heard \in Arrivals(p), NEW upto
    PROVE  LET m == peer[p]
               n == Hear(p, heard, upto)
           IN  /\ DOMAIN n = MachineFields
               /\ n.mine = m.mine /\ n.settled = m.settled /\ n.desync = m.desync
               /\ n.theirLead \in [Links(p) -> Int]
               /\ n.claimed = m.claimed \union {k \in (1 .. MaxTick) \X Links(p) :
                    /\ k[1] \in DOMAIN published[k[2]]
                    /\ read[p][k[2]] < k[1] /\ k[1] <= upto[k[2]]}
               /\ Sound(n.sess, Made) /\ Grown(m.sess, n.sess)
               /\ InTime /\ Gapless(m.sess) => Gapless(n.sess)
<1> DEFINE m == peer[p]
           x == HearDatagrams(m, heard)
           n == Hear(p, heard, upto)
<1>1. /\ DOMAIN m = MachineFields /\ m.theirLead \in [Links(p) -> Int] /\ Sound(m.sess, Made)
      /\ Making(Made)
    BY MadeIsMaking DEF NetInv, Machine
<1>2. Len(heard) \in Nat /\ \A i \in 1 .. Len(heard) : heard[i] \in datagrams
    BY InboxesAreFinite DEF NetInv
<1>3. /\ \A i \in 1 .. Len(heard) : Truthful(heard[i], Made) /\ heard[i].tick <= m.sess.next + Ahead
      /\ InTime => \A i \in 1 .. Len(heard) : Covered(m.sess, heard[i])
    BY <1>2, DatagramsAreHeard DEF NetInv, InTime
<1> HIDE DEF m, x
<1>4. /\ DOMAIN x = MachineFields
      /\ x.mine = m.mine /\ x.claimed = m.claimed
      /\ x.settled = m.settled /\ x.desync = m.desync
      /\ x.theirLead \in [Links(p) -> Int]
      /\ Sound(x.sess, Made) /\ Grown(m.sess, x.sess)
      /\ Gapless(m.sess) /\ (\A i \in 1 .. Len(heard) : Covered(m.sess, heard[i])) => Gapless(x.sess)
    BY <1>1, <1>2, <1>3, DatagramsHeard DEF x
<1>5. n = HearDigests(x, p, upto)
    BY DEF Hear, x, m
<1>6. /\ DOMAIN n = MachineFields
      /\ n.mine = x.mine /\ n.settled = x.settled /\ n.desync = x.desync
      /\ n.theirLead = x.theirLead /\ n.sess = x.sess
      /\ n.claimed = x.claimed \union {k \in (1 .. MaxTick) \X Links(p) :
            /\ k[1] \in DOMAIN published[k[2]]
            /\ read[p][k[2]] < k[1] /\ k[1] <= upto[k[2]]}
    BY <1>4, <1>5 DEF HearDigests, MachineFields
<1> HIDE DEF n
<1> QED
    BY <1>3, <1>4, <1>6 DEF m, n
-----------------------------------------------------------------------------
(* One tick: reading, the input made for it, and the run.                  *)
Extends(made, later) ==
    \A q \in Players : /\ DOMAIN made[q] \subseteq DOMAIN later[q]
                       /\ \A t \in DOMAIN made[q] : later[q][t] = made[q][t]

LEMMA SoundLater ==
    ASSUME NEW s, NEW made, NEW later, Sound(s, made), Extends(made, later)
    PROVE  Sound(s, later)
BY DEF Sound, Extends

LEMMA TruthfulLater ==
    ASSUME NEW d, NEW made, NEW later, Truthful(d, made), Extends(made, later)
    PROVE  Truthful(d, later)
BY DEF Truthful, Extends

(* What is made once p has made v.                                         *)
MadeWith(p, v) == [Made EXCEPT ![p] = Put(@, peer[p].sess.next, v)]

LEMMA OneMoreIsMade ==
    ASSUME Making(Made), NEW p \in Players, peer[p].sess.next \in Nat \ {0},
           DOMAIN Made[p] = 1 .. peer[p].sess.next - 1, peer[p].sess.next <= MaxTick,
           NEW v \in Plays(p, peer[p].sess.next)
    PROVE  /\ Making(MadeWith(p, v)) /\ Extends(Made, MadeWith(p, v))
           /\ peer[p].sess.next \in DOMAIN MadeWith(p, v)[p]
           /\ MadeWith(p, v)[p][peer[p].sess.next] = v
           /\ MadeWith(p, v)[p] = Put(peer[p].mine, peer[p].sess.next, v)
           /\ DOMAIN MadeWith(p, v)[p] = 1 .. peer[p].sess.next
           /\ \A q \in Players \ {p} : MadeWith(p, v)[q] = Made[q]
<1> DEFINE n == peer[p].sess.next
           later == MadeWith(p, v)
<1>1. /\ n \in Nat \ {0} /\ DOMAIN Made[p] = 1 .. n - 1 /\ Making(Made)
      /\ Made[p] = peer[p].mine
    BY DEF Made
<1>2. v \in Input
    BY <1>1, BoundAssumption, PlaysAssumption
<1> HIDE DEF n
<1>3. DOMAIN Made = Players
    BY DEF Made
<1>4. /\ later[p] = Put(Made[p], n, v)
      /\ \A q \in Players \ {p} : later[q] = Made[q]
    BY <1>3 DEF MadeWith, n
<1>5. /\ DOMAIN later[p] = 1 .. n
      /\ later[p][n] = v
      /\ \A t \in 1 .. n - 1 : later[p][t] = Made[p][t]
    BY <1>1, <1>4 DEF Put
<1> HIDE DEF later
<1> DEFINE made == Made
<1>9. /\ \A q \in Players \ {p} : later[q] = made[q]
      /\ Making(made) /\ DOMAIN made[p] = 1 .. n - 1
      /\ \A t \in 1 .. n - 1 : later[p][t] = made[p][t]
    BY <1>1, <1>4, <1>5
<1> HIDE DEF made
<1>6. Making(later)
    <2>1. \A t \in DOMAIN later[p] : t \in Nat \ {0} /\ later[p][t] \in Input
        <3>1. \A t \in 1 .. n : t = n \/ t \in 1 .. n - 1
            BY <1>1
        <3> QED
            BY <1>1, <1>2, <1>5, <1>9, <3>1 DEF Making
    <2>2. \A q \in Players \ {p} : \A t \in DOMAIN later[q] : t \in Nat \ {0} /\ later[q][t] \in Input
        BY <1>9 DEF Making
    <2> QED
        BY <2>1, <2>2 DEF Making
<1>7. Extends(made, later)
    BY <1>1, <1>5, <1>9 DEF Extends
<1>8. n \in 1 .. n
    BY <1>1
<1> QED
    BY <1>1, <1>4, <1>5, <1>6, <1>7, <1>8 DEF n, later, made

LEMMA MakingOneMore ==
    ASSUME NetInv, NEW p \in Players, peer[p].sess.next <= MaxTick,
           NEW v \in Plays(p, peer[p].sess.next)
    PROVE  /\ Making(MadeWith(p, v)) /\ Extends(Made, MadeWith(p, v))
           /\ peer[p].sess.next \in DOMAIN MadeWith(p, v)[p]
           /\ MadeWith(p, v)[p][peer[p].sess.next] = v
           /\ MadeWith(p, v)[p] = Put(peer[p].mine, peer[p].sess.next, v)
           /\ DOMAIN MadeWith(p, v)[p] = 1 .. peer[p].sess.next
           /\ \A q \in Players \ {p} : MadeWith(p, v)[q] = Made[q]
BY MadeIsMaking, OneMoreIsMade

LEMMA PressedSound ==
    ASSUME NetInv, NEW p \in Players, NEW heard \in Arrivals(p), NEW upto,
           peer[p].sess.next <= MaxTick, NEW v \in Plays(p, peer[p].sess.next)
    PROVE  LET m == peer[p]
               n == Hear(p, heard, upto)
               x == Pressed(p, n, v)
           IN  /\ DOMAIN x = MachineFields
               /\ x.mine = MadeWith(p, v)[p] /\ x.settled = m.settled /\ x.desync = m.desync
               /\ x.theirLead \in [Links(p) -> Int] /\ x.claimed = n.claimed
               /\ Sound(x.sess, MadeWith(p, v)) /\ Grown(m.sess, x.sess)
               /\ NewestOf(x.sess, p) = m.sess.next
               /\ InTime /\ Gapless(m.sess) => Gapless(x.sess)
<1> DEFINE m == peer[p]
           n == Hear(p, heard, upto)
           x == Pressed(p, n, v)
           t == m.sess.next
           later == MadeWith(p, v)
<1>1. /\ DOMAIN n = MachineFields
      /\ n.mine = m.mine /\ n.settled = m.settled /\ n.desync = m.desync
      /\ n.theirLead \in [Links(p) -> Int]
      /\ Sound(n.sess, Made) /\ Grown(m.sess, n.sess)
      /\ InTime /\ Gapless(m.sess) => Gapless(n.sess)
    BY HearSound
<1>2. /\ Making(later) /\ Extends(Made, later) /\ t \in DOMAIN later[p] /\ later[p][t] = v
      /\ later[p] = Put(m.mine, t, v) /\ DOMAIN later[p] = 1 .. t
    BY MakingOneMore
<1>3. Sound(n.sess, later)
    BY <1>1, <1>2, SoundLater
<1>4. n.sess.next = t /\ t \in Nat \ {0}
    BY <1>1, MadeIsMaking DEF Grown
<1>5. \A y \in Players : NewestOf(m.sess, y) \in Nat
    BY NewestIsMade
<1>6. NewestOf(n.sess, p) <= t
    <2>1. NewestOf(n.sess, p) \in (1 .. t - 1) \union {0}
        <3>1. DOMAIN Made[p] = 1 .. t - 1
            BY MadeIsMaking
        <3> QED
            BY <1>1, <3>1 DEF Sound
    <2> QED
        BY <1>4, <2>1
<1> HIDE DEF m, n, t, later
<1>7. /\ DOMAIN x = MachineFields
      /\ x.mine = Put(n.mine, n.sess.next, v) /\ x.sess = SubmitTo(n.sess, p, n.sess.next, v)
      /\ x.theirLead = n.theirLead /\ x.claimed = n.claimed
      /\ x.settled = n.settled /\ x.desync = n.desync
    BY <1>1 DEF Pressed, MachineFields
<1> DEFINE s == n.sess
           r == x.sess
<1>8. r = SubmitTo(s, p, t, later[p][t])
    BY <1>2, <1>4, <1>7
<1>9. t <= s.next + Ahead
    BY <1>4, AheadAssumption
<1> HIDE DEF x, s, r
<1>11. /\ Sound(r, later) /\ Grown(s, r)
       /\ t \in DOMAIN r.arrived[p]
       /\ NewestOf(r, p) = IF NewestOf(s, p) < t THEN t ELSE NewestOf(s, p)
       /\ \A y \in Players \ {p} : NewestOf(r, y) = NewestOf(s, y)
    BY <1>2, <1>3, <1>8, <1>9, SubmitHeard DEF s
<1>12. \A y \in Players : NewestOf(s, y) \in Nat /\ NewestOf(r, y) \in Nat
    BY <1>2, <1>3, <1>11, SoundNumbers DEF s
<1>13. NewestOf(r, p) = t
    BY <1>4, <1>6, <1>11, <1>12 DEF s
<1>14. Grown(m.sess, r)
    BY <1>1, <1>5, <1>11, <1>12, GrownTwice DEF s
<1>15. ASSUME Gapless(s), NewestOf(s, p) = t - 1 \/ NewestOf(s, p) = t
       PROVE  Gapless(r)
    <2>1. \A u : BelowRing(r, u) <=> BelowRing(s, u)
        BY <1>11 DEF Grown, BelowRing
    <2>2. ASSUME NEW y \in Players, NEW u \in 1 .. NewestOf(r, y)
          PROVE  BelowRing(r, u) \/ u \in DOMAIN r.arrived[y]
        <3>1. u \in 1 .. NewestOf(s, y) \/ (y = p /\ u = t)
            BY <1>4, <1>11, <1>12, <1>13, <1>15
        <3> QED
            BY <1>11, <1>15, <2>1, <3>1 DEF Gapless, Grown
    <2> QED
        BY <2>2 DEF Gapless
<1>16. NewestOf(s, p) = t - 1 \/ NewestOf(s, p) = t
    <2>1. NewestOf(m.sess, p) = t - 1
        BY NewestIsMade DEF m, t
    <2>2. NewestOf(m.sess, p) <= NewestOf(s, p)
        BY <1>1 DEF Grown, s
    <2> QED
        BY <1>4, <1>6, <1>12, <2>1, <2>2 DEF s
<1> QED
    BY <1>1, <1>2, <1>4, <1>7, <1>11, <1>13, <1>14, <1>15, <1>16 DEF m, n, x, s, r, t, later

(* A run forgets only what is below the ring.                              *)
LEMMA RanSound ==
    ASSUME NEW s, NEW made, Making(made), Sound(s, made)
    PROVE  LET r == AdvanceOf(s)
           IN  /\ Sound(r, made) /\ r.next = s.next + 1 /\ r.dirty = NoTick
               /\ r.absent = s.absent
               /\ \A q \in Players : NewestOf(r, q) = NewestOf(s, q)
               /\ Gapless(s) => Gapless(r)
               /\ \A t \in Nat : Over(s, t) => Over(r, t)
               /\ \A t \in Nat : BelowRing(s, t) => BelowRing(r, t)
               /\ \A u \in Nat : u < s.next /\ Firm(s, u) =>
                    /\ Firm(r, u)
                    /\ \A t \in DOMAIN r.digests : t <= u =>
                        t \in DOMAIN s.digests /\ r.digests[t] = s.digests[t]
<1> DEFINE r == AdvanceOf(s)
           n == s.next
<1>1. Resting(s) /\ DOMAIN s.absent = {}
    BY DEF Sound
<1>2. /\ Resting(r) /\ r.dirty = NoTick
      /\ n \in Nat \ {0} /\ r.next = n + 1
      /\ r.absent = s.absent /\ r.newest = s.newest
      /\ DOMAIN r.ring \subseteq DOMAIN s.ring \union {n}
      /\ \A t \in DOMAIN r.ring : t < Due(s) =>
            t \in DOMAIN s.ring /\ r.ring[t] = s.ring[t] /\ r.digests[t] = s.digests[t]
      /\ \A p \in Players :
            /\ \A t \in DOMAIN s.arrived[p] : t \in DOMAIN r.arrived[p] \/ BelowRing(r, t)
            /\ \A t \in DOMAIN r.arrived[p] :
                    t \in DOMAIN s.arrived[p] /\ r.arrived[p][t] = s.arrived[p][t]
    BY <1>1, AdvanceKeeps
<1>3. /\ IsSession(s) /\ DOMAIN s.ring = RingTicks(n) /\ DOMAIN s.ring \subseteq Nat
      /\ \A t \in DOMAIN s.ring : t < n
    BY <1>1 DEF Resting, Shaped, IsSession, RingTicks
<1>4. /\ IsSession(r) /\ DOMAIN r.ring = RingTicks(n + 1)
    BY <1>2 DEF Resting, Shaped
<1> HIDE DEF r, n
<1>5. n \in DOMAIN r.ring
    BY <1>2, <1>4, DepthAssumption DEF RingTicks
<1>6. \A q \in Players : NewestOf(r, q) = NewestOf(s, q)
    BY <1>2 DEF NewestOf
<1>7. Sound(r, made)
    <2>1. \A q \in Players : \A t \in DOMAIN r.arrived[q] :
            t \in DOMAIN made[q] /\ r.arrived[q][t] = made[q][t]
        BY <1>2 DEF Sound
    <2>2. \A q \in Players : NewestOf(r, q) \in DOMAIN made[q] \union {0}
        BY <1>6 DEF Sound
    <2> QED
        BY <1>1, <1>2, <2>1, <2>2 DEF Sound
<1>8. ASSUME NEW t \in Nat, BelowRing(s, t)
      PROVE  BelowRing(r, t)
    <2>1. \A e \in DOMAIN s.ring : t < e
        BY <1>8 DEF BelowRing
    <2>2. t < n
        <3>1. PICK e \in DOMAIN s.ring : t < e
            BY <1>8 DEF BelowRing
        <3> QED
            BY <1>2, <1>3, <3>1
    <2> QED
        BY <1>2, <1>5, <2>1, <2>2 DEF BelowRing
<1>9. ASSUME NEW t \in Nat, Confirmed(s, t)
      PROVE  Over(r, t)
    <2>1. \A p \in Players : t \in DOMAIN s.arrived[p]
        BY <1>1, <1>9 DEF Confirmed, IsPresent
    <2>2. BelowRing(r, t) \/ \A p \in Players : t \in DOMAIN r.arrived[p]
        BY <1>2, <2>1
    <2> QED
        BY <2>2 DEF Over, Confirmed
<1>10. \A t \in Nat : Over(s, t) => Over(r, t)
    BY <1>8, <1>9 DEF Over
<1>11. Gapless(s) => Gapless(r)
    <2> SUFFICES ASSUME Gapless(s), NEW q \in Players, NEW t \in 1 .. NewestOf(r, q)
                 PROVE  BelowRing(r, t) \/ t \in DOMAIN r.arrived[q]
        BY DEF Gapless
    <2>1. BelowRing(s, t) \/ t \in DOMAIN s.arrived[q]
        BY <1>6 DEF Gapless
    <2>2. t \in Nat
        <3>1. NewestOf(s, q) \in Nat
            BY SoundNumbers
        <3> QED
            BY <1>6, <3>1
    <2> QED
        BY <1>2, <1>8, <2>1, <2>2
<1>12. ASSUME NEW u \in Nat, u < n, Firm(s, u)
       PROVE  /\ Firm(r, u)
              /\ \A t \in DOMAIN r.digests : t <= u =>
                    t \in DOMAIN s.digests /\ r.digests[t] = s.digests[t]
    <2>1. u < Due(s)
        BY <1>12 DEF Firm, Due, n
    <2>2. Due(s) \in Nat
        BY <1>2, <1>3 DEF IsSession, Due, n
    <2>3. DOMAIN r.digests = DOMAIN r.ring /\ DOMAIN s.digests = DOMAIN s.ring /\ DOMAIN r.ring \subseteq Nat
        BY <1>3, <1>4 DEF IsSession
    <2>4. ASSUME NEW t \in DOMAIN r.ring, t <= u
          PROVE  /\ Confirmed(r, t)
                 /\ t \in DOMAIN s.digests /\ r.digests[t] = s.digests[t]
        <3>1. t \in Nat /\ t < Due(s)
            BY <2>1, <2>2, <2>3, <2>4
        <3>2. t \in DOMAIN s.ring /\ r.digests[t] = s.digests[t]
            BY <1>2, <3>1
        <3>3. Over(r, t)
            BY <1>9, <1>12, <2>4, <3>1, <3>2 DEF Firm
        <3>4. ~BelowRing(r, t)
            BY <3>1 DEF BelowRing
        <3> QED
            BY <2>3, <3>2, <3>3, <3>4 DEF Over
    <2> QED
        BY <1>2, <2>3, <2>4 DEF Firm
<1> QED
    BY <1>2, <1>6, <1>7, <1>8, <1>10, <1>11, <1>12 DEF r, n

-----------------------------------------------------------------------------
(* The exchange of digests.                                                *)
LEMMA SettledIs ==
    ASSUME NEW m, m.settled \in Nat, m.sess.next \in Nat
    PROVE  LET end == SettledUpTo(m)
               limit == m.sess.next - (Lag + 1)
           IN  /\ end \in Nat /\ m.settled <= end
               /\ end = m.settled \/ end <= limit
               /\ \A u \in m.settled + 1 .. end : Over(m.sess, u)
               /\ m.settled + 1 <= limit /\ Over(m.sess, m.settled + 1) => m.settled < end
<1> DEFINE a == m.settled
           limit == m.sess.next - (Lag + 1)
           S == {t \in a + 1 .. limit : \A u \in a + 1 .. t : Over(m.sess, u)}
           T == {a} \union S
           end == SettledUpTo(m)
<1>1. a \in Nat /\ limit \in Int
    BY PacingAssumption
<1>2. end = Max(T)
    BY DEF SettledUpTo
<1> HIDE DEF a, limit, end
<1>3. PICK n \in Nat : \A x \in T : x <= n
    <2>1. CASE limit <= a
        BY <1>1, <2>1
    <2>2. CASE a < limit
        BY <1>1, <2>2
    <2> QED
        BY <1>1, <2>1, <2>2
<1>4. T \in SUBSET Nat /\ T # {}
    BY <1>1
<1>5. end \in T /\ \A x \in T : x <= end
    BY <1>2, <1>3, <1>4, MaxOfBoundedNats
<1>6. end \in Nat /\ a <= end /\ (end = a \/ end <= limit)
    BY <1>1, <1>5
<1>7. \A u \in a + 1 .. end : Over(m.sess, u)
    <2>1. CASE end = a
        <3>1. a + 1 .. end = {}
            BY <1>1, <2>1
        <3> QED
            BY <3>1
    <2>2. CASE end \in S
        BY <2>2
    <2> QED
        BY <1>5, <2>1, <2>2
<1>8. ASSUME a + 1 <= limit, Over(m.sess, a + 1)
      PROVE  a < end
    <2>1. a + 1 .. a + 1 = {a + 1}
        BY <1>1
    <2>2. a + 1 \in S
        BY <1>1, <1>8, <2>1
    <2> QED
        BY <1>1, <1>5, <1>6, <2>2
<1> QED
    BY <1>6, <1>7, <1>8 DEF a, limit, end

LEMMA ExchangedIs ==
    ASSUME NEW m, DOMAIN m = MachineFields, m.settled \in Nat, m.sess.next \in Nat,
           \A k \in m.claimed : k[1] \in Nat
    PROVE  LET e == Exchanged(m)
           IN  /\ DOMAIN e = MachineFields
               /\ e.sess = m.sess /\ e.mine = m.mine /\ e.theirLead = m.theirLead
               /\ e.settled = SettledUpTo(m)
               /\ e.claimed \subseteq m.claimed
               /\ \A k \in m.claimed : k \in e.claimed \/ Over(m.sess, k[1])
               /\ e.desync = m.desync \/ e.desync \in Nat
               /\ \/ e.desync = m.desync
                  \/ \E k \in m.claimed :
                        /\ \A j \in m.claimed : ~Over(m.sess, j[1]) => k[1] < j[1]
                        /\ Confirmed(m.sess, k[1])
                        /\ k[1] \in DOMAIN m.sess.digests
                        /\ published[k[2]][k[1]] # m.sess.digests[k[1]]
<1> DEFINE x == [m EXCEPT !.settled = SettledUpTo(m)]
           reached == {k \in m.claimed : \A j \in m.claimed : ~Over(m.sess, j[1]) => k[1] < j[1]}
           sure == {k \in reached : Confirmed(m.sess, k[1])}
           compared == {k \in sure : k[1] \in DOMAIN m.sess.digests}
           wrong == {k \in compared : published[k[2]][k[1]] # m.sess.digests[k[1]]}
           ticks == {k[1] : k \in wrong}
           e == CompareClaims(x)
<1>1. /\ DOMAIN x = MachineFields
      /\ x.sess = m.sess /\ x.mine = m.mine /\ x.theirLead = m.theirLead
      /\ x.claimed = m.claimed /\ x.desync = m.desync /\ x.settled = SettledUpTo(m)
    BY DEF MachineFields
<1> HIDE DEF x
<1>2. e = [x EXCEPT !.claimed = (@ \ reached) \union (sure \ compared),
                    !.desync = IF @ = NoTick /\ wrong # {} THEN Min(ticks) ELSE @]
    BY <1>1 DEF CompareClaims
<1> HIDE DEF e, reached, sure, compared, wrong, ticks
<1>3. /\ DOMAIN e = MachineFields
      /\ e.sess = m.sess /\ e.mine = m.mine /\ e.theirLead = m.theirLead
      /\ e.settled = SettledUpTo(m)
      /\ e.claimed = (m.claimed \ reached) \union (sure \ compared)
      /\ e.desync = IF m.desync = NoTick /\ wrong # {} THEN Min(ticks) ELSE m.desync
    BY <1>1, <1>2 DEF MachineFields
<1>4. reached \subseteq m.claimed /\ sure \subseteq reached /\ wrong \subseteq compared /\ compared \subseteq sure
    BY DEF reached, sure, compared, wrong
<1>5. e.claimed \subseteq m.claimed
    BY <1>3, <1>4
<1>6. \A k \in m.claimed : k \in e.claimed \/ Over(m.sess, k[1])
    <2> SUFFICES ASSUME NEW k \in m.claimed, k \notin e.claimed
                 PROVE  Over(m.sess, k[1])
        OBVIOUS
    <2>1. k \in reached
        BY <1>3
    <2>2. ~Over(m.sess, k[1]) => k[1] < k[1]
        BY <2>1 DEF reached
    <2> QED
        BY <2>2
<1>7. wrong # {} => Min(ticks) \in Nat
    <2>1. ticks \in SUBSET Nat
        BY <1>4 DEF ticks
    <2>2. wrong # {} => ticks # {}
        BY DEF ticks
    <2> QED
        BY <2>1, <2>2, MinOfNats
<1>8. e.desync = m.desync \/ wrong # {}
    BY <1>3
<1>9. \A k \in wrong :
        /\ k \in m.claimed
        /\ \A j \in m.claimed : ~Over(m.sess, j[1]) => k[1] < j[1]
        /\ Confirmed(m.sess, k[1])
        /\ k[1] \in DOMAIN m.sess.digests
        /\ published[k[2]][k[1]] # m.sess.digests[k[1]]
    BY DEF reached, sure, compared, wrong
<1>10. /\ DOMAIN e = MachineFields
       /\ e.sess = m.sess /\ e.mine = m.mine /\ e.theirLead = m.theirLead
       /\ e.settled = SettledUpTo(m)
       /\ e.claimed \subseteq m.claimed
       /\ \A k \in m.claimed : k \in e.claimed \/ Over(m.sess, k[1])
       /\ e.desync = m.desync \/ e.desync \in Nat
       /\ \/ e.desync = m.desync
          \/ \E k \in m.claimed :
                /\ \A j \in m.claimed : ~Over(m.sess, j[1]) => k[1] < j[1]
                /\ Confirmed(m.sess, k[1])
                /\ k[1] \in DOMAIN m.sess.digests
                /\ published[k[2]][k[1]] # m.sess.digests[k[1]]
    BY <1>3, <1>5, <1>6, <1>7, <1>8, <1>9
<1>11. CASE m.sess.next <= Lag
    <2>1. Exchanged(m) = m
        BY <1>11 DEF Exchanged
    <2>2. SettledUpTo(m) = m.settled
        <3>1. /\ SettledUpTo(m) \in Nat /\ m.settled <= SettledUpTo(m)
              /\ SettledUpTo(m) = m.settled \/ SettledUpTo(m) <= m.sess.next - (Lag + 1)
            BY SettledIs
        <3> QED
            BY <1>11, <3>1, PacingAssumption
    <2> QED
        BY <2>1, <2>2
<1>12. CASE ~(m.sess.next <= Lag)
    <2>1. Exchanged(m) = e
        BY <1>12 DEF Exchanged, e, x
    <2> QED
        BY <1>10, <2>1
<1> QED
    BY <1>11, <1>12
-----------------------------------------------------------------------------
(* The steps.                                                              *)
Moved(p, heard, upto, v) ==
    [Pressed(p, Hear(p, heard, upto), v) EXCEPT !.sess = AdvanceOf(@)]

LEMMA RunsATick ==
    ASSUME NEW p, NEW heard, NEW upto, NEW v, Advance(p, heard, upto, v)
    PROVE  peer[p].sess.next <= MaxTick /\ ~ShouldWait(p)
BY DEF Advance, AdvanceThen

LEMMA AdvancePublishes ==
    ASSUME NEW p, NEW heard, NEW upto, NEW v, Advance(p, heard, upto, v)
    PROVE  published' = [published EXCEPT ![p] = Joined(@, ToPublish(Moved(p, heard, upto, v)))]
BY DEF Advance, AdvanceThen, Moved

LEMMA ImageIsFinite ==
    ASSUME NEW S, IsFiniteSet(S), NEW f
    PROVE  IsFiniteSet({f[x] : x \in S})
<1> DEFINE T == {f[x] : x \in S}
           g == [x \in S |-> f[x]]
<1>1. g \in [S -> T] /\ \A t \in T : \E x \in S : g[x] = t
    OBVIOUS
<1> HIDE DEF g
<1>2. g \in Surjection(S, T)
    BY <1>1 DEF Surjection
<1> QED
    BY <1>2, FS_Surjection

LEMMA LinksAreFinite ==
    ASSUME NEW p
    PROVE  IsFiniteSet(Links(p)) /\ Links(p) \subseteq Players
<1>1. Links(p) \subseteq Players
    BY DEF Links
<1> QED
    BY <1>1, HostAssumption, FS_Subset

LEMMA LeadIsAnInt ==
    ASSUME NEW p, NEW s, s.next \in Nat, \A q \in Players : NewestOf(s, q) \in Nat
    PROVE  Lead(p, s) \in Int
<1> DEFINE others == {q \in Players \ {p} : IsPresent(s, q, s.next)}
           S == {NewestOf(s, q) : q \in others}
<1>1. S \in SUBSET Nat
    OBVIOUS
<1>2. Lead(p, s) = IF others = {} THEN 0 ELSE s.next - Min(S)
    BY DEF Lead
<1>3. others # {} => S # {}
    OBVIOUS
<1> HIDE DEF S, others
<1>4. others # {} => Min(S) \in Nat
    BY <1>1, <1>3, MinOfNats
<1> QED
    BY <1>2, <1>4

LEMMA LeadIs ==
    ASSUME NEW p \in Players, NEW s, s.next \in Nat \ {0}, DOMAIN s.absent = {},
           \A q \in Players : NewestOf(s, q) \in Nat
    PROVE  /\ Lead(p, s) \in Int
           /\ \A q \in Players \ {p} : s.next - NewestOf(s, q) <= Lead(p, s)
<1> DEFINE others == {q \in Players \ {p} : IsPresent(s, q, s.next)}
           S == {NewestOf(s, q) : q \in others}
<1>1. others = Players \ {p}
    BY DEF IsPresent
<1>2. S \in SUBSET Nat
    OBVIOUS
<1>3. Lead(p, s) = IF others = {} THEN 0 ELSE s.next - Min(S)
    BY DEF Lead
<1>4. CASE others = {}
    BY <1>1, <1>3, <1>4
<1>5. CASE others # {}
    <2>1. S # {}
        BY <1>5
    <2>2. Min(S) \in S /\ \A x \in S : Min(S) <= x
        BY <1>2, <2>1, MinOfNats
    <2>3. \A q \in Players \ {p} : Min(S) <= NewestOf(s, q)
        BY <1>1, <2>2
    <2>4. Min(S) \in Nat /\ Lead(p, s) = s.next - Min(S)
        BY <1>2, <1>3, <1>5, <2>2
    <2> DEFINE lo == Min(S)
    <2> HIDE DEF S, others, lo
    <2>5. lo \in Nat /\ Lead(p, s) = s.next - lo
        BY <2>4 DEF lo
    <2>6. \A q \in Players \ {p} : s.next - NewestOf(s, q) <= s.next - lo
        BY <2>3, <2>5 DEF lo
    <2> QED
        BY <2>5, <2>6
<1> QED
    BY <1>4, <1>5

(* What pacing grants the tick about to run.                               *)
LEMMA RunsWithinLeeway ==
    ASSUME NetInv, NEW p \in Players, ~ShouldWait(p), NEW q \in Players \ {p}
    PROVE  peer[p].sess.next <= NewestOf(peer[p].sess, q) + Leeway
<1> DEFINE s == peer[p].sess
<1>1. /\ s.next \in Nat \ {0} /\ DOMAIN s.absent = {}
      /\ \A x \in Players : NewestOf(s, x) \in Nat
    BY NewestIsMade DEF NetInv, Machine, Sound
<1>2. ~(Lead(p, s) >= Depth - Slack)
    BY DEF ShouldWait
<1> HIDE DEF s
<1>3. Lead(p, s) \in Int /\ s.next - NewestOf(s, q) <= Lead(p, s)
    BY <1>1, LeadIs
<1>4. s.next <= NewestOf(s, q) + Leeway
    BY <1>1, <1>2, <1>3, DepthAssumption, PacingAssumption DEF Leeway
<1> QED
    BY <1>4 DEF s

(* A tick, all told: the machine that ran it before the exchange.          *)
LEMMA MovedSound ==
    ASSUME NetInv, NEW p \in Players, NEW heard \in Arrivals(p), NEW upto,
           peer[p].sess.next <= MaxTick, ~ShouldWait(p), NEW v \in Plays(p, peer[p].sess.next)
    PROVE  LET m == peer[p]
               x == Pressed(p, Hear(p, heard, upto), v)
               ran == Moved(p, heard, upto, v)
           IN  /\ DOMAIN ran = MachineFields
               /\ ran.sess = AdvanceOf(x.sess)
               /\ ran.mine = MadeWith(p, v)[p] /\ ran.settled = m.settled /\ ran.desync = m.desync
               /\ ran.theirLead \in [Links(p) -> Int]
               /\ ran.claimed = Hear(p, heard, upto).claimed
               /\ Sound(ran.sess, MadeWith(p, v))
               /\ m.sess.next \in Nat \ {0} /\ ran.sess.next = m.sess.next + 1
               /\ ran.sess.dirty = NoTick
               /\ NewestOf(ran.sess, p) = m.sess.next
               /\ \A q \in Players \ {p} : ran.sess.next <= NewestOf(ran.sess, q) + Leeway + 1
               /\ InTime /\ Gapless(m.sess) => Gapless(ran.sess)
<1> DEFINE m == peer[p]
           x == Pressed(p, Hear(p, heard, upto), v)
           ran == Moved(p, heard, upto, v)
           later == MadeWith(p, v)
<1>1. /\ DOMAIN x = MachineFields
      /\ x.mine = later[p] /\ x.settled = m.settled /\ x.desync = m.desync
      /\ x.theirLead \in [Links(p) -> Int] /\ x.claimed = Hear(p, heard, upto).claimed
      /\ Sound(x.sess, later) /\ Grown(m.sess, x.sess)
      /\ NewestOf(x.sess, p) = m.sess.next
      /\ InTime /\ Gapless(m.sess) => Gapless(x.sess)
    BY PressedSound
<1>2. Making(later)
    BY MakingOneMore
<1>3. ran = [x EXCEPT !.sess = AdvanceOf(@)]
    BY DEF Moved
<1>4. \A q \in Players : NewestOf(m.sess, q) \in Nat
    BY NewestIsMade
<1>5. \A q \in Players \ {p} : m.sess.next <= NewestOf(m.sess, q) + Leeway
    BY RunsWithinLeeway
<1>6. m.sess.next \in Nat \ {0} /\ Leeway \in Int
    BY MadeIsMaking, DepthAssumption, PacingAssumption DEF Leeway
<1> HIDE DEF m, x, ran, later
<1>7. /\ DOMAIN ran = MachineFields
      /\ ran.sess = AdvanceOf(x.sess)
      /\ ran.mine = x.mine /\ ran.settled = x.settled /\ ran.desync = x.desync
      /\ ran.theirLead = x.theirLead /\ ran.claimed = x.claimed
    BY <1>1, <1>3 DEF MachineFields
<1> DEFINE s == x.sess
<1>8. Sound(s, later)
    BY <1>1
<1> HIDE DEF s
<1>9. /\ Sound(AdvanceOf(s), later) /\ AdvanceOf(s).next = s.next + 1 /\ AdvanceOf(s).dirty = NoTick
      /\ \A q \in Players : NewestOf(AdvanceOf(s), q) = NewestOf(s, q)
      /\ Gapless(s) => Gapless(AdvanceOf(s))
    BY <1>2, <1>8, RanSound
<1>10. \A q \in Players : NewestOf(s, q) \in Nat
    BY <1>2, <1>8, SoundNumbers
<1>11. s.next = m.sess.next /\ \A q \in Players : NewestOf(m.sess, q) <= NewestOf(s, q)
    BY <1>1 DEF Grown, s
<1>12. \A q \in Players \ {p} : s.next + 1 <= NewestOf(s, q) + Leeway + 1
    BY <1>4, <1>5, <1>6, <1>10, <1>11
<1> QED
    BY <1>1, <1>6, <1>7, <1>9, <1>11, <1>12 DEF m, x, ran, later, s

-----------------------------------------------------------------------------
(* The machines and what is in flight between them: NetInv is inductive.   *)
LEMMA NetInvBegins == ASSUME Init PROVE NetInv
<1>1. /\ IsSession(NewSession) /\ NewSession.next = 1 /\ NewSession.ring = NoEntries
      /\ NewSession.dirty = NoTick /\ NewSession.absent = NoEntries
      /\ NewSession.newest = NoEntries /\ NewSession.world = Start
      /\ NewSession.arrived = [p \in Players |-> NoEntries]
      /\ NewSession.used = [p \in Players |-> NoEntries]
    BY NewSessionIsASession DEF NewSession
<1>2. DOMAIN NoEntries = {} /\ RingTicks(1) = {}
    BY DepthAssumption DEF NoEntries, RingTicks
<1>3. \A q \in Players : NewestOf(NewSession, q) = 0
    BY <1>1, <1>2 DEF NewestOf
<1> DEFINE s == NewSession
<1> HIDE DEF s
<1>4. Resting(s)
    <2>1. Shaped(s)
        BY <1>1, <1>2 DEF Shaped, s
    <2>2. ChainedTo(s, s.next) /\ PlayedTo(s, Due(s))
        BY <1>1, <1>2 DEF ChainedTo, PlayedTo, s
    <2> QED
        BY <1>1, <1>2, <2>1, <2>2 DEF Resting, s
<1>5. \A made : Sound(s, made)
    BY <1>1, <1>2, <1>3, <1>4 DEF Sound, s
<1>6. \A p \in Players : peer[p] = NewPeer(p)
    BY DEF Init
<1>7. ASSUME NEW p \in Players
      PROVE  Machine(p) /\ Paced(p)
    <2> DEFINE m == peer[p]
    <2>10. m = NewPeer(p)
        BY <1>6
    <2> HIDE DEF m
    <2>8. DOMAIN m = MachineFields
        BY <2>10 DEF NewPeer, MachineFields
    <2>9. /\ m.sess = s /\ m.mine = NoEntries /\ m.theirLead = [q \in Links(p) |-> 0]
          /\ m.claimed = {} /\ m.settled = 0 /\ m.desync = NoTick
        BY <2>10 DEF NewPeer, s
    <2>1. /\ DOMAIN m = MachineFields /\ m.sess = s /\ m.mine = NoEntries
          /\ m.theirLead = [q \in Links(p) |-> 0]
        BY <2>8, <2>9
    <2>2. 1 .. s.next - 1 = {} /\ s.next = 1
        BY <1>1 DEF s
    <2>3. 1 <= MaxTick + 1
        BY BoundAssumption
    <2>7. m.theirLead \in [Links(p) -> Int]
        BY <2>1
    <2> HIDE DEF m
    <2>4. /\ DOMAIN m.mine = 1 .. m.sess.next - 1
          /\ \A t \in DOMAIN m.mine : m.mine[t] \in Plays(p, t)
        BY <1>2, <2>1, <2>2
    <2>11. m.mine \in [1 .. m.sess.next - 1 -> Input]
        BY <2>1, <2>2 DEF NoEntries
    <2>5. Sound(m.sess, Made) /\ NewestOf(m.sess, p) = m.sess.next - 1
        BY <1>3, <1>5, <2>1, <2>2 DEF s
    <2>6. ~(m.sess.next > 1)
        BY <2>1, <2>2
    <2> QED
        BY <2>1, <2>2, <2>3, <2>4, <2>5, <2>6, <2>7, <2>9, <2>11 DEF Machine, Paced, m
<1>8. IsFiniteSet(datagrams) /\ datagrams = {}
    BY FS_EmptySet DEF Init
<1>9. /\ peer = [p \in Players |-> peer[p]]
      /\ published = [p \in Players |-> published[p]]
      /\ read = [p \in Players |-> read[p]]
    BY DEF Init
<1> QED
    BY <1>7, <1>8, <1>9 DEF NetInv

(* What a machine sends is what it made, and a relay what it heard.        *)
LEMMA PacketsAreTruthful ==
    ASSUME NEW p \in Players, NEW x, NEW later, x.mine = later[p], OpenLinks(x) \subseteq Links(p),
           x.sess.next \in Nat \ {0}, DOMAIN x.mine = 1 .. x.sess.next, Lead(p, x.sess) \in Int
    PROVE  IsFiniteSet(Sent(p, x)) /\ \A d \in Sent(p, x) : Truthful(d, later)
<1> DEFINE n == x.sess.next
           first == IF n > Window THEN n - Window + 1 ELSE 1
           values == From(first, x.mine)
           lead == Lead(p, x.sess)
           Packet(q) == [link |-> p, to |-> q, player |-> p, first |-> first, tick |-> n,
                         values |-> values, lead |-> lead]
           to == OpenLinks(x)
           sent == Sent(p, x)
<1>1. sent = {Packet(q) : q \in to}
    BY DEF Sent
<1>2. n \in Nat \ {0} /\ lead \in Int /\ to \subseteq Links(p)
    OBVIOUS
<1>3. /\ first \in Nat \ {0} /\ first <= n /\ (first = 1 \/ first + Window = n + 1)
    BY <1>2, PacingAssumption
<1>4. DOMAIN values = first .. n /\ \A t \in first .. n : t \in DOMAIN later[p] /\ values[t] = later[p][t]
    <2>1. DOMAIN x.mine = 1 .. n
        OBVIOUS
    <2> HIDE DEF n, first
    <2>2. \A t : t \in first .. n <=> t \in 1 .. n /\ t >= first
        BY <1>2, <1>3
    <2> QED
        BY <2>1, <2>2 DEF From, Restrict
<1> HIDE DEF sent, n, first, values, lead, to
<1>5. ASSUME NEW q \in to
      PROVE  Truthful(Packet(q), later)
    <2>1. q \in Players /\ Linked(p, q)
        BY <1>2 DEF Links
    <2> DEFINE d == Packet(q)
    <2>2. /\ DOMAIN d = DatagramFields
          /\ d.link = p /\ d.to = q /\ d.player = p /\ d.first = first /\ d.tick = n
          /\ d.values = values /\ d.lead = lead
        BY DEF DatagramFields
    <2> HIDE DEF d
    <2>3. n \in Nat
        BY <1>2
    <2> QED
        BY <1>2, <1>3, <1>4, <2>1, <2>2, <2>3 DEF Truthful, d
<1>6. IsFiniteSet(sent)
    <2> DEFINE f == [q \in to |-> Packet(q)]
    <2>1. {Packet(q) : q \in to} = {f[q] : q \in to}
        OBVIOUS
    <2>2. IsFiniteSet(to)
        BY <1>2, LinksAreFinite, FS_Subset
    <2> HIDE DEF f
    <2>3. IsFiniteSet({f[q] : q \in to})
        BY <2>2, ImageIsFinite
    <2> QED
        BY <1>1, <2>1, <2>3
<1>7. \A d \in sent : Truthful(d, later)
    BY <1>1, <1>5
<1> QED
    BY <1>6, <1>7 DEF sent

LEMMA SentIsTruthful ==
    ASSUME NetInv, NEW p \in Players, NEW heard \in Arrivals(p), NEW upto,
           peer[p].sess.next <= MaxTick, NEW v \in Plays(p, peer[p].sess.next)
    PROVE  LET sent == Sent(p, Pressed(p, Hear(p, heard, upto), v))
           IN  IsFiniteSet(sent) /\ \A d \in sent : Truthful(d, MadeWith(p, v))
<1> DEFINE x == Pressed(p, Hear(p, heard, upto), v)
           later == MadeWith(p, v)
           s == x.sess
<1>1. /\ x.mine = later[p] /\ x.theirLead \in [Links(p) -> Int]
      /\ Sound(s, later) /\ Grown(peer[p].sess, s)
    BY PressedSound
<1>2. Making(later) /\ DOMAIN later[p] = 1 .. peer[p].sess.next
    BY MakingOneMore
<1> HIDE DEF x, later, s
<1>3. s.next = peer[p].sess.next /\ s.next \in Nat \ {0}
    BY <1>1, MadeIsMaking DEF Grown
<1>4. \A q \in Players : NewestOf(s, q) \in Nat
    BY <1>1, <1>2, SoundNumbers
<1>5. Lead(p, s) \in Int
    BY <1>3, <1>4, LeadIsAnInt
<1>6. OpenLinks(x) \subseteq Links(p)
    BY <1>1 DEF OpenLinks
<1>7. x.sess.next \in Nat \ {0} /\ DOMAIN x.mine = 1 .. x.sess.next /\ Lead(p, x.sess) \in Int
    BY <1>1, <1>2, <1>3, <1>5 DEF s
<1> QED
    BY <1>1, <1>6, <1>7, PacketsAreTruthful DEF x, later

LEMMA RelaysAreTruthful ==
    ASSUME NEW p \in Players, NEW heard, NEW made, IsFiniteSet(ToSet(heard)),
           \A d \in ToSet(heard) : Truthful(d, made), OpenLinks(peer[p]) \subseteq Links(p)
    PROVE  IsFiniteSet(Relayed(p, heard)) /\ \A d \in Relayed(p, heard) : Truthful(d, made)
<1> DEFINE m == peer[p]
           H == {x \in ToSet(heard) \X OpenLinks(m) : x[1].link # x[2]}
           Passed(h) == [h[1] EXCEPT !.link = Host, !.to = h[2]]
<1>1. OpenLinks(m) \subseteq Links(p)
    OBVIOUS
<1>3. CASE p # Host
    BY <1>3, FS_EmptySet DEF Relayed
<1>4. CASE p = Host
    <2>1. Relayed(p, heard) = {Passed(h) : h \in H}
        BY <1>4 DEF Relayed
    <2>2. IsFiniteSet(H)
        <3>1. IsFiniteSet(ToSet(heard))
            OBVIOUS
        <3>4. IsFiniteSet(OpenLinks(m))
            BY <1>1, LinksAreFinite, FS_Subset
        <3>2. IsFiniteSet(ToSet(heard) \X OpenLinks(m))
            BY <3>1, <3>4, FS_Product
        <3>3. H \subseteq ToSet(heard) \X OpenLinks(m)
            OBVIOUS
        <3> HIDE DEF H
        <3> QED
            BY <3>2, <3>3, FS_Subset
    <2>3. \A h \in H : Truthful(Passed(h), made)
        <3> SUFFICES ASSUME NEW h \in H PROVE Truthful(Passed(h), made)
            OBVIOUS
        <3> DEFINE d == h[1]
                   e == Passed(h)
        <3>1. d \in ToSet(heard) /\ h[2] \in Players /\ Linked(Host, h[2])
            BY <1>1, <1>4 DEF Links
        <3>2. Truthful(d, made)
            BY <3>1
        <3>3. /\ DOMAIN e = DatagramFields
              /\ e.link = Host /\ e.to = h[2] /\ e.player = d.player /\ e.first = d.first
              /\ e.tick = d.tick /\ e.values = d.values /\ e.lead = d.lead
            BY <3>2 DEF Truthful, DatagramFields
        <3> HIDE DEF d, e
        <3> QED
            BY <3>1, <3>2, <3>3, HostAssumption DEF Truthful, e
    <2> HIDE DEF H
    <2>4. IsFiniteSet({Passed(h) : h \in H})
        <3> DEFINE f == [h \in H |-> Passed(h)]
        <3>1. {Passed(h) : h \in H} = {f[h] : h \in H}
            OBVIOUS
        <3> HIDE DEF f
        <3>2. IsFiniteSet({f[h] : h \in H})
            BY <2>2, ImageIsFinite
        <3> QED
            BY <3>1, <3>2
    <2> QED
        BY <2>1, <2>3, <2>4
<1> QED
    BY <1>3, <1>4

LEMMA RelayedIsTruthful ==
    ASSUME NetInv, NEW p \in Players, NEW heard \in Arrivals(p)
    PROVE  IsFiniteSet(Relayed(p, heard)) /\ \A d \in Relayed(p, heard) : Truthful(d, Made)
<1>1. OpenLinks(peer[p]) \subseteq Links(p)
    BY DEF NetInv, Machine, OpenLinks
<1>2. ToSet(heard) \subseteq datagrams
    BY InboxesAreFinite DEF NetInv
<1>3. IsFiniteSet(ToSet(heard)) /\ \A d \in ToSet(heard) : Truthful(d, Made)
    BY <1>2, FS_Subset DEF NetInv
<1> QED
    BY <1>1, <1>3, RelaysAreTruthful

-----------------------------------------------------------------------------
(* What a tick makes of the machine that runs it, and of the others.       *)
LEMMA MachineMoves ==
    ASSUME NetInv, NEW p \in Players, NEW heard \in Arrivals(p), NEW upto,
           NEW v \in Plays(p, peer[p].sess.next), Advance(p, heard, upto, v)
    PROVE  LET ran == Moved(p, heard, upto, v)
               e == peer'[p]
           IN  /\ e = Exchanged(ran)
               /\ DOMAIN ran = MachineFields /\ DOMAIN e = MachineFields
               /\ ran.sess = AdvanceOf(Pressed(p, Hear(p, heard, upto), v).sess)
               /\ Sound(ran.sess, MadeWith(p, v))
               /\ peer[p].sess.next \in Nat \ {0} /\ ran.sess.next = peer[p].sess.next + 1
               /\ ran.sess.dirty = NoTick
               /\ NewestOf(ran.sess, p) = peer[p].sess.next
               /\ \A q \in Players \ {p} : ran.sess.next <= NewestOf(ran.sess, q) + Leeway + 1
               /\ InTime /\ Gapless(peer[p].sess) => Gapless(ran.sess)
               /\ e.sess = ran.sess /\ e.mine = MadeWith(p, v)[p]
               /\ e.theirLead \in [Links(p) -> Int]
               /\ e.settled = SettledUpTo(ran) /\ e.settled \in Nat
               /\ peer[p].settled <= e.settled
               /\ ran.settled = peer[p].settled /\ ran.desync = peer[p].desync
               /\ ran.claimed = Hear(p, heard, upto).claimed
               /\ ran.claimed \subseteq (1 .. MaxTick) \X Links(p)
               /\ e.claimed \subseteq ran.claimed
               /\ \A k \in ran.claimed : k \in e.claimed \/ Over(ran.sess, k[1])
               /\ e.desync \in Nat \union {NoTick}
               /\ \/ e.desync = ran.desync
                  \/ \E k \in ran.claimed :
                        /\ \A j \in ran.claimed : ~Over(ran.sess, j[1]) => k[1] < j[1]
                        /\ Confirmed(ran.sess, k[1])
                        /\ k[1] \in DOMAIN ran.sess.digests
                        /\ published[k[2]][k[1]] # ran.sess.digests[k[1]]
               /\ \A q \in Players \ {p} : peer'[q] = peer[q]
               /\ peer' = [q \in Players |-> peer'[q]]
               /\ Made' = MadeWith(p, v)
<1> DEFINE ran == Moved(p, heard, upto, v)
           e == peer'[p]
           later == MadeWith(p, v)
<1>1. /\ peer[p].sess.next <= MaxTick /\ ~ShouldWait(p)
      /\ peer' = [peer EXCEPT ![p] = Exchanged(ran)]
    BY DEF Advance, AdvanceThen, Moved
<1>2. /\ DOMAIN ran = MachineFields
      /\ ran.sess = AdvanceOf(Pressed(p, Hear(p, heard, upto), v).sess)
      /\ ran.mine = later[p] /\ ran.settled = peer[p].settled /\ ran.desync = peer[p].desync
      /\ ran.theirLead \in [Links(p) -> Int]
      /\ ran.claimed = Hear(p, heard, upto).claimed
      /\ Sound(ran.sess, later)
      /\ peer[p].sess.next \in Nat \ {0} /\ ran.sess.next = peer[p].sess.next + 1
      /\ ran.sess.dirty = NoTick
      /\ NewestOf(ran.sess, p) = peer[p].sess.next
      /\ \A q \in Players \ {p} : ran.sess.next <= NewestOf(ran.sess, q) + Leeway + 1
      /\ InTime /\ Gapless(peer[p].sess) => Gapless(ran.sess)
    BY <1>1, MovedSound, Zenon
<1>3. peer = [q \in Players |-> peer[q]]
    BY DEF NetInv
<1>4. e = Exchanged(ran) /\ \A q \in Players \ {p} : peer'[q] = peer[q]
    BY <1>1, <1>3
<1>5. peer' = [q \in Players |-> peer'[q]]
    BY <1>1, <1>3
<1>6. /\ peer[p].settled \in Nat /\ peer[p].desync \in Nat \union {NoTick}
      /\ peer[p].claimed \subseteq (1 .. MaxTick) \X Links(p)
    BY DEF NetInv, Machine
<1>7. ran.claimed \subseteq (1 .. MaxTick) \X Links(p)
    BY <1>2, <1>6, HearSound
<1>8. \A k \in ran.claimed : k[1] \in Nat
    BY <1>7, BoundAssumption
<1> HIDE DEF e, ran, later
<1>9. ran.settled \in Nat /\ ran.sess.next \in Nat
    BY <1>2, <1>6
<1>10. /\ DOMAIN e = MachineFields
       /\ e.sess = ran.sess /\ e.mine = ran.mine /\ e.theirLead = ran.theirLead
       /\ e.settled = SettledUpTo(ran)
       /\ e.claimed \subseteq ran.claimed
       /\ \A k \in ran.claimed : k \in e.claimed \/ Over(ran.sess, k[1])
       /\ e.desync = ran.desync \/ e.desync \in Nat
       /\ \/ e.desync = ran.desync
          \/ \E k \in ran.claimed :
                /\ \A j \in ran.claimed : ~Over(ran.sess, j[1]) => k[1] < j[1]
                /\ Confirmed(ran.sess, k[1])
                /\ k[1] \in DOMAIN ran.sess.digests
                /\ published[k[2]][k[1]] # ran.sess.digests[k[1]]
    BY <1>2, <1>4, <1>8, <1>9, ExchangedIs
<1>11. e.settled \in Nat /\ ran.settled <= e.settled
    BY <1>2, <1>9, <1>10, SettledIs
<1>12. Made' = later
    <2>1. Made' = [q \in Players |-> peer'[q].mine]
        BY DEF Made
    <2>2. /\ DOMAIN later = Players /\ \A q \in Players \ {p} : later[q] = peer[q].mine
        BY DEF later, MadeWith, Made
    <2>3. later = [q \in Players |-> later[q]]
        BY DEF later, MadeWith, Made
    <2>4. \A q \in Players : peer'[q].mine = later[q]
        BY <1>2, <1>4, <1>10, <2>2 DEF e
    <2> QED
        BY <2>1, <2>3, <2>4
<1> QED
    BY <1>2, <1>4, <1>5, <1>6, <1>7, <1>10, <1>11, <1>12 DEF e, ran, later

LEMMA NetInvAdvance ==
    ASSUME NetInv, NEW p \in Players, NEW heard \in Arrivals(p), NEW upto,
           NEW v \in Plays(p, peer[p].sess.next), Advance(p, heard, upto, v)
    PROVE  NetInv'
<1> DEFINE ran == Moved(p, heard, upto, v)
           x == Pressed(p, Hear(p, heard, upto), v)
           e == peer'[p]
           later == MadeWith(p, v)
<1>1. /\ peer[p].sess.next <= MaxTick /\ ~ShouldWait(p)
      /\ published' = [published EXCEPT ![p] = Joined(@, ToPublish(ran))]
      /\ datagrams' = Carried((datagrams \ ToSet(heard)) \union Relayed(p, heard) \union Sent(p, x))
      /\ read' = [read EXCEPT ![p] = upto]
    BY DEF Advance, AdvanceThen, Moved
<1>2. /\ Sound(ran.sess, later)
      /\ peer[p].sess.next \in Nat \ {0} /\ ran.sess.next = peer[p].sess.next + 1
      /\ NewestOf(ran.sess, p) = peer[p].sess.next
      /\ \A q \in Players \ {p} : ran.sess.next <= NewestOf(ran.sess, q) + Leeway + 1
    BY MachineMoves
<1>3. /\ DOMAIN e = MachineFields
      /\ e.sess = ran.sess /\ e.mine = later[p]
      /\ e.theirLead \in [Links(p) -> Int]
      /\ e.settled \in Nat
      /\ e.claimed \subseteq (1 .. MaxTick) \X Links(p)
      /\ e.desync \in Nat \union {NoTick}
      /\ \A q \in Players \ {p} : peer'[q] = peer[q]
      /\ peer' = [q \in Players |-> peer'[q]]
      /\ Made' = later
    BY MachineMoves
<1>14. Making(later)
    BY <1>1, MakingOneMore
<1>4. /\ Extends(Made, later) /\ DOMAIN later[p] = 1 .. peer[p].sess.next
      /\ later[p] = Put(peer[p].mine, peer[p].sess.next, v)
    BY <1>1, MakingOneMore
<1>5. IsFiniteSet(Sent(p, x)) /\ \A d \in Sent(p, x) : Truthful(d, later)
    BY <1>1, SentIsTruthful
<1>6. IsFiniteSet(Relayed(p, heard)) /\ \A d \in Relayed(p, heard) : Truthful(d, Made)
    BY RelayedIsTruthful
<1> HIDE DEF ran, x, e, later
<1>7. Machine(p)' /\ Paced(p)'
    <2>1. \A t \in DOMAIN e.mine : e.mine[t] \in Plays(p, t)
        <3>1. /\ DOMAIN peer[p].mine = 1 .. peer[p].sess.next - 1
              /\ \A t \in DOMAIN peer[p].mine : peer[p].mine[t] \in Plays(p, t)
            BY DEF NetInv, Machine
        <3> QED
            BY <1>3, <1>4, <3>1 DEF Put
    <2>2. /\ e.sess.next <= MaxTick + 1 /\ DOMAIN e.mine = 1 .. e.sess.next - 1
          /\ NewestOf(e.sess, p) = e.sess.next - 1
        BY <1>1, <1>2, <1>3, <1>4, BoundAssumption
    <2>5. e.mine \in [1 .. e.sess.next - 1 -> Input]
        <3>1. \A t \in DOMAIN e.mine : e.mine[t] \in Input
            BY <1>3, <1>14 DEF Making
        <3>2. e.mine = [t \in DOMAIN e.mine |-> e.mine[t]]
            BY <1>3, <1>4 DEF Put
        <3> QED
            BY <2>2, <3>1, <3>2
    <2>3. Machine(p)'
        BY <1>2, <1>3, <2>1, <2>2, <2>5 DEF Machine, e
    <2>4. Paced(p)'
        BY <1>2, <1>3 DEF Paced, e
    <2> QED
        BY <2>3, <2>4
<1>8. ASSUME NEW q \in Players \ {p}
      PROVE  Machine(q)' /\ Paced(q)'
    <2>1. Machine(q) /\ Paced(q) /\ peer'[q] = peer[q]
        BY <1>3 DEF NetInv
    <2>2. Sound(peer[q].sess, later)
        BY <1>4, <2>1, SoundLater DEF Machine
    <2>3. Machine(q)'
        BY <1>3, <2>1, <2>2 DEF Machine
    <2> QED
        BY <2>1, <2>3 DEF Paced
<1> DEFINE sent == (datagrams \ ToSet(heard)) \union Relayed(p, heard) \union Sent(p, x)
<1>9. IsFiniteSet(sent)
    <2>1. IsFiniteSet(datagrams \ ToSet(heard))
        BY FS_Subset DEF NetInv
    <2>2. IsFiniteSet((datagrams \ ToSet(heard)) \union Relayed(p, heard))
        BY <1>6, <2>1, FS_Union
    <2> QED
        BY <1>5, <2>2, FS_Union
<1>10. \A d \in sent : Truthful(d, later)
    <2>1. \A d : Truthful(d, Made) => Truthful(d, later)
        BY <1>4, TruthfulLater
    <2> QED
        BY <1>5, <1>6, <2>1 DEF NetInv
<1> HIDE DEF sent
<1>11. datagrams' \subseteq sent
    BY <1>1 DEF Carried, sent
<1>12. IsFiniteSet(datagrams') /\ \A d \in datagrams' : Truthful(d, later)
    BY <1>9, <1>10, <1>11, FS_Subset
<1>13. /\ published' = [q \in Players |-> published'[q]]
       /\ read' = [q \in Players |-> read'[q]]
    <2>1. published = [q \in Players |-> published[q]] /\ read = [q \in Players |-> read[q]]
        BY DEF NetInv
    <2> QED
        BY <1>1, <2>1
<1> QED
    BY <1>3, <1>7, <1>8, <1>12, <1>13 DEF NetInv

LEMMA NetInvPoll ==
    ASSUME NetInv, NEW p \in Players, NEW heard \in Arrivals(p), NEW upto, Poll(p, heard, upto)
    PROVE  NetInv' /\ Made' = Made
<1> DEFINE e == peer'[p]
           n == Hear(p, heard, upto)
<1>1. /\ peer' = [peer EXCEPT ![p] = n]
      /\ datagrams' = Carried((datagrams \ ToSet(heard)) \union Relayed(p, heard))
      /\ read' = [read EXCEPT ![p] = upto] /\ published' = published
    BY DEF Poll, PollThen
<1>2. /\ DOMAIN n = MachineFields
      /\ n.mine = peer[p].mine /\ n.settled = peer[p].settled /\ n.desync = peer[p].desync
      /\ n.theirLead \in [Links(p) -> Int]
      /\ n.claimed = peer[p].claimed \union {k \in (1 .. MaxTick) \X Links(p) :
                /\ k[1] \in DOMAIN published[k[2]]
                /\ read[p][k[2]] < k[1] /\ k[1] <= upto[k[2]]}
      /\ Sound(n.sess, Made) /\ Grown(peer[p].sess, n.sess)
    BY HearSound
<1>3. /\ peer = [q \in Players |-> peer[q]]
      /\ published = [q \in Players |-> published[q]] /\ read = [q \in Players |-> read[q]]
    BY DEF NetInv
<1> HIDE DEF n
<1>4. /\ e = n /\ (\A q \in Players \ {p} : peer'[q] = peer[q])
      /\ peer' = [q \in Players |-> peer'[q]]
      /\ published' = [q \in Players |-> published'[q]]
      /\ read' = [q \in Players |-> read'[q]]
    BY <1>1, <1>3
<1> HIDE DEF e
<1>5. Made' = Made
    <2>1. Made' = [q \in Players |-> peer'[q].mine] /\ Made = [q \in Players |-> peer[q].mine]
        BY DEF Made
    <2>2. \A q \in Players : peer'[q].mine = peer[q].mine
        BY <1>2, <1>4 DEF e
    <2> QED
        BY <2>1, <2>2
<1>6. Machine(p)' /\ Paced(p)'
    <2>1. Machine(p) /\ Paced(p)
        BY DEF NetInv
    <2>2. /\ n.sess.next = peer[p].sess.next /\ peer[p].sess.next \in Nat \ {0}
          /\ \A q \in Players : NewestOf(peer[p].sess, q) <= NewestOf(n.sess, q)
        BY <1>2, MadeIsMaking DEF Grown
    <2>3. \A q \in Players : NewestOf(peer[p].sess, q) \in Nat /\ NewestOf(n.sess, q) \in Nat
        BY <1>2, MadeIsMaking, NewestIsMade, SoundNumbers
    <2>4. NewestOf(n.sess, p) = n.sess.next - 1
        <3>1. NewestOf(n.sess, p) \in (1 .. peer[p].sess.next - 1) \union {0}
            BY <1>2, MadeIsMaking DEF Sound
        <3>2. NewestOf(peer[p].sess, p) = peer[p].sess.next - 1
            BY NewestIsMade
        <3> QED
            BY <2>2, <2>3, <3>1, <3>2
    <2>5. n.claimed \subseteq (1 .. MaxTick) \X Links(p)
        BY <1>2, <2>1 DEF Machine
    <2>6. Machine(p)'
        BY <1>2, <1>4, <1>5, <2>1, <2>2, <2>4, <2>5 DEF Machine, e
    <2>7. \A q \in Players \ {p} : n.sess.next > 1 => n.sess.next <= NewestOf(n.sess, q) + Leeway + 1
        <3>1. Leeway \in Int
            BY DepthAssumption, PacingAssumption DEF Leeway
        <3>2. \A q \in Players \ {p} : peer[p].sess.next > 1 =>
                peer[p].sess.next <= NewestOf(peer[p].sess, q) + Leeway + 1
            BY <2>1 DEF Paced
        <3> QED
            BY <2>2, <2>3, <3>1, <3>2
    <2>8. Paced(p)'
        BY <1>4, <2>7 DEF Paced, e
    <2> QED
        BY <2>6, <2>8
<1>7. ASSUME NEW q \in Players \ {p}
      PROVE  Machine(q)' /\ Paced(q)'
    <2>1. Machine(q) /\ Paced(q) /\ peer'[q] = peer[q]
        BY <1>4 DEF NetInv
    <2>2. Machine(q)'
        BY <1>5, <2>1 DEF Machine
    <2> QED
        BY <2>1, <2>2 DEF Paced
<1> DEFINE sent == (datagrams \ ToSet(heard)) \union Relayed(p, heard)
<1>8. IsFiniteSet(sent) /\ \A d \in sent : Truthful(d, Made)
    <2>1. IsFiniteSet(datagrams \ ToSet(heard))
        BY FS_Subset DEF NetInv
    <2>2. IsFiniteSet(sent)
        BY <2>1, RelayedIsTruthful, FS_Union
    <2> QED
        BY <2>2, RelayedIsTruthful DEF NetInv
<1> HIDE DEF sent
<1>9. datagrams' \subseteq sent
    BY <1>1 DEF Carried, sent
<1>10. IsFiniteSet(datagrams') /\ \A d \in datagrams' : Truthful(d, Made')
    BY <1>5, <1>8, <1>9, FS_Subset
<1> QED
    BY <1>4, <1>5, <1>6, <1>7, <1>10 DEF NetInv

LEMMA NetInvLose ==
    ASSUME NetInv, NEW d \in datagrams, Lose(d)
    PROVE  NetInv' /\ Made' = Made
<1>1. /\ datagrams' \subseteq datagrams
      /\ peer' = peer /\ published' = published /\ read' = read
    BY DEF Lose
<1>2. Made' = Made
    BY <1>1 DEF Made
<1>3. IsFiniteSet(datagrams')
    BY <1>1, FS_Subset DEF NetInv
<1>4. \A p \in Players : Machine(p)' /\ Paced(p)'
    BY <1>1, <1>2 DEF NetInv, Machine, Paced
<1> QED
    BY <1>1, <1>2, <1>3, <1>4 DEF NetInv

LEMMA NetInvKept ==
    ASSUME NetInv, [Next]_vars
    PROVE  NetInv'
<1>1. CASE UNCHANGED vars
    <2>1. /\ peer' = peer /\ datagrams' = datagrams /\ published' = published /\ read' = read
        BY <1>1 DEF vars
    <2>2. Made' = Made
        BY <2>1 DEF Made
    <2>3. \A p \in Players : Machine(p)' /\ Paced(p)'
        BY <2>1, <2>2 DEF NetInv, Machine, Paced
    <2> QED
        BY <2>1, <2>2, <2>3 DEF NetInv
<1>2. ASSUME NEW p \in Players, NEW heard \in Arrivals(p), NEW upto \in Reads(p),
             NEW v \in Plays(p, peer[p].sess.next), Advance(p, heard, upto, v)
      PROVE  NetInv'
    BY <1>2, NetInvAdvance
<1>3. ASSUME NEW p \in Players, NEW heard \in Arrivals(p), NEW upto \in Reads(p),
             Poll(p, heard, upto)
      PROVE  NetInv'
    BY <1>3, NetInvPoll
<1>4. ASSUME NEW d \in datagrams, Lose(d)
      PROVE  NetInv'
    BY <1>4, NetInvLose
<1> QED
    BY <1>1, <1>2, <1>3, <1>4 DEF Next

(* Every state of every match is one of machines that know only what was   *)
(* made, and that no one outruns.                                          *)
THEOREM MachinesAreSound == Spec => []NetInv
<1>1. Init => NetInv
    BY NetInvBegins
<1>2. NetInv /\ [Next]_vars => NetInv'
    BY NetInvKept
<1> QED
    BY <1>1, <1>2, PTL DEF Spec

(* What waiting buys (should_wait): the next input to come from any player *)
(* is for a tick not run yet, or one the ring can still answer for.        *)
THEOREM LateInputsCanBeAnswered == Spec => []LateInputsAreAnswerable
<1>1. NetInv => LateInputsAreAnswerable
    <2> SUFFICES ASSUME NetInv, NEW p \in Players, NEW q \in Players
                 PROVE  LET s == peer[p].sess
                        IN  NewestOf(s, q) + 1 >= s.next \/ NewestOf(s, q) + 1 \in DOMAIN s.ring
        BY DEF LateInputsAreAnswerable
    <2> DEFINE s == peer[p].sess
    <2>1. /\ s.next \in Nat \ {0} /\ NewestOf(s, q) \in Nat
          /\ q = p => NewestOf(s, q) = s.next - 1
          /\ q # p /\ s.next > 1 => s.next <= NewestOf(s, q) + Leeway + 1
        BY NewestIsMade
    <2>2. DOMAIN s.ring = RingTicks(s.next)
        BY MadeIsMaking, SoundNumbers DEF NetInv, Machine
    <2> HIDE DEF s
    <2>3. NewestOf(s, q) + 1 >= s.next \/ NewestOf(s, q) + 1 \in RingTicks(s.next)
        BY <2>1, DepthAssumption, PacingAssumption DEF Leeway, RingTicks
    <2> QED
        BY <2>2, <2>3 DEF s
<1> QED
    BY <1>1, MachinesAreSound, PTL

-----------------------------------------------------------------------------
(* What repeating the last inputs in each datagram buys.                   *)
NoGaps == \A p \in Players : Gapless(peer[p].sess)

(* Every datagram reaches back far enough for whoever is to read it.       *)
HeardStep ==
    \A p, q \in Players : peer'[p].sess.next # peer[p].sess.next =>
        peer[p].sess.next - NewestOf(peer[q].sess, p) <= Window

LEMMA SentReachesBack ==
    ASSUME NEW p, NEW x, NEW d \in Sent(p, x), x.sess.next \in Nat
    PROVE  /\ d.player = p
           /\ d.first = 1 \/ d.first = x.sess.next - Window + 1
BY DEF Sent

LEMMA RelayedReachesBack ==
    ASSUME NEW p, NEW heard, NEW d \in Relayed(p, heard),
           \A e \in ToSet(heard) : DOMAIN e = DatagramFields
    PROVE  \E e \in ToSet(heard) : d.player = e.player /\ d.first = e.first
<1>1. PICK h \in ToSet(heard) \X OpenLinks(peer[p]) : d = [h[1] EXCEPT !.link = Host, !.to = h[2]]
    BY DEF Relayed
<1>2. h[1] \in ToSet(heard) /\ DOMAIN h[1] = DatagramFields
    BY <1>1
<1>3. d.player = h[1].player /\ d.first = h[1].first
    BY <1>1, <1>2 DEF DatagramFields
<1> QED
    BY <1>2, <1>3

LEMMA CoveredLater ==
    ASSUME NEW s, NEW r, NEW d, d.first \in Nat, NewestOf(s, d.player) \in Nat,
           NewestOf(r, d.player) \in Nat, NewestOf(s, d.player) <= NewestOf(r, d.player),
           Covered(s, d)
    PROVE  Covered(r, d)
BY DEF Covered

(* Reading, and a tick, forget of nobody.                                  *)
LEMMA NewestGrows ==
    ASSUME NetInv, NEW p \in Players, NEW heard \in Arrivals(p), NEW upto,
           \/ Poll(p, heard, upto)
           \/ \E v \in Plays(p, peer[p].sess.next) : Advance(p, heard, upto, v)
    PROVE  \A q, x \in Players :
                /\ NewestOf(peer[q].sess, x) \in Nat /\ NewestOf(peer'[q].sess, x) \in Nat
                /\ NewestOf(peer[q].sess, x) <= NewestOf(peer'[q].sess, x)
<1>1. \A q, x \in Players : NewestOf(peer[q].sess, x) \in Nat
    BY NewestIsMade
<1>2. CASE Poll(p, heard, upto)
    <2> DEFINE n == Hear(p, heard, upto)
    <2>1. peer' = [peer EXCEPT ![p] = n] /\ peer = [q \in Players |-> peer[q]]
        BY <1>2 DEF Poll, PollThen, NetInv
    <2>2. Sound(n.sess, Made) /\ Grown(peer[p].sess, n.sess)
        BY HearSound
    <2> HIDE DEF n
    <2>3. \A x \in Players : NewestOf(n.sess, x) \in Nat
        BY <2>2, MadeIsMaking, SoundNumbers
    <2>4. peer'[p] = n /\ \A q \in Players \ {p} : peer'[q] = peer[q]
        BY <2>1
    <2>5. \A x \in Players : NewestOf(peer[p].sess, x) <= NewestOf(n.sess, x)
        BY <2>2 DEF Grown
    <2> QED
        BY <1>1, <2>3, <2>4, <2>5
<1>3. ASSUME NEW v \in Plays(p, peer[p].sess.next), Advance(p, heard, upto, v)
      PROVE  \A q, x \in Players :
                /\ NewestOf(peer'[q].sess, x) \in Nat
                /\ NewestOf(peer[q].sess, x) <= NewestOf(peer'[q].sess, x)
    <2> DEFINE x == Pressed(p, Hear(p, heard, upto), v).sess
               r == peer'[p].sess
               later == MadeWith(p, v)
    <2>1. /\ Sound(x, later) /\ Grown(peer[p].sess, x)
          /\ Making(later)
        BY <1>3, RunsATick, PressedSound, MakingOneMore
    <2>2. Sound(r, later)
        <3>1. peer'[p].sess = Moved(p, heard, upto, v).sess
            BY <1>3, MachineMoves
        <3> QED
            BY <1>3, <3>1, MachineMoves
    <2>3. r = AdvanceOf(x) /\ \A q \in Players \ {p} : peer'[q] = peer[q]
        BY <1>3, MachineMoves
    <2> HIDE DEF x, r, later
    <2>4. \A y \in Players : NewestOf(r, y) \in Nat /\ NewestOf(x, y) \in Nat
        BY <2>1, <2>2, SoundNumbers
    <2>5. \A y \in Players : NewestOf(r, y) = NewestOf(x, y)
        BY <2>1, <2>3, RanSound
    <2>6. \A y \in Players : NewestOf(peer[p].sess, y) <= NewestOf(x, y)
        BY <2>1 DEF Grown
    <2>7. \A y \in Players : NewestOf(peer[p].sess, y) <= NewestOf(r, y)
        BY <2>5, <2>6
    <2> QED
        BY <1>1, <2>3, <2>4, <2>7 DEF r
<1> QED
    BY <1>1, <1>2, <1>3

LEMMA InTimeAdvance ==
    ASSUME InTime, NetInv, HeardStep, NEW p \in Players, NEW heard \in Arrivals(p), NEW upto,
           NEW v \in Plays(p, peer[p].sess.next), Advance(p, heard, upto, v)
    PROVE  InTime'
<1> DEFINE x == Pressed(p, Hear(p, heard, upto), v)
           n == peer[p].sess.next
<1>1. /\ datagrams' \subseteq (datagrams \ ToSet(heard)) \union Relayed(p, heard) \union Sent(p, x)
      /\ n \in Nat \ {0} /\ peer'[p].sess.next = n + 1 /\ x.sess.next = n
    <2>1. datagrams' \subseteq (datagrams \ ToSet(heard)) \union Relayed(p, heard) \union Sent(p, x)
        BY DEF Advance, AdvanceThen, Carried
    <2>2. n \in Nat \ {0} /\ peer'[p].sess.next = n + 1
        <3>1. peer'[p].sess = Moved(p, heard, upto, v).sess
            BY MachineMoves
        <3> QED
            BY <3>1, MachineMoves
    <2>3. x.sess.next = n
        BY RunsATick, PressedSound DEF Grown
    <2> QED
        BY <2>1, <2>2, <2>3
<1>2. \A q \in Players : n - NewestOf(peer[q].sess, p) <= Window
    BY <1>1 DEF HeardStep
<1>3. \A q, y \in Players : /\ NewestOf(peer[q].sess, y) \in Nat
                            /\ NewestOf(peer'[q].sess, y) \in Nat
                            /\ NewestOf(peer[q].sess, y) <= NewestOf(peer'[q].sess, y)
    BY NewestGrows
<1>4. ToSet(heard) \subseteq datagrams
    BY InboxesAreFinite DEF NetInv
<1>5. \A d \in datagrams : /\ DOMAIN d = DatagramFields /\ d.first \in Nat /\ d.player \in Players
                           /\ \A q \in Players : Covered(peer[q].sess, d)
    BY DEF NetInv, Truthful, InTime
<1> HIDE DEF x, n
<1>6. ASSUME NEW d \in datagrams, NEW q \in Players
      PROVE  Covered(peer'[q].sess, d)
    BY <1>3, <1>5, CoveredLater
<1>7. ASSUME NEW d \in Relayed(p, heard), NEW q \in Players
      PROVE  Covered(peer'[q].sess, d)
    <2>1. PICK e \in ToSet(heard) : d.player = e.player /\ d.first = e.first
        BY <1>4, <1>5, RelayedReachesBack
    <2> QED
        BY <1>4, <1>6, <2>1 DEF Covered
<1>8. ASSUME NEW d \in Sent(p, x), NEW q \in Players
      PROVE  Covered(peer'[q].sess, d)
    <2>1. d.player = p /\ (d.first = 1 \/ d.first = n - Window + 1)
        BY <1>1, SentReachesBack
    <2>2. n - NewestOf(peer[q].sess, p) <= Window
        BY <1>2
    <2> DEFINE b == NewestOf(peer[q].sess, p)
               c == NewestOf(peer'[q].sess, p)
    <2>3. b \in Nat /\ c \in Nat /\ b <= c
        BY <1>3
    <2> HIDE DEF b, c
    <2>4. d.first <= c + 1
        BY <1>1, <2>1, <2>2, <2>3, PacingAssumption DEF b
    <2> QED
        BY <2>1, <2>4 DEF Covered, c
<1>9. ASSUME NEW d \in datagrams', NEW q \in Players
      PROVE  Covered(peer'[q].sess, d)
    BY <1>1, <1>6, <1>7, <1>8
<1> QED
    BY <1>9 DEF InTime, Covered

LEMMA InTimePoll ==
    ASSUME InTime, NetInv, NEW p \in Players, NEW heard \in Arrivals(p), NEW upto,
           Poll(p, heard, upto)
    PROVE  InTime'
<1>1. datagrams' \subseteq (datagrams \ ToSet(heard)) \union Relayed(p, heard)
    BY DEF Poll, PollThen, Carried
<1>2. \A q, y \in Players : /\ NewestOf(peer[q].sess, y) \in Nat
                            /\ NewestOf(peer'[q].sess, y) \in Nat
                            /\ NewestOf(peer[q].sess, y) <= NewestOf(peer'[q].sess, y)
    BY NewestGrows
<1>3. ToSet(heard) \subseteq datagrams
    BY InboxesAreFinite DEF NetInv
<1>4. \A d \in datagrams : /\ DOMAIN d = DatagramFields /\ d.first \in Nat /\ d.player \in Players
                           /\ \A q \in Players : Covered(peer[q].sess, d)
    BY DEF NetInv, Truthful, InTime
<1>5. ASSUME NEW d \in datagrams, NEW q \in Players
      PROVE  Covered(peer'[q].sess, d)
    BY <1>2, <1>4, CoveredLater
<1>6. ASSUME NEW d \in Relayed(p, heard), NEW q \in Players
      PROVE  Covered(peer'[q].sess, d)
    <2>1. PICK e \in ToSet(heard) : d.player = e.player /\ d.first = e.first
        BY <1>3, <1>4, RelayedReachesBack
    <2> QED
        BY <1>3, <1>5, <2>1 DEF Covered
<1>7. ASSUME NEW d \in datagrams', NEW q \in Players
      PROVE  Covered(peer'[q].sess, d)
    BY <1>1, <1>5, <1>6
<1> QED
    BY <1>7 DEF InTime, Covered

LEMMA InTimeKept ==
    ASSUME InTime, NetInv, [Next]_vars, [HeardStep]_vars
    PROVE  InTime'
<1>1. CASE UNCHANGED vars
    BY <1>1 DEF vars, InTime
<1>2. ASSUME NEW p \in Players, NEW heard \in Arrivals(p), NEW upto \in Reads(p),
             NEW v \in Plays(p, peer[p].sess.next), Advance(p, heard, upto, v)
      PROVE  InTime'
    <2>1. CASE UNCHANGED vars
        BY <1>1, <2>1
    <2>2. CASE HeardStep
        BY <1>2, <2>2, InTimeAdvance
    <2> QED
        BY <2>1, <2>2
<1>3. ASSUME NEW p \in Players, NEW heard \in Arrivals(p), NEW upto \in Reads(p),
             Poll(p, heard, upto)
      PROVE  InTime'
    BY <1>3, InTimePoll
<1>4. ASSUME NEW d \in datagrams, Lose(d)
      PROVE  InTime'
    BY <1>4 DEF Lose, InTime
<1> QED
    BY <1>1, <1>2, <1>3, <1>4 DEF Next

LEMMA InTimeAlways == Spec /\ HeardInTime => []InTime
<1>1. Init => InTime
    BY DEF Init, InTime
<1>2. InTime /\ NetInv /\ [Next]_vars /\ [HeardStep]_vars => InTime'
    BY InTimeKept
<1>3. HeardInTime <=> [][HeardStep]_vars
    BY DEF HeardInTime, HeardStep
<1> QED
    BY <1>1, <1>2, <1>3, MachinesAreSound, PTL DEF Spec

LEMMA NoGapsKept ==
    ASSUME InTime, NetInv, NoGaps, [Next]_vars
    PROVE  NoGaps'
<1>1. CASE UNCHANGED vars
    BY <1>1 DEF vars, NoGaps
<1>2. ASSUME NEW p \in Players, NEW heard \in Arrivals(p), NEW upto \in Reads(p),
             NEW v \in Plays(p, peer[p].sess.next), Advance(p, heard, upto, v)
      PROVE  NoGaps'
    <2> DEFINE ran == Moved(p, heard, upto, v)
    <2>1. /\ peer'[p].sess = ran.sess
          /\ InTime /\ Gapless(peer[p].sess) => Gapless(ran.sess)
          /\ \A q \in Players \ {p} : peer'[q] = peer[q]
        BY <1>2, MachineMoves
    <2> HIDE DEF ran
    <2> QED
        BY <2>1 DEF NoGaps
<1>3. ASSUME NEW p \in Players, NEW heard \in Arrivals(p), NEW upto \in Reads(p),
             Poll(p, heard, upto)
      PROVE  NoGaps'
    <2> DEFINE n == Hear(p, heard, upto)
    <2>1. peer' = [peer EXCEPT ![p] = n] /\ peer = [q \in Players |-> peer[q]]
        BY <1>3 DEF Poll, PollThen, NetInv
    <2>2. Gapless(n.sess)
        BY HearSound DEF NoGaps
    <2> HIDE DEF n
    <2> QED
        BY <2>1, <2>2 DEF NoGaps
<1>4. ASSUME NEW d \in datagrams, Lose(d)
      PROVE  NoGaps'
    BY <1>4 DEF Lose, NoGaps
<1> QED
    BY <1>1, <1>2, <1>3, <1>4 DEF Next

LEMMA NoGapsAlways == Spec /\ HeardInTime => []NoGaps
<1>1. Init => NoGaps
    <2> SUFFICES ASSUME Init, NEW p \in Players PROVE Gapless(peer[p].sess)
        BY DEF NoGaps
    <2> DEFINE s == peer[p].sess
    <2>1. s.newest = NoEntries
        BY DEF Init, NewPeer, NewSession
    <2> HIDE DEF s
    <2>2. \A q \in Players : NewestOf(s, q) = 0
        BY <2>1 DEF NewestOf, NoEntries
    <2> QED
        BY <2>2 DEF Gapless, s
<1>2. NoGaps /\ InTime /\ NetInv /\ [Next]_vars => NoGaps'
    BY NoGapsKept
<1> QED
    BY <1>1, <1>2, MachinesAreSound, InTimeAlways, PTL DEF Spec

(* What the window buys (broadcast_inputs repeats the last INPUT_WINDOW    *)
(* ticks): whatever is lost or reordered, for as long as no machine goes   *)
(* unheard for longer than the window, no input is missing behind a newer  *)
(* one for a tick that can run again.                                      *)
THEOREM GapsAreAlwaysRepaired == Spec /\ HeardInTime => []GapsAreRepaired
<1>1. NoGaps => GapsAreRepaired
    BY DEF NoGaps, Gapless, GapsAreRepaired
<1> QED
    BY <1>1, NoGapsAlways, PTL

(* A window that covers the leeway leaves the network no say: a machine    *)
(* that has gone unheard for longer is made to wait (should_wait).         *)
THEOREM WideWindowsAreHeard ==
    ASSUME WindowCovers
    PROVE  Spec => HeardInTime
<1>1. ASSUME NetInv, NEW p \in Players, NEW q \in Players, ~ShouldWait(p)
      PROVE  peer[p].sess.next - NewestOf(peer[q].sess, p) <= Window
    <2> DEFINE n == peer[p].sess.next
               m == peer[q].sess.next
               a == NewestOf(peer[p].sess, q)
               b == NewestOf(peer[q].sess, p)
    <2>1. /\ n \in Nat \ {0} /\ a \in Nat /\ a <= m - 1
          /\ m \in Nat \ {0} /\ b \in Nat
          /\ q = p => b = m - 1
          /\ q # p /\ m > 1 => m <= b + Leeway + 1
        <3>1. n \in Nat \ {0} /\ a \in Nat /\ a <= m - 1
            BY <1>1, NewestIsMade
        <3>2. /\ m \in Nat \ {0} /\ b \in Nat
              /\ p = q => b = m - 1
              /\ p # q /\ m > 1 => m <= b + Leeway + 1
            BY <1>1, NewestIsMade
        <3> QED
            BY <3>1, <3>2
    <2>2. q # p => n <= a + Leeway
        BY <1>1, RunsWithinLeeway
    <2>3. q = p => n = m
        OBVIOUS
    <2>4. Leeway \in Int /\ Window \in Nat \ {0} /\ Window >= 2 * Leeway
        BY DepthAssumption, PacingAssumption DEF Leeway, WindowCovers
    <2> HIDE DEF n, m, a, b
    <2>5. n - b <= Window
        BY <2>1, <2>2, <2>3, <2>4
    <2> QED
        BY <2>5 DEF n, b
<1>2. NetInv /\ [Next]_vars => [HeardStep]_vars
    <2> SUFFICES ASSUME NetInv, [Next]_vars, ~UNCHANGED vars, NEW p \in Players, NEW q \in Players,
                        peer'[p].sess.next # peer[p].sess.next
                 PROVE  peer[p].sess.next - NewestOf(peer[q].sess, p) <= Window
        BY DEF HeardStep
    <2>1. ASSUME NEW r \in Players, NEW heard \in Arrivals(r), NEW upto \in Reads(r),
                 NEW v \in Plays(r, peer[r].sess.next), Advance(r, heard, upto, v)
          PROVE  ~ShouldWait(p)
        <3>1. \A x \in Players \ {r} : peer'[x] = peer[x]
            BY <2>1, MachineMoves
        <3> QED
            BY <2>1, <3>1, RunsATick
    <2>2. ASSUME NEW r \in Players, NEW heard \in Arrivals(r), NEW upto \in Reads(r),
                 Poll(r, heard, upto)
          PROVE  FALSE
        <3> DEFINE n == Hear(r, heard, upto)
        <3>1. peer' = [peer EXCEPT ![r] = n] /\ peer = [x \in Players |-> peer[x]]
            BY <2>2 DEF Poll, PollThen, NetInv
        <3>2. n.sess.next = peer[r].sess.next
            BY HearSound DEF Grown
        <3> HIDE DEF n
        <3> QED
            BY <3>1, <3>2
    <2>3. ASSUME NEW d \in datagrams, Lose(d)
          PROVE  FALSE
        BY <2>3 DEF Lose
    <2> QED
        BY <1>1, <2>1, <2>2, <2>3 DEF Next
<1>3. HeardInTime <=> [][HeardStep]_vars
    BY DEF HeardInTime, HeardStep
<1> QED
    BY <1>2, <1>3, MachinesAreSound, PTL DEF Spec

-----------------------------------------------------------------------------
(* What a frame makes of the claims a machine holds: one that stays waits  *)
(* for a tick not over here, or its digest is gone; another was compared.  *)
Overdue(m, k) == \A j \in m.claimed : j[1] <= k[1] => Over(m.sess, j[1])

LEMMA ClaimIsCompared ==
    ASSUME NEW m, DOMAIN m = MachineFields, m.sess.next \in Nat, m.sess.next > Lag,
           \A k \in m.claimed : k[1] \in Nat,
           \A t \in DOMAIN m.sess.digests : ~BelowRing(m.sess, t),
           NEW k \in m.claimed, k[1] \in DOMAIN m.sess.digests
    PROVE  LET e == Exchanged(m)
           IN  IF k \in e.claimed THEN ~Overdue(m, k)
               ELSE /\ Overdue(m, k)
                    /\ \/ published[k[2]][k[1]] = m.sess.digests[k[1]]
                       \/ e.desync # NoTick
<1> DEFINE x == [m EXCEPT !.settled = SettledUpTo(m)]
           reached == {c \in m.claimed : \A j \in m.claimed : ~Over(m.sess, j[1]) => c[1] < j[1]}
           sure == {c \in reached : Confirmed(m.sess, c[1])}
           compared == {c \in sure : c[1] \in DOMAIN m.sess.digests}
           wrong == {c \in compared : published[c[2]][c[1]] # m.sess.digests[c[1]]}
           ticks == {c[1] : c \in wrong}
           e == Exchanged(m)
<1>1. e = CompareClaims(x)
    BY PacingAssumption DEF Exchanged
<1>2. /\ DOMAIN x = MachineFields /\ x.sess = m.sess
      /\ x.claimed = m.claimed /\ x.desync = m.desync
    BY DEF MachineFields
<1> HIDE DEF x, e
<1>3. e = [x EXCEPT !.claimed = (@ \ reached) \union (sure \ compared),
                    !.desync = IF @ = NoTick /\ wrong # {} THEN Min(ticks) ELSE @]
    BY <1>1, <1>2 DEF CompareClaims
<1> HIDE DEF reached, sure, compared, wrong, ticks
<1>4. /\ e.claimed = (m.claimed \ reached) \union (sure \ compared)
      /\ e.desync = IF m.desync = NoTick /\ wrong # {} THEN Min(ticks) ELSE m.desync
    BY <1>2, <1>3 DEF MachineFields
<1>5. k \in reached <=> Overdue(m, k)
    <2>1. k \in reached <=> \A j \in m.claimed : ~Over(m.sess, j[1]) => k[1] < j[1]
        BY DEF reached
    <2>2. \A j \in m.claimed : k[1] < j[1] <=> ~(j[1] <= k[1])
        OBVIOUS
    <2> QED
        BY <2>1, <2>2 DEF Overdue
<1>6. k \in sure => k \in compared
    BY DEF sure, compared
<1>7. CASE k \in e.claimed
    BY <1>4, <1>5, <1>6, <1>7 DEF e
<1>8. CASE k \notin e.claimed
    <2>1. k \in reached
        BY <1>4, <1>8
    <2>2. Over(m.sess, k[1])
        BY <1>5, <2>1 DEF Overdue
    <2>3. Confirmed(m.sess, k[1])
        BY <2>2 DEF Over
    <2>4. k \in compared
        <3>1. k \in sure
            BY <2>1, <2>3 DEF sure
        <3> QED
            BY <1>6, <3>1
    <2>5. wrong # {} => Min(ticks) \in Nat
        <3>1. wrong \subseteq m.claimed
            BY DEF wrong, compared, sure, reached
        <3>2. ticks \in SUBSET Nat
            BY <3>1 DEF ticks
        <3>3. wrong # {} => ticks # {}
            BY DEF ticks
        <3> QED
            BY <3>2, <3>3, MinOfNats
    <2>6. k \in wrong \/ published[k[2]][k[1]] = m.sess.digests[k[1]]
        BY <2>4 DEF wrong
    <2>7. k \in wrong => e.desync # NoTick
        BY <1>4, <2>5 DEF NoTick
    <2> QED
        BY <1>5, <1>8, <2>1, <2>6, <2>7 DEF e
<1> QED
    BY <1>7, <1>8

(* The desync check passes over no claim (compare_claims): each tick, what *)
(* a machine holds or has read is compared, and told of if it differs,     *)
(* unless a claim no later waits for its inputs or its digest left the     *)
(* ring.                                                                   *)
THEOREM ClaimsAreAllCompared == Spec => ClaimsAreCompared
<1> DEFINE gone(p, k) == k[1] \notin DOMAIN peer'[p].sess.digests
           open(p, k) == \E j \in KnownClaims(p) : j[1] <= k[1] /\ ~Over(peer'[p].sess, j[1])
           Fate(p, k) ==
                IF k \in peer'[p].claimed THEN gone(p, k) \/ open(p, k)
                ELSE \/ gone(p, k)
                     \/ /\ ~open(p, k)
                        /\ \/ published[k[2]][k[1]] = peer'[p].sess.digests[k[1]]
                           \/ peer'[p].desync # NoTick
           Checked == \A p \in Players :
                peer'[p].sess.next # peer[p].sess.next /\ peer'[p].sess.next > Lag =>
                    \A k \in KnownClaims(p) : Fate(p, k)
<1>1. ASSUME NetInv, NEW p \in Players, NEW heard \in Arrivals(p), NEW upto \in Reads(p),
             NEW v \in Plays(p, peer[p].sess.next), Advance(p, heard, upto, v),
             peer'[p].sess.next > Lag, NEW k \in KnownClaims(p)
      PROVE  Fate(p, k)
    <2> DEFINE ran == Moved(p, heard, upto, v)
    <2>1. /\ peer'[p] = Exchanged(ran) /\ DOMAIN ran = MachineFields
          /\ Sound(ran.sess, MadeWith(p, v)) /\ peer'[p].sess = ran.sess
          /\ peer[p].sess.next \in Nat /\ ran.sess.next = peer[p].sess.next + 1
          /\ ran.claimed = Hear(p, heard, upto).claimed
          /\ ran.claimed \subseteq (1 .. MaxTick) \X Links(p)
        BY <1>1, MachineMoves
    <2>2. read'[p] = upto
        <3>1. read' = [read EXCEPT ![p] = upto] /\ read = [q \in Players |-> read[q]]
            BY <1>1 DEF Advance, AdvanceThen, NetInv
        <3> QED
            BY <3>1
    <2>3. Hear(p, heard, upto).claimed = peer[p].claimed \union {c \in (1 .. MaxTick) \X Links(p) :
                /\ c[1] \in DOMAIN published[c[2]]
                /\ read[p][c[2]] < c[1] /\ c[1] <= upto[c[2]]}
        BY <1>1, HearSound
    <2>4. KnownClaims(p) = ran.claimed
        BY <2>1, <2>2, <2>3 DEF KnownClaims
    <2> HIDE DEF ran
    <2>5. \A c \in ran.claimed : c[1] \in Nat
        BY <2>1, BoundAssumption
    <2>6. \A t \in DOMAIN ran.sess.digests : ~BelowRing(ran.sess, t)
        <3>1. DOMAIN ran.sess.digests = DOMAIN ran.sess.ring /\ DOMAIN ran.sess.ring \subseteq Nat
            BY <2>1 DEF Sound, Resting, Shaped, IsSession
        <3> QED
            BY <3>1 DEF BelowRing
    <2>7. open(p, k) <=> ~Overdue(ran, k)
        BY <2>1, <2>4 DEF Overdue
    <2>8. CASE gone(p, k)
        BY <2>8
    <2>9. CASE ~gone(p, k)
        <3> DEFINE e == Exchanged(ran)
        <3>1. /\ ran.sess.next \in Nat /\ ran.sess.next > Lag
              /\ k \in ran.claimed /\ k[1] \in DOMAIN ran.sess.digests
            BY <1>1, <2>1, <2>4, <2>9
        <3>2. IF k \in e.claimed THEN ~Overdue(ran, k)
              ELSE /\ Overdue(ran, k)
                   /\ published[k[2]][k[1]] = ran.sess.digests[k[1]] \/ e.desync # NoTick
            BY <2>1, <2>5, <2>6, <3>1, ClaimIsCompared
        <3> HIDE DEF e
        <3>3. e = peer'[p]
            BY <2>1 DEF e
        <3> HIDE DEF open
        <3> QED
            BY <2>1, <2>7, <3>2, <3>3
    <2> QED
        BY <2>8, <2>9
<1>2. NetInv /\ [Next]_vars => [Checked]_vars
    <2> SUFFICES ASSUME NetInv, Next, NEW p \in Players,
                        peer'[p].sess.next # peer[p].sess.next, peer'[p].sess.next > Lag,
                        NEW k \in KnownClaims(p)
                 PROVE  Fate(p, k)
        OBVIOUS
    <2> HIDE DEF Fate
    <2>1. peer = [q \in Players |-> peer[q]]
        BY DEF NetInv
    <2>2. ASSUME NEW q \in Players, NEW heard \in Arrivals(q), NEW upto \in Reads(q),
                 NEW v \in Plays(q, peer[q].sess.next), Advance(q, heard, upto, v)
          PROVE  Fate(p, k)
        <3>1. \A o \in Players \ {q} : peer'[o] = peer[o]
            BY <2>2, MachineMoves
        <3>2. q = p
            BY <3>1
        <3> QED
            BY <1>1, <2>2, <3>2
    <2>3. ASSUME NEW q \in Players, NEW heard \in Arrivals(q), NEW upto \in Reads(q),
                 Poll(q, heard, upto)
          PROVE  FALSE
        <3>1. peer' = [peer EXCEPT ![q] = Hear(q, heard, upto)]
            BY <2>3 DEF Poll, PollThen
        <3>2. Hear(q, heard, upto).sess.next = peer[q].sess.next
            BY <2>3, HearSound DEF Grown
        <3> QED
            BY <2>1, <3>1, <3>2
    <2>4. ASSUME NEW d \in datagrams, Lose(d) PROVE FALSE
        BY <2>4 DEF Lose
    <2> QED
        BY <2>2, <2>3, <2>4 DEF Next
<1> QED
    BY <1>2, MachinesAreSound, PTL DEF Spec, ClaimsAreCompared

-----------------------------------------------------------------------------
(* What a machine has settled and published.                               *)
LEMMA PublishedIs ==
    ASSUME NetInv, NEW p \in Players, NEW heard \in Arrivals(p), NEW upto,
           NEW v \in Plays(p, peer[p].sess.next), Advance(p, heard, upto, v)
    PROVE  LET s == peer'[p].sess
               sent == {t \in DOMAIN s.digests :
                    Confirmed(s, t) /\ peer[p].settled < t /\ t <= peer'[p].settled}
           IN  /\ DOMAIN published'[p] = DOMAIN published[p] \union sent
               /\ \A t \in sent : published'[p][t] = s.digests[t]
               /\ \A t \in DOMAIN published[p] : t \notin sent => published'[p][t] = published[p][t]
               /\ \A q \in Players \ {p} : published'[q] = published[q]
               /\ read'[p] = upto /\ \A q \in Players \ {p} : read'[q] = read[q]
<1> DEFINE ran == Moved(p, heard, upto, v)
           s == peer'[p].sess
           sent == {t \in DOMAIN s.digests :
                    Confirmed(s, t) /\ peer[p].settled < t /\ t <= peer'[p].settled}
           new == ToPublish(ran)
<1>1. published' = [published EXCEPT ![p] = Joined(@, ToPublish(ran))]
    BY Zenon, AdvancePublishes
<1>11. read' = [read EXCEPT ![p] = upto]
    BY DEF Advance, AdvanceThen
<1>2. published = [q \in Players |-> published[q]] /\ read = [q \in Players |-> read[q]]
    BY DEF NetInv
<1>3. /\ s = ran.sess /\ ran.settled = peer[p].settled /\ peer'[p].settled = SettledUpTo(ran)
    BY MachineMoves
<1> HIDE DEF ran, s
<1>4. new = Restrict(s.digests, sent)
    BY <1>3 DEF ToPublish
<1>5. published'[p] = Joined(published[p], new)
    BY <1>1, <1>2
<1> HIDE DEF new
<1>6. DOMAIN new = sent /\ \A t \in sent : new[t] = s.digests[t]
    BY <1>4 DEF Restrict
<1> HIDE DEF sent
<1>7. /\ DOMAIN published'[p] = DOMAIN published[p] \union sent
      /\ \A t \in sent : published'[p][t] = s.digests[t]
      /\ \A t \in DOMAIN published[p] : t \notin sent => published'[p][t] = published[p][t]
    BY <1>5, <1>6 DEF Joined
<1>8. /\ \A q \in Players \ {p} : published'[q] = published[q]
      /\ read'[p] = upto /\ \A q \in Players \ {p} : read'[q] = read[q]
    BY <1>1, <1>2, <1>11
<1> QED
    BY <1>7, <1>8 DEF s, sent

Settling == \A p \in Players : Final(p) /\ Claims(p)

(* A tick that runs leaves every settled one as it was.                    *)
LEMMA SettledStaysFirm ==
    ASSUME NetInv, NEW p \in Players, Final(p), NEW heard \in Arrivals(p), NEW upto,
           NEW v \in Plays(p, peer[p].sess.next), Advance(p, heard, upto, v)
    PROVE  LET s == peer[p].sess
               r == peer'[p].sess
               u == peer[p].settled
           IN  /\ Firm(r, u)
               /\ \A t \in DOMAIN r.digests : t <= u => t \in DOMAIN s.digests /\ r.digests[t] = s.digests[t]
               /\ Firm(r, peer'[p].settled) /\ peer'[p].settled < r.next
               /\ \A t \in peer[p].settled + 1 .. peer'[p].settled : Over(r, t)
<1> DEFINE m == peer[p]
           s == m.sess
           x == Pressed(p, Hear(p, heard, upto), v).sess
           ran == Moved(p, heard, upto, v)
           r == peer'[p].sess
           u == m.settled
           w == peer'[p].settled
           later == MadeWith(p, v)
<1>1. s.next <= MaxTick
    BY DEF Advance, AdvanceThen, Moved
<1>2. Sound(x, later) /\ Grown(s, x)
    BY <1>1, PressedSound
<1>3. Making(later)
    BY <1>1, MakingOneMore
<1>4. /\ r = ran.sess /\ ran.sess = AdvanceOf(x)
      /\ w = SettledUpTo(ran) /\ w \in Nat /\ u <= w
      /\ s.next \in Nat \ {0} /\ ran.sess.next = s.next + 1
      /\ ran.sess.dirty = NoTick /\ ran.settled = u
    BY MachineMoves
<1>5. Sound(r, later)
    BY <1>4, MachineMoves
<1>6. /\ u \in Nat /\ u < s.next /\ Firm(s, u)
    BY DEF NetInv, Machine, Final
<1>7. Firm(x, u) /\ x.next = s.next /\ x.digests = s.digests
    BY <1>2, <1>6 DEF Grown
<1>8. DOMAIN r.ring \subseteq Nat
    BY <1>3, <1>5, SoundNumbers
<1> HIDE DEF m, s, x, ran, r, u, w, later
<1>9. Firm(r, u) /\ \A t \in DOMAIN r.digests : t <= u => t \in DOMAIN s.digests /\ r.digests[t] = s.digests[t]
    BY <1>2, <1>3, <1>4, <1>6, <1>7, RanSound
<1>10. /\ \A t \in u + 1 .. w : Over(r, t)
       /\ w = u \/ w <= r.next - (Lag + 1)
    <2>1. ran.settled \in Nat /\ ran.sess.next \in Nat
        BY <1>4, <1>6
    <2> QED
        BY <1>4, <2>1, SettledIs
<1>11. w < r.next
    BY <1>4, <1>6, <1>10, PacingAssumption
<1>12. Firm(r, w)
    <2>1. \A t \in DOMAIN r.ring : t <= w => Confirmed(r, t)
        <3> SUFFICES ASSUME NEW t \in DOMAIN r.ring, t <= w PROVE Confirmed(r, t)
            OBVIOUS
        <3>1. t \in Nat
            BY <1>8
        <3>2. CASE t <= u
            BY <1>9, <3>2 DEF Firm
        <3>3. CASE ~(t <= u)
            <4>1. Over(r, t)
                BY <1>4, <1>6, <1>10, <3>1, <3>3
            <4>2. ~BelowRing(r, t)
                BY <3>1 DEF BelowRing
            <4> QED
                BY <4>1, <4>2 DEF Over
        <3> QED
            BY <3>2, <3>3
    <2> QED
        BY <1>4, <2>1 DEF Firm
<1> QED
    BY <1>9, <1>10, <1>11, <1>12 DEF m, s, r, u, w

LEMMA SettlingAdvance ==
    ASSUME NetInv, Settling, NEW p \in Players, NEW heard \in Arrivals(p), NEW upto \in Reads(p),
           NEW v \in Plays(p, peer[p].sess.next), Advance(p, heard, upto, v)
    PROVE  Settling'
<1> DEFINE s == peer[p].sess
           r == peer'[p].sess
           u == peer[p].settled
           w == peer'[p].settled
           sent == {t \in DOMAIN r.digests : Confirmed(r, t) /\ u < t /\ t <= w}
<1>1. Final(p) /\ Claims(p)
    BY DEF Settling
<1>2. /\ \A t \in DOMAIN r.digests : t <= u => t \in DOMAIN s.digests /\ r.digests[t] = s.digests[t]
      /\ Firm(r, w) /\ w < r.next
    BY <1>1, SettledStaysFirm
<1>3. /\ DOMAIN published'[p] = DOMAIN published[p] \union sent
      /\ \A t \in sent : published'[p][t] = r.digests[t]
      /\ \A t \in DOMAIN published[p] : t \notin sent => published'[p][t] = published[p][t]
      /\ \A q \in Players \ {p} : published'[q] = published[q]
      /\ read'[p] = upto /\ \A q \in Players \ {p} : read'[q] = read[q]
    BY PublishedIs
<1>4. /\ w \in Nat /\ u \in Nat /\ u <= w
      /\ \A q \in Players \ {p} : peer'[q] = peer[q]
      /\ peer'[p].claimed \subseteq Hear(p, heard, upto).claimed
    BY MachineMoves DEF NetInv, Machine
<1>5. /\ DOMAIN published[p] \subseteq 1 .. u
      /\ \A t \in DOMAIN published[p] \intersect DOMAIN s.digests : published[p][t] = s.digests[t]
    BY <1>1 DEF Final
<1>6. DOMAIN r.digests \subseteq Nat
    <2>1. IsSession(r)
        <3>1. Making(MadeWith(p, v))
            BY RunsATick, MakingOneMore
        <3>2. Sound(r, MadeWith(p, v))
            BY MachineMoves
        <3> QED
            BY <3>1, <3>2, SoundNumbers
    <2> QED
        BY <2>1 DEF IsSession
<1> HIDE DEF s, r, u, w
<1>7. Final(p)'
    <2>1. DOMAIN published'[p] \subseteq 1 .. w
        BY <1>3, <1>4, <1>5, <1>6
    <2>2. \A t \in DOMAIN published'[p] \intersect DOMAIN r.digests : published'[p][t] = r.digests[t]
        BY <1>2, <1>3, <1>4, <1>5
    <2> QED
        BY <1>2, <2>1, <2>2 DEF Final, r, w
<1> HIDE DEF sent
<1>8. \A q \in Players : DOMAIN published[q] \subseteq DOMAIN published'[q]
    BY <1>3
<1>9. Claims(p)'
    <2>1. /\ read[p] \in [Links(p) -> 0 .. MaxTick]
          /\ \A k \in peer[p].claimed : k[1] \in DOMAIN published[k[2]] /\ k[1] <= read[p][k[2]]
        BY <1>1 DEF Claims
    <2>2. /\ upto \in [Links(p) -> 0 .. MaxTick]
          /\ \A q \in Links(p) : upto[q] = read[p][q] \/ upto[q] > read[p][q]
        BY DEF Reads
    <2>3. /\ Hear(p, heard, upto).claimed = peer[p].claimed \union {k \in (1 .. MaxTick) \X Links(p) :
                /\ k[1] \in DOMAIN published[k[2]]
                /\ read[p][k[2]] < k[1] /\ k[1] <= upto[k[2]]}
          /\ peer[p].claimed \subseteq (1 .. MaxTick) \X Links(p)
        <3>1. peer[p].claimed \subseteq (1 .. MaxTick) \X Links(p)
            BY DEF NetInv, Machine
        <3> QED
            BY <3>1, HearSound
    <2>4. ASSUME NEW k \in Hear(p, heard, upto).claimed
          PROVE  k[1] \in DOMAIN published[k[2]] /\ k[1] <= upto[k[2]] /\ k[2] \in Players
        <3>1. k[2] \in Links(p) /\ k[1] \in 1 .. MaxTick
            BY <2>3
        <3>2. k[2] \in Players
            BY <3>1, LinksAreFinite
        <3>3. CASE k \in peer[p].claimed
            <4>1. k[1] \in DOMAIN published[k[2]] /\ k[1] <= read[p][k[2]]
                BY <2>1, <3>3
            <4>2. /\ upto[k[2]] = read[p][k[2]] \/ upto[k[2]] > read[p][k[2]]
                  /\ upto[k[2]] \in 0 .. MaxTick /\ read[p][k[2]] \in 0 .. MaxTick
                BY <2>1, <2>2, <3>1
            <4> QED
                BY <3>1, <3>2, <4>1, <4>2, BoundAssumption
        <3>4. CASE k \notin peer[p].claimed
            BY <2>3, <3>2, <3>4
        <3> QED
            BY <3>3, <3>4
    <2> QED
        BY <1>3, <1>4, <1>8, <2>2, <2>4 DEF Claims
<1>10. ASSUME NEW q \in Players \ {p}
       PROVE  Final(q)' /\ Claims(q)'
    <2>1. /\ Final(q) /\ Claims(q) /\ peer'[q] = peer[q]
          /\ published'[q] = published[q] /\ read'[q] = read[q]
        BY <1>3, <1>4 DEF Settling
    <2>2. Final(q)'
        BY <2>1 DEF Final
    <2>3. \A k \in peer[q].claimed : k[2] \in Players
        <3>1. peer[q].claimed \subseteq (1 .. MaxTick) \X Links(q)
            BY DEF NetInv, Machine
        <3> QED
            BY <3>1, LinksAreFinite
    <2>4. Claims(q)'
        BY <1>8, <2>1, <2>3 DEF Claims
    <2> QED
        BY <2>2, <2>4
<1> QED
    BY <1>7, <1>9, <1>10 DEF Settling

LEMMA SettlingPoll ==
    ASSUME NetInv, Settling, NEW p \in Players, NEW heard \in Arrivals(p), NEW upto \in Reads(p),
           Poll(p, heard, upto)
    PROVE  Settling'
<1> DEFINE n == Hear(p, heard, upto)
<1>1. /\ peer' = [peer EXCEPT ![p] = n]
      /\ read' = [read EXCEPT ![p] = upto] /\ published' = published
    BY DEF Poll, PollThen
<1>2. /\ n.settled = peer[p].settled
      /\ n.claimed = peer[p].claimed \union {k \in (1 .. MaxTick) \X Links(p) :
                /\ k[1] \in DOMAIN published[k[2]]
                /\ read[p][k[2]] < k[1] /\ k[1] <= upto[k[2]]}
      /\ Grown(peer[p].sess, n.sess)
    BY HearSound
<1> HIDE DEF n
<1>3. /\ peer'[p] = n /\ (\A q \in Players \ {p} : peer'[q] = peer[q])
      /\ read'[p] = upto /\ (\A q \in Players \ {p} : read'[q] = read[q])
    BY <1>1 DEF NetInv
<1>4. Final(p)'
    <2>1. Final(p) /\ peer[p].settled \in Nat
        BY DEF Settling, NetInv, Machine
    <2>2. /\ Firm(n.sess, n.settled) /\ n.sess.next = peer[p].sess.next
          /\ n.sess.digests = peer[p].sess.digests
        BY <1>2, <2>1 DEF Grown, Final
    <2> QED
        BY <1>1, <1>2, <1>3, <2>1, <2>2 DEF Final
<1>5. Claims(p)'
    <2>1. /\ read[p] \in [Links(p) -> 0 .. MaxTick]
          /\ \A k \in peer[p].claimed : k[1] \in DOMAIN published[k[2]] /\ k[1] <= read[p][k[2]]
        BY DEF Claims, Settling
    <2>2. /\ upto \in [Links(p) -> 0 .. MaxTick]
          /\ \A q \in Links(p) : upto[q] = read[p][q] \/ upto[q] > read[p][q]
        BY DEF Reads
    <2>3. peer[p].claimed \subseteq (1 .. MaxTick) \X Links(p)
        BY DEF NetInv, Machine
    <2>4. ASSUME NEW k \in n.claimed
          PROVE  k[1] \in DOMAIN published[k[2]] /\ k[1] <= upto[k[2]]
        <3>1. k[2] \in Links(p) /\ k[1] \in 1 .. MaxTick
            BY <1>2, <2>3
        <3>2. CASE k \in peer[p].claimed
            <4>1. k[1] \in DOMAIN published[k[2]] /\ k[1] <= read[p][k[2]]
                BY <2>1, <3>2
            <4>2. /\ upto[k[2]] = read[p][k[2]] \/ upto[k[2]] > read[p][k[2]]
                  /\ upto[k[2]] \in 0 .. MaxTick /\ read[p][k[2]] \in 0 .. MaxTick
                BY <2>1, <2>2, <3>1
            <4> QED
                BY <3>1, <4>1, <4>2, BoundAssumption
        <3>3. CASE k \notin peer[p].claimed
            BY <1>2, <3>3
        <3> QED
            BY <3>2, <3>3
    <2> QED
        BY <1>1, <1>3, <2>2, <2>4 DEF Claims
<1>6. \A q \in Players \ {p} : Final(q)' /\ Claims(q)'
    BY <1>1, <1>3 DEF Settling, Final, Claims
<1> QED
    BY <1>4, <1>5, <1>6 DEF Settling

LEMMA SettlingKept ==
    ASSUME NetInv, Settling, [Next]_vars
    PROVE  Settling'
<1>1. CASE UNCHANGED vars
    BY <1>1 DEF vars, Settling, Final, Claims
<1>2. ASSUME NEW p \in Players, NEW heard \in Arrivals(p), NEW upto \in Reads(p),
             NEW v \in Plays(p, peer[p].sess.next), Advance(p, heard, upto, v)
      PROVE  Settling'
    BY <1>2, SettlingAdvance
<1>3. ASSUME NEW p \in Players, NEW heard \in Arrivals(p), NEW upto \in Reads(p),
             Poll(p, heard, upto)
      PROVE  Settling'
    BY <1>3, SettlingPoll
<1>4. ASSUME NEW d \in datagrams, Lose(d)
      PROVE  Settling'
    BY <1>4 DEF Lose, Settling, Final, Claims
<1> QED
    BY <1>1, <1>2, <1>3, <1>4 DEF Next

LEMMA SettlingBegins == ASSUME Init PROVE Settling
<1> SUFFICES ASSUME NEW p \in Players PROVE Final(p) /\ Claims(p)
    BY DEF Settling
<1>1. peer[p] = NewPeer(p) /\ published[p] = NoEntries /\ read[p] = [q \in Links(p) |-> 0]
    BY DEF Init
<1>2. /\ peer[p].sess = NewSession /\ peer[p].settled = 0 /\ peer[p].claimed = {}
    BY <1>1 DEF NewPeer
<1>3. /\ NewSession.next = 1 /\ NewSession.ring = NoEntries /\ NewSession.dirty = NoTick
      /\ NewSession.digests = NoEntries
    BY DEF NewSession
<1>4. DOMAIN NoEntries = {}
    BY DEF NoEntries
<1>5. Final(p)
    BY <1>1, <1>2, <1>3, <1>4 DEF Final, Firm
<1>6. Claims(p)
    BY <1>1, <1>2, BoundAssumption DEF Claims
<1> QED
    BY <1>5, <1>6

LEMMA SettlingAlways == Spec => []Settling
<1>1. Init => Settling
    BY SettlingBegins
<1>2. Settling /\ NetInv /\ [Next]_vars => Settling'
    BY SettlingKept
<1> QED
    BY <1>1, <1>2, MachinesAreSound, PTL DEF Spec

(* A digest a machine has published (exchange_digests) is the one it has   *)
(* for that tick from then on: no input comes late enough to change it.    *)
THEOREM PublishedStaysFinal == Spec => []PublishedIsFinal
<1>1. Settling => PublishedIsFinal
    BY DEF Settling, Final, PublishedIsFinal
<1> QED
    BY <1>1, SettlingAlways, PTL

(* Every variable of the network session holds what it says.               *)
THEOREM NetTypeCorrect == Spec => []TypeOK
<1>1. NetInv /\ Settling /\ lost \in 0 .. MaxLost => TypeOK
    <2> SUFFICES ASSUME NetInv, Settling, lost \in 0 .. MaxLost PROVE TypeOK
        OBVIOUS
    <2>1. ASSUME NEW p \in Players
          PROVE  /\ IsSession(peer[p].sess)
                 /\ DOMAIN peer[p].mine = 1 .. peer[p].sess.next - 1
                 /\ \A t \in DOMAIN peer[p].mine : peer[p].mine[t] \in Plays(p, t)
                 /\ \E open \in SUBSET Links(p) : peer[p].theirLead \in [open -> Int]
                 /\ peer[p].claimed \subseteq (1 .. MaxTick) \X Links(p)
                 /\ \A k \in peer[p].claimed : k[1] \in DOMAIN published[k[2]]
                 /\ peer[p].settled \in 0 .. MaxTick
                 /\ peer[p].desync \in Nat \union {NoTick}
                 /\ DOMAIN published[p] \subseteq 1 .. peer[p].settled
                 /\ read[p] \in [Links(p) -> 0 .. MaxTick]
        <3>1. Machine(p) /\ Final(p) /\ Claims(p)
            BY DEF NetInv, Settling
        <3>2. IsSession(peer[p].sess) /\ peer[p].sess.next \in Nat \ {0}
            BY <3>1, MadeIsMaking, SoundNumbers DEF Machine
        <3>3. peer[p].settled \in 0 .. MaxTick
            BY <3>1, <3>2, BoundAssumption DEF Machine, Final
        <3> QED
            BY <3>1, <3>2, <3>3 DEF Machine, Final, Claims
    <2>2. \A d \in datagrams : Linked(d.link, d.to) /\ DOMAIN d.values = d.first .. d.tick
        BY DEF NetInv, Truthful
    <2> QED
        BY <2>1, <2>2 DEF TypeOK
<1>2. Init => lost \in 0 .. MaxLost
    BY BoundAssumption DEF Init
<1>3. lost \in 0 .. MaxLost /\ [Next]_vars => (lost \in 0 .. MaxLost)'
    <2> SUFFICES ASSUME lost \in 0 .. MaxLost, [Next]_vars PROVE lost' \in 0 .. MaxLost
        OBVIOUS
    <2>1. CASE lost' = lost
        BY <2>1
    <2>2. CASE lost < MaxLost /\ lost' = lost + 1
        BY <2>2, BoundAssumption
    <2> QED
        BY <2>1, <2>2 DEF Next, vars, Lose, Advance, AdvanceThen, Poll, PollThen
<1> QED
    BY <1>1, <1>2, <1>3, MachinesAreSound, SettlingAlways, PTL DEF Spec

-----------------------------------------------------------------------------
(* The desync check leaves no tick out.                                    *)
Timing == \A p \in Players : Timely(p)

(* The ring of a machine that runs a tick, in numbers.                     *)
LEMMA RingMoves ==
    ASSUME NetInv, NEW p \in Players, NEW heard \in Arrivals(p), NEW upto,
           NEW v \in Plays(p, peer[p].sess.next), Advance(p, heard, upto, v)
    PROVE  LET n == peer[p].sess.next
               r == peer'[p].sess
           IN  /\ n \in Nat \ {0} /\ r.next = n + 1
               /\ DOMAIN r.ring = RingTicks(n + 1) /\ DOMAIN r.digests = DOMAIN r.ring
               /\ \A q \in Players : /\ NewestOf(r, q) \in Nat
                                     /\ NewestOf(r, q) + Depth >= n + 1
<1> DEFINE n == peer[p].sess.next
           r == peer'[p].sess
           later == MadeWith(p, v)
<1>1. /\ Sound(r, later)
      /\ n \in Nat \ {0} /\ r.next = n + 1
      /\ NewestOf(r, p) = n
      /\ \A q \in Players \ {p} : r.next <= NewestOf(r, q) + Leeway + 1
    <2>1. peer'[p].sess = Moved(p, heard, upto, v).sess
        BY MachineMoves
    <2>2. Sound(r, later)
        BY <2>1, MachineMoves
    <2>3. n \in Nat \ {0} /\ r.next = n + 1 /\ NewestOf(r, p) = n
        BY <2>1, MachineMoves
    <2>4. \A q \in Players \ {p} : r.next <= NewestOf(r, q) + Leeway + 1
        BY <2>1, MachineMoves
    <2> QED
        BY <2>2, <2>3, <2>4
<1>2. Making(later)
    BY RunsATick, MakingOneMore
<1> HIDE DEF n, r, later
<1>3. /\ DOMAIN r.ring = RingTicks(n + 1) /\ DOMAIN r.digests = DOMAIN r.ring
      /\ \A q \in Players : NewestOf(r, q) \in Nat
    <2>1. /\ DOMAIN r.ring = RingTicks(r.next) /\ IsSession(r)
          /\ \A q \in Players : NewestOf(r, q) \in Nat
        BY <1>1, <1>2, SoundNumbers
    <2> QED
        BY <1>1, <2>1 DEF IsSession
<1>4. ASSUME NEW q \in Players
      PROVE  NewestOf(r, q) + Depth >= n + 1
    <2>1. CASE q = p
        BY <1>1, <2>1, DepthAssumption
    <2>2. CASE q # p
        BY <1>1, <1>3, <2>2, DepthAssumption, PacingAssumption DEF Leeway
    <2> QED
        BY <2>1, <2>2
<1> QED
    BY <1>1, <1>3, <1>4 DEF n, r

LEMMA TimelyAdvance ==
    ASSUME InTime, Depth > Lag, NetInv, NoGaps, NEW p \in Players, Final(p), Timely(p),
           NEW heard \in Arrivals(p), NEW upto,
           NEW v \in Plays(p, peer[p].sess.next), Advance(p, heard, upto, v)
    PROVE  Timely(p)'
<1> DEFINE n == peer[p].sess.next
           r == peer'[p].sess
           u == peer[p].settled
           w == peer'[p].settled
           sent == {t \in DOMAIN r.digests : Confirmed(r, t) /\ u < t /\ t <= w}
<1>1. /\ n \in Nat \ {0} /\ r.next = n + 1
      /\ DOMAIN r.ring = RingTicks(n + 1) /\ DOMAIN r.digests = DOMAIN r.ring
      /\ \A q \in Players : NewestOf(r, q) \in Nat /\ NewestOf(r, q) + Depth >= n + 1
    BY RingMoves
<1>2. DOMAIN published'[p] = DOMAIN published[p] \union sent
    BY PublishedIs
<1>3. DOMAIN published[p] = 1 .. u /\ u + Depth >= n
    BY DEF Timely
<1>4. /\ w < r.next
      /\ \A t \in u + 1 .. w : Over(r, t)
    BY SettledStaysFirm
<1>5. w \in Nat /\ u \in Nat /\ u <= w
    BY MachineMoves DEF NetInv, Machine
<1>6. \E m : /\ m.sess = r /\ m.settled = u /\ w = SettledUpTo(m)
    <2>1. /\ Moved(p, heard, upto, v).sess = r
          /\ Moved(p, heard, upto, v).settled = u
          /\ w = SettledUpTo(Moved(p, heard, upto, v))
        BY MachineMoves
    <2> QED
        BY <2>1
<1>7. Gapless(r)
    <2>1. Gapless(peer[p].sess)
        BY DEF NoGaps
    <2>2. InTime /\ Gapless(peer[p].sess) => Gapless(peer'[p].sess)
        BY MachineMoves
    <2> QED
        BY <2>1, <2>2
<1> HIDE DEF n, r, u, w
<1>8. w + Depth >= n + 1
    <2> SUFFICES ASSUME u + Depth = n PROVE u < w
        BY <1>1, <1>3, <1>5, DepthAssumption
    <2>1. u + 1 \in DOMAIN r.ring
        BY <1>1, <1>5, DepthAssumption DEF RingTicks
    <2>2. Over(r, u + 1)
        <3>1. ~BelowRing(r, u + 1)
            BY <1>5, <2>1 DEF BelowRing
        <3>2. \A q \in Players : u + 1 \in 1 .. NewestOf(r, q)
            BY <1>1, <1>5, DepthAssumption
        <3> QED
            BY <1>7, <3>1, <3>2 DEF Gapless, Over, Confirmed
    <2>3. PICK m : m.sess = r /\ m.settled = u /\ w = SettledUpTo(m)
        BY <1>6
    <2>4. m.settled \in Nat /\ m.sess.next \in Nat
        BY <1>1, <1>5, <2>3
    <2>5. m.settled + 1 <= m.sess.next - (Lag + 1) /\ Over(m.sess, m.settled + 1)
        BY <1>1, <1>5, <2>2, <2>3, DepthAssumption, PacingAssumption
    <2> QED
        BY <2>3, <2>4, <2>5, SettledIs
<1>9. \A t \in u + 1 .. w : t \in sent
    <2> SUFFICES ASSUME NEW t \in u + 1 .. w PROVE t \in sent
        OBVIOUS
    <2>1. t \in DOMAIN r.ring
        BY <1>1, <1>3, <1>4, <1>5, DepthAssumption DEF RingTicks
    <2>2. ~BelowRing(r, t)
        BY <1>5, <2>1 DEF BelowRing
    <2>3. Confirmed(r, t)
        BY <1>4, <2>2 DEF Over
    <2> QED
        BY <1>1, <1>5, <2>1, <2>3
<1>10. \A t \in sent : t \in u + 1 .. w
    BY <1>1, <1>5 DEF RingTicks
<1> HIDE DEF sent
<1>11. DOMAIN published'[p] = 1 .. w
    BY <1>2, <1>3, <1>5, <1>9, <1>10
<1> QED
    BY <1>1, <1>8, <1>11 DEF Timely, w, r

LEMMA TimingKept ==
    ASSUME InTime, Depth > Lag, NetInv, NoGaps, Settling, Timing, [Next]_vars
    PROVE  Timing'
<1>1. CASE UNCHANGED vars
    BY <1>1 DEF vars, Timing, Timely
<1>2. ASSUME NEW p \in Players, NEW heard \in Arrivals(p), NEW upto \in Reads(p),
             NEW v \in Plays(p, peer[p].sess.next), Advance(p, heard, upto, v)
      PROVE  Timing'
    <2>1. Timely(p)'
        BY <1>2, TimelyAdvance DEF Timing, Settling
    <2>2. \A q \in Players \ {p} : peer'[q] = peer[q]
        BY <1>2, MachineMoves
    <2>3. \A q \in Players \ {p} : published'[q] = published[q]
        BY <1>2, PublishedIs
    <2>4. \A q \in Players \ {p} : Timely(q)'
        BY <2>2, <2>3 DEF Timing, Timely
    <2> QED
        BY <2>1, <2>4 DEF Timing
<1>3. ASSUME NEW p \in Players, NEW heard \in Arrivals(p), NEW upto \in Reads(p),
             Poll(p, heard, upto)
      PROVE  Timing'
    <2> DEFINE n == Hear(p, heard, upto)
    <2>1. peer' = [peer EXCEPT ![p] = n] /\ published' = published
        BY <1>3 DEF Poll, PollThen
    <2>2. n.settled = peer[p].settled /\ n.sess.next = peer[p].sess.next
        BY HearSound DEF Grown
    <2> HIDE DEF n
    <2>3. \A q \in Players : peer'[q].settled = peer[q].settled /\ peer'[q].sess.next = peer[q].sess.next
        BY <2>1, <2>2 DEF NetInv
    <2> QED
        BY <2>1, <2>3 DEF Timing, Timely
<1>4. ASSUME NEW d \in datagrams, Lose(d)
      PROVE  Timing'
    BY <1>4 DEF Lose, Timing, Timely
<1> QED
    BY <1>1, <1>2, <1>3, <1>4 DEF Next

LEMMA TimingAlways ==
    ASSUME Depth > Lag
    PROVE  Spec /\ HeardInTime => []Timing
<1>1. Init => Timing
    <2> SUFFICES ASSUME Init, NEW p \in Players PROVE Timely(p)
        BY DEF Timing
    <2>1. peer[p].settled = 0 /\ published[p] = NoEntries /\ peer[p].sess.next = 1
        BY DEF Init, NewPeer, NewSession
    <2> QED
        BY <2>1, DepthAssumption DEF Timely, NoEntries
<1>2. Timing /\ Settling /\ NoGaps /\ InTime /\ NetInv /\ [Next]_vars => Timing'
    BY TimingKept
<1> QED
    BY <1>1, <1>2, MachinesAreSound, NoGapsAlways, InTimeAlways, SettlingAlways, PTL DEF Spec

-----------------------------------------------------------------------------
(* Published ticks are read in order.                                      *)
InOrder == \A p \in Players : \A t \in DOMAIN published[p] : 1 .. t \subseteq DOMAIN published[p]

(* A lag as deep as the ring settles a tick when it is gone: no digest is  *)
(* published at all.                                                       *)
Silent == \A p \in Players : DOMAIN published[p] = {}

LEMMA SilentKept ==
    ASSUME Depth <= Lag, NetInv, Settling, Silent, [Next]_vars
    PROVE  Silent'
<1>1. CASE UNCHANGED vars
    BY <1>1 DEF vars, Silent
<1>2. ASSUME NEW p \in Players, NEW heard \in Arrivals(p), NEW upto \in Reads(p),
             NEW v \in Plays(p, peer[p].sess.next), Advance(p, heard, upto, v)
      PROVE  Silent'
    <2> DEFINE n == peer[p].sess.next
               r == peer'[p].sess
               u == peer[p].settled
               w == peer'[p].settled
               sent == {t \in DOMAIN r.digests : Confirmed(r, t) /\ u < t /\ t <= w}
    <2>1. /\ DOMAIN published'[p] = DOMAIN published[p] \union sent
          /\ \A q \in Players \ {p} : published'[q] = published[q]
        BY <1>2, PublishedIs
    <2>2. n \in Nat \ {0} /\ DOMAIN r.ring = RingTicks(n + 1) /\ DOMAIN r.digests = DOMAIN r.ring
        BY <1>2, RingMoves
    <2>3. u \in Nat /\ w \in Nat /\ (w = u \/ w <= n + 1 - (Lag + 1))
        <3> DEFINE ran == Moved(p, heard, upto, v)
        <3>1. /\ ran.settled = u /\ w = SettledUpTo(ran) /\ w \in Nat
              /\ ran.sess.next = n + 1
            BY <1>2, MachineMoves
        <3>2. u \in Nat
            BY DEF NetInv, Machine
        <3> HIDE DEF ran, u, w, n
        <3>3. ran.settled \in Nat /\ ran.sess.next \in Nat
            BY <2>2, <3>1, <3>2
        <3>4. SettledUpTo(ran) = ran.settled \/ SettledUpTo(ran) <= ran.sess.next - (Lag + 1)
            BY <3>3, SettledIs
        <3> QED
            BY <2>2, <3>1, <3>2, <3>4, PacingAssumption DEF n
    <2> HIDE DEF n, r, u, w
    <2>4. sent = {}
        <3> SUFFICES ASSUME NEW t \in RingTicks(n + 1), u < t, t <= w PROVE FALSE
            BY <2>2
        <3>1. t \in Nat /\ t + Depth >= n + 1
            BY DEF RingTicks
        <3> QED
            BY <2>2, <2>3, <3>1, DepthAssumption, PacingAssumption
    <2> QED
        BY <2>1, <2>4 DEF Silent
<1>3. ASSUME NEW p \in Players, NEW heard \in Arrivals(p), NEW upto \in Reads(p),
             Poll(p, heard, upto)
      PROVE  Silent'
    BY <1>3 DEF Silent, Poll, PollThen
<1>4. ASSUME NEW d \in datagrams, Lose(d)
      PROVE  Silent'
    BY <1>4 DEF Lose, Silent
<1> QED
    BY <1>1, <1>2, <1>3, <1>4 DEF Next

LEMMA SilentAlways ==
    ASSUME Depth <= Lag
    PROVE  Spec => []Silent
<1>1. Init => Silent
    BY DEF Init, Silent, NoEntries
<1>2. Silent /\ Settling /\ NetInv /\ [Next]_vars => Silent'
    BY SilentKept
<1> QED
    BY <1>1, <1>2, MachinesAreSound, SettlingAlways, PTL DEF Spec

(* What the desync check covers (exchange_digests): with a ring deeper     *)
(* than the lag a machine sends the digest of every tick it settles, in    *)
(* order; with one no deeper it never sends any.                           *)
THEOREM NoTickIsSkipped == Spec /\ HeardInTime => []SettledIsPublished
<1>1. CASE Depth > Lag
    <2>1. Timing => SettledIsPublished
        BY <1>1 DEF Timing, Timely, SettledIsPublished
    <2> QED
        BY <1>1, <2>1, TimingAlways, PTL
<1>2. CASE ~(Depth > Lag)
    <2>1. Silent => SettledIsPublished
        BY <1>2 DEF Silent, SettledIsPublished
    <2>2. Spec => []Silent
        BY <1>2, SilentAlways, DepthAssumption, PacingAssumption
    <2> QED
        BY <2>1, <2>2, PTL
<1> QED
    BY <1>1, <1>2

LEMMA InOrderAlways == Spec /\ HeardInTime => []InOrder
<1>1. SettledIsPublished /\ NetInv => InOrder
    <2> SUFFICES ASSUME SettledIsPublished, NetInv, NEW p \in Players, NEW t \in DOMAIN published[p]
                 PROVE  1 .. t \subseteq DOMAIN published[p]
        BY DEF InOrder
    <2>1. DOMAIN published[p] = 1 .. peer[p].settled /\ peer[p].settled \in Nat
        BY DEF SettledIsPublished, NetInv, Machine
    <2> QED
        BY <2>1
<1> QED
    BY <1>1, NoTickIsSkipped, MachinesAreSound, PTL

-----------------------------------------------------------------------------
(* The world a machine can no longer take back, as ticks run.              *)
LEMMA OldestIs ==
    ASSUME NEW s, s.next \in Nat \ {0}, DOMAIN s.ring = RingTicks(s.next)
    PROVE  /\ s.next > Depth => OldestTick(s) = s.next - Depth
           /\ s.next <= Depth => OldestTick(s) = 1
           /\ OldestTick(s) \in Nat \ {0}
           /\ s.next > 1 => /\ OldestTick(s) \in DOMAIN s.ring
                            /\ OldestWorld(s) = s.ring[OldestTick(s)]
           /\ s.next = 1 => OldestWorld(s) = Start
<1> DEFINE n == s.next
           R == DOMAIN s.ring
<1>1. CASE n = 1
    <2>1. R = {}
        BY <1>1, DepthAssumption DEF RingTicks
    <2> QED
        BY <1>1, <2>1, DepthAssumption DEF OldestTick, OldestWorld
<1>2. CASE n > 1
    <2> DEFINE o == IF n > Depth THEN n - Depth ELSE 1
    <2>1. o \in R /\ \A t \in R : o <= t
        BY <1>2, DepthAssumption DEF RingTicks
    <2>2. R \in SUBSET Nat
        BY DEF RingTicks
    <2> HIDE DEF o, R
    <2>3. Min(R) \in R /\ \A t \in R : Min(R) <= t
        BY <2>1, <2>2, MinOfNats
    <2> DEFINE lo == Min(R)
    <2> HIDE DEF lo
    <2>5. lo \in Nat /\ o \in Nat /\ lo <= o /\ o <= lo
        BY <2>1, <2>2, <2>3 DEF lo
    <2>6. lo = o
        BY <2>5
    <2>4. Min(R) = o
        BY <2>6 DEF lo
    <2> QED
        BY <1>2, <2>1, <2>4, DepthAssumption DEF OldestTick, OldestWorld, o, R
<1> QED
    BY <1>1, <1>2

LEMMA OldestMoves ==
    ASSUME InTime, NetInv, NoGaps, NEW p \in Players, NEW heard \in Arrivals(p), NEW upto,
           NEW v \in Plays(p, peer[p].sess.next), Advance(p, heard, upto, v)
    PROVE  LET s == peer[p].sess
               r == peer'[p].sess
               o == OldestTick(s)
           IN  \/ OldestTick(r) = o /\ OldestWorld(r) = OldestWorld(s)
               \/ /\ OldestTick(r) = o + 1
                  /\ \A q \in Players : o \in DOMAIN Made[q]
                  /\ OldestWorld(r) = Step(OldestWorld(s), [q \in Players |-> Made[q][o]])
<1> DEFINE s == peer[p].sess
           x == Pressed(p, Hear(p, heard, upto), v).sess
           r == peer'[p].sess
           n == s.next
           o == OldestTick(s)
           later == MadeWith(p, v)
           Stays == OldestTick(r) = o /\ OldestWorld(r) = OldestWorld(s)
           Settles == /\ OldestTick(r) = o + 1
                      /\ \A q \in Players : o \in DOMAIN Made[q]
                      /\ OldestWorld(r) = Step(OldestWorld(s), [q \in Players |-> Made[q][o]])
<1>1. /\ Sound(x, later) /\ Grown(s, x) /\ NewestOf(x, p) = n
    <2>1. s.next <= MaxTick
        BY DEF Advance, AdvanceThen, Moved
    <2> QED
        BY <2>1, PressedSound
<1>2. Gapless(x)
    <2>1. InTime /\ Gapless(s) => Gapless(x)
        BY RunsATick, PressedSound
    <2> QED
        BY <2>1 DEF NoGaps
<1>3. /\ Making(later) /\ Extends(Made, later)
    BY RunsATick, MakingOneMore
<1>4. /\ n \in Nat \ {0} /\ r = AdvanceOf(x) /\ r.next = n + 1
    <2>1. n \in Nat \ {0} /\ r.next = n + 1
        BY RingMoves
    <2>2. r = AdvanceOf(x)
        BY MachineMoves
    <2> QED
        BY <2>1, <2>2
<1>5. DOMAIN r.ring = RingTicks(n + 1)
    BY RingMoves
<1>6. x.ring = s.ring /\ x.next = n /\ DOMAIN s.ring = RingTicks(n)
    <2>1. x.ring = s.ring /\ x.next = n
        BY <1>1 DEF Grown
    <2> QED
        BY <1>1, <1>3, <2>1, SoundNumbers
<1>7. \A q \in Players : /\ DOMAIN Made[q] = 1 .. peer[q].sess.next - 1
                         /\ peer[q].sess.next \in Nat \ {0}
                         /\ NewestOf(s, q) \in Nat /\ NewestOf(s, q) <= peer[q].sess.next - 1
    BY MadeIsMaking, NewestIsMade
<1>8. \A q \in Players \ {p} : n <= NewestOf(s, q) + Leeway
    BY RunsATick, RunsWithinLeeway
<1>9. /\ Leeway \in Int /\ Leeway < Depth /\ Depth \in Nat \ {0}
    BY DepthAssumption, PacingAssumption DEF Leeway
<1>10. Resting(x)
    BY <1>1 DEF Sound
<1>11. /\ \A t \in DOMAIN r.ring : t < Due(x) => t \in DOMAIN x.ring /\ r.ring[t] = x.ring[t]
       /\ \A t \in DOMAIN r.ring \intersect DOMAIN x.ring : t = Due(x) => r.ring[t] = x.ring[t]
       /\ x.next = 1 => r.ring[1] = Start
    BY <1>4, <1>10, AdvanceKeeps
<1>12. Due(x) \in DOMAIN x.ring \/ Due(x) = n
    BY <1>6, <1>10 DEF Resting, Due
<1>13. \A q \in Players : NewestOf(s, q) <= NewestOf(x, q) /\ NewestOf(x, q) \in Nat
    BY <1>1, <1>3, SoundNumbers DEF Grown
<1> HIDE DEF s, x, r, n, o, later
<1>14. /\ n > Depth => o = n - Depth
       /\ n <= Depth => o = 1
       /\ n > 1 => o \in DOMAIN s.ring /\ OldestWorld(s) = s.ring[o]
       /\ n = 1 => OldestWorld(s) = Start
    <2>1. s.next \in Nat \ {0} /\ DOMAIN s.ring = RingTicks(s.next)
        BY <1>4, <1>6 DEF n
    <2> QED
        BY <2>1, OldestIs DEF n, o
<1>15. /\ n + 1 > Depth => OldestTick(r) = n + 1 - Depth
       /\ n + 1 <= Depth => OldestTick(r) = 1
       /\ OldestTick(r) \in DOMAIN r.ring /\ OldestWorld(r) = r.ring[OldestTick(r)]
    <2>1. r.next \in Nat \ {0} /\ r.next > 1 /\ DOMAIN r.ring = RingTicks(r.next)
        BY <1>4, <1>5
    <2>2. /\ r.next > Depth => OldestTick(r) = r.next - Depth
          /\ r.next <= Depth => OldestTick(r) = 1
          /\ OldestTick(r) \in DOMAIN r.ring /\ OldestWorld(r) = r.ring[OldestTick(r)]
        BY <2>1, OldestIs
    <2>3. r.next = n + 1 /\ n \in Nat
        BY <1>4
    <2> QED
        BY <2>2, <2>3, DepthAssumption
<1>16. ASSUME n = 1
       PROVE  Stays
    <2>1. o = 1 /\ OldestTick(r) = 1
        BY <1>9, <1>14, <1>15, <1>16
    <2> QED
        BY <1>6, <1>11, <1>14, <1>15, <1>16, <2>1
<1>17. ASSUME n > 1, n <= Depth
       PROVE  Stays
    <2>1. o = 1 /\ OldestTick(r) = 1
        BY <1>4, <1>9, <1>14, <1>15, <1>17
    <2>2. 1 < Due(x) \/ 1 = Due(x)
        BY <1>4, <1>6, <1>12, <1>17 DEF RingTicks
    <2>3. r.ring[1] = x.ring[1]
        BY <1>6, <1>11, <1>14, <1>15, <1>17, <2>1, <2>2
    <2> QED
        BY <1>6, <1>14, <1>15, <1>17, <2>1, <2>3
<1>18. ASSUME n > Depth
       PROVE  Settles
    <2>1. /\ o = n - Depth /\ OldestTick(r) = o + 1 /\ n > 1
          /\ o \in Nat \ {0} /\ o < n
        BY <1>4, <1>9, <1>14, <1>15, <1>18
    <2>2. o \in DOMAIN x.ring /\ o <= Due(x) /\ o + 1 \in DOMAIN r.ring
        <3>1. o \in DOMAIN x.ring /\ o + 1 \in DOMAIN r.ring
            BY <1>6, <1>14, <1>15, <2>1
        <3>2. \A t \in RingTicks(n) : o <= t
            BY <1>4, <1>9, <2>1 DEF RingTicks
        <3>3. CASE Due(x) = n
            BY <1>4, <2>1, <3>1, <3>3
        <3>4. CASE Due(x) \in DOMAIN x.ring
            BY <1>6, <3>1, <3>2, <3>4
        <3> QED
            BY <1>12, <3>3, <3>4
    <2>3. ASSUME NEW q \in Players
          PROVE  o \in DOMAIN x.arrived[q] /\ o \in DOMAIN Made[q] /\ x.arrived[q][o] = Made[q][o]
        <3>1. o \in 1 .. NewestOf(x, q) /\ o \in 1 .. peer[q].sess.next - 1
            <4>1. CASE q = p
                <5>1. peer[p].sess.next = n
                    BY DEF n, s
                <5>2. o \in 1 .. n - 1 /\ o \in 1 .. n
                    BY <1>4, <2>1
                <5>3. NewestOf(x, q) = n /\ peer[q].sess.next = n
                    BY <1>1, <4>1, <5>1
                <5> QED
                    BY <5>2, <5>3
            <4>2. CASE q # p
                <5> DEFINE was == NewestOf(s, q)
                           is == NewestOf(x, q)
                           end == peer[q].sess.next
                <5>1. was \in Nat /\ is \in Nat /\ was <= is
                    BY <1>7, <1>13
                <5>2. end \in Nat \ {0} /\ was <= end - 1 /\ n <= was + Leeway
                    BY <1>7, <1>8, <4>2
                <5> HIDE DEF was, is, end
                <5>3. o \in 1 .. is /\ o \in 1 .. end - 1
                    BY <1>4, <1>9, <2>1, <5>1, <5>2
                <5> QED
                    BY <5>3 DEF is, end
            <4> QED
                BY <4>1, <4>2
        <3>2. ~BelowRing(x, o)
            BY <2>1, <2>2 DEF BelowRing
        <3>3. o \in DOMAIN x.arrived[q] /\ o \in DOMAIN Made[q]
            BY <1>2, <1>7, <3>1, <3>2 DEF Gapless
        <3>4. x.arrived[q][o] = later[q][o] /\ later[q][o] = Made[q][o]
            BY <1>1, <1>3, <3>3 DEF Sound, Extends
        <3> QED
            BY <3>3, <3>4
    <2>4. r.ring[o + 1] = Step(x.ring[o], [q \in Players |-> x.arrived[q][o]])
        <3>1. o \in DOMAIN x.ring /\ o <= Due(x) /\ o + 1 \in DOMAIN AdvanceOf(x).ring
            BY <1>4, <2>2
        <3>2. DOMAIN x.absent = {}
            BY <1>1 DEF Sound
        <3>3. SatOut(x, Due(x)) /\ Confirmed(x, o)
            BY <2>3, <3>2 DEF SatOut, Confirmed
        <3>4. AdvanceOf(x).ring[o + 1] = Step(x.ring[o], ArrivedRow(x, o))
            BY <1>10, <3>1, <3>3, AdvanceSteps
        <3>5. ArrivedRow(x, o) = [q \in Players |-> x.arrived[q][o]]
            BY <3>2 DEF ArrivedRow, IsPresent
        <3> QED
            BY <1>4, <3>4, <3>5
    <2>5. [q \in Players |-> x.arrived[q][o]] = [q \in Players |-> Made[q][o]]
        BY <2>3
    <2> QED
        BY <1>6, <1>14, <1>15, <2>1, <2>3, <2>4, <2>5
<1> QED
    BY <1>4, <1>9, <1>16, <1>17, <1>18 DEF s, r, o

-----------------------------------------------------------------------------
(* Underneath, it is lockstep.                                             *)
LEMMA PutIsAppend ==
    ASSUME NEW n \in Nat \ {0}, NEW f \in [1 .. n - 1 -> Input], NEW v \in Input
    PROVE  Len(f) = n - 1 /\ Put(f, n, v) = Append(f, v)
<1>1. n - 1 \in Nat /\ f \in Seq(Input)
    OBVIOUS
<1>2. Len(f) = n - 1
    BY <1>1, LenProperties
<1> DEFINE g == Append(f, v)
<1>3. /\ g \in Seq(Input) /\ Len(g) = n
      /\ \A i \in 1 .. n - 1 : g[i] = f[i]
      /\ g[n] = v
    BY <1>1, <1>2, AppendProperties
<1> HIDE DEF g
<1>4. g = [i \in 1 .. n |-> g[i]]
    BY <1>3, LenProperties
<1>5. DOMAIN f \union {n} = 1 .. n
    OBVIOUS
<1>6. Put(f, n, v) = [i \in 1 .. n |-> IF i = n THEN v ELSE f[i]]
    BY <1>5 DEF Put
<1>7. \A i \in 1 .. n : g[i] = IF i = n THEN v ELSE f[i]
    BY <1>3
<1> QED
    BY <1>2, <1>4, <1>6, <1>7 DEF g

LEMMA LockstepBegins == Init => Game!Init
<1> SUFFICES ASSUME Init PROVE Game!Init
    OBVIOUS
<1>1. NoEntries = <<>>
    <2>1. NoEntries \in [1 .. 0 -> {Nil}]
        BY DEF NoEntries
    <2>2. NoEntries \in Seq({Nil}) /\ Len(NoEntries) = 0
        BY <2>1
    <2> QED
        BY <2>2, EmptySeq
<1>2. \A p \in Players : peer[p].mine = <<>> /\ peer[p].sess.ring = NoEntries
    BY <1>1 DEF Init, NewPeer, NewSession
<1>3. DOMAIN NoEntries = {}
    BY DEF NoEntries
<1> QED
    BY <1>2, <1>3 DEF Game!Init, OldestTick, OldestWorld

LEMMA LockstepAdvance ==
    ASSUME InTime, NetInv, NoGaps, NEW p \in Players, NEW heard \in Arrivals(p), NEW upto,
           NEW v \in Plays(p, peer[p].sess.next), Advance(p, heard, upto, v)
    PROVE  Game!Next
<1> DEFINE n == peer[p].sess.next
           o == OldestTick(peer[p].sess)
           made == [q \in Players |-> peer[q].mine]
           ticks == [q \in Players |-> OldestTick(peer[q].sess)]
           worlds == [q \in Players |-> OldestWorld(peer[q].sess)]
<1>1. /\ n \in Nat \ {0} /\ n <= MaxTick
      /\ peer[p].mine \in [1 .. n - 1 -> Input]
    <2>1. n <= MaxTick
        BY DEF Advance, AdvanceThen, Moved
    <2> QED
        BY <2>1, MadeIsMaking DEF NetInv, Machine
<1>2. v \in Input
    BY <1>1, PlaysAssumption, BoundAssumption
<1>3. \A q \in Players \ {p} : peer'[q] = peer[q]
    BY MachineMoves
<1>4. peer'[p].mine = Append(peer[p].mine, v)
    <2>1. peer'[p].mine = MadeWith(p, v)[p]
        BY MachineMoves
    <2>2. MadeWith(p, v)[p] = Put(peer[p].mine, n, v)
        BY <1>1, MakingOneMore
    <2> HIDE DEF n
    <2> QED
        BY <1>1, <1>2, <2>1, <2>2, PutIsAppend
<1>5. made' = [made EXCEPT ![p] = Append(@, v)]
    BY <1>3, <1>4
<1>6. CASE /\ OldestTick(peer'[p].sess) = o
           /\ OldestWorld(peer'[p].sess) = OldestWorld(peer[p].sess)
    <2>1. ticks' = ticks /\ worlds' = worlds
        BY <1>3, <1>6
    <2> QED
        BY <1>2, <1>5, <2>1 DEF Game!Next, Game!Frame
<1>7. CASE /\ OldestTick(peer'[p].sess) = o + 1
           /\ \A q \in Players : o \in DOMAIN Made[q]
           /\ OldestWorld(peer'[p].sess) = Step(OldestWorld(peer[p].sess), [q \in Players |-> Made[q][o]])
    <2>1. \A q \in Players : ticks[p] <= Len(made[q])
        <3> SUFFICES ASSUME NEW q \in Players PROVE o <= Len(peer[q].mine)
            OBVIOUS
        <3> DEFINE m == peer[q].sess.next
        <3>1. m \in Nat \ {0} /\ peer[q].mine \in [1 .. m - 1 -> Input] /\ DOMAIN Made[q] = 1 .. m - 1
            BY MadeIsMaking DEF NetInv, Machine
        <3>2. o \in 1 .. m - 1
            BY <1>7, <3>1
        <3> HIDE DEF m, o
        <3>3. Len(peer[q].mine) = m - 1
            BY <1>2, <3>1, PutIsAppend
        <3> QED
            BY <3>1, <3>2, <3>3
    <2>2. ticks' = [ticks EXCEPT ![p] = @ + 1]
        BY <1>3, <1>7
    <2>3. worlds' = [worlds EXCEPT ![p] = Step(@, [q \in Players |-> made[q][ticks[p]]])]
        <3>1. [q \in Players |-> Made[q][o]] = [q \in Players |-> made[q][ticks[p]]]
            BY DEF Made
        <3> QED
            BY <1>3, <1>7, <3>1
    <2> QED
        BY <1>2, <1>5, <2>1, <2>2, <2>3 DEF Game!Next, Game!Frame, Game!Settle, Game!Row
<1> QED
    BY <1>6, <1>7, OldestMoves

(* The network session is lockstep underneath (rollback is what the        *)
(* predictions add): the world a machine can no longer take back moves     *)
(* one tick at a time, with the inputs every player really made for it.    *)
THEOREM NetImplementsLockstep == Spec /\ HeardInTime => ImplementsLockstep
<1>1. Init => Game!Init
    BY LockstepBegins
<1>2. NetInv /\ InTime /\ NoGaps /\ [Next]_vars => [Game!Next]_(Game!vars)
    <2> SUFFICES ASSUME NetInv, InTime, NoGaps, [Next]_vars PROVE Game!Next \/ UNCHANGED Game!vars
        OBVIOUS
    <2>1. CASE UNCHANGED vars
        BY <2>1 DEF vars, Game!vars
    <2>2. ASSUME NEW p \in Players, NEW heard \in Arrivals(p), NEW upto \in Reads(p),
                 NEW v \in Plays(p, peer[p].sess.next), Advance(p, heard, upto, v)
          PROVE  Game!Next
        BY <2>2, LockstepAdvance
    <2>3. ASSUME NEW p \in Players, NEW heard \in Arrivals(p), NEW upto \in Reads(p),
                 Poll(p, heard, upto)
          PROVE  UNCHANGED Game!vars
        <3> DEFINE n == Hear(p, heard, upto)
        <3>1. peer' = [peer EXCEPT ![p] = n]
            BY <2>3 DEF Poll, PollThen
        <3>2. n.mine = peer[p].mine /\ n.sess.ring = peer[p].sess.ring
            BY HearSound DEF Grown
        <3> HIDE DEF n
        <3>3. \A q \in Players : peer'[q].mine = peer[q].mine /\ peer'[q].sess.ring = peer[q].sess.ring
            BY <3>1, <3>2 DEF NetInv
        <3> QED
            BY <3>3 DEF Game!vars, OldestTick, OldestWorld
    <2>4. ASSUME NEW d \in datagrams, Lose(d)
          PROVE  UNCHANGED Game!vars
        BY <2>4 DEF Lose, Game!vars
    <2> QED
        BY <2>1, <2>2, <2>3, <2>4 DEF Next
<1> QED
    BY <1>1, <1>2, MachinesAreSound, NoGapsAlways, InTimeAlways, PTL DEF Spec, ImplementsLockstep, Game!Spec

-----------------------------------------------------------------------------
(* One game, and no false alarm about it.                                  *)
LEMMA GameExists ==
    ASSUME NEW made, \A q \in Players : \A t \in DOMAIN made[q] : t \in 1 .. MaxTick
    PROVE  \E w : IsGame(w, made)
<1> DEFINE Row(t) == [q \in Players |-> made[q][t]]
           Upto(f, n) == /\ f[1] = Start
                         /\ \A t \in 1 .. n : f[t + 1] = Step(f[t], Row(t))
           Bad == {n \in Nat : ~\E f : Upto(f, n)}
<1> HIDE DEF Row
<1>1. Bad = {}
    <2> SUFFICES ASSUME Bad # {} PROVE FALSE
        OBVIOUS
    <2>1. PICK n \in Bad : \A x \in Bad : n <= x
        <3>1. Min(Bad) \in Bad /\ \A x \in Bad : Min(Bad) <= x
            BY MinOfNats
        <3> QED
            BY <3>1
    <2>2. CASE n = 0
        <3> DEFINE f == [t \in {1} |-> Start]
        <3>1. f[1] = Start /\ 1 .. n = {}
            BY <2>2
        <3> HIDE DEF f
        <3>2. Upto(f, n)
            BY <3>1
        <3> QED
            BY <2>1, <3>2
    <2>3. CASE n # 0
        <3>1. n \in Nat /\ n - 1 \in Nat /\ n - 1 \notin Bad
            <4>1. n \in Nat
                BY <2>1
            <4>2. n - 1 \in Nat /\ ~(n <= n - 1)
                BY <2>3, <4>1
            <4> HIDE DEF Bad
            <4> QED
                BY <2>1, <4>1, <4>2
        <3>2. PICK g : Upto(g, n - 1)
            BY <3>1
        <3> DEFINE f == [t \in 1 .. n + 1 |-> IF t = n + 1 THEN Step(g[n], Row(n)) ELSE g[t]]
        <3>3. f[n + 1] = Step(g[n], Row(n)) /\ \A t \in 1 .. n : f[t] = g[t]
            BY <3>1
        <3> HIDE DEF f
        <3>4. f[1] = Start
            BY <2>3, <3>1, <3>2, <3>3
        <3>5. ASSUME NEW t \in 1 .. n
              PROVE  f[t + 1] = Step(f[t], Row(t))
            <4>1. CASE t = n
                BY <3>3, <4>1
            <4>2. CASE t # n
                <5>1. t \in 1 .. n - 1 /\ t + 1 \in 1 .. n
                    BY <3>1, <4>2
                <5> QED
                    BY <3>2, <3>3, <5>1
            <4> QED
                BY <4>1, <4>2
        <3>6. Upto(f, n)
            BY <3>4, <3>5
        <3> QED
            BY <2>1, <3>6
    <2> QED
        BY <2>2, <2>3
<1>2. MaxTick \in Nat
    BY BoundAssumption
<1>3. PICK f : Upto(f, MaxTick)
    BY <1>1, <1>2
<1>4. \A t \in Nat \ {0} : (\A q \in Players : t \in DOMAIN made[q]) => t \in 1 .. MaxTick
    BY HostAssumption
<1>5. IsGame(f, made)
    BY <1>3, <1>4 DEF IsGame, Row
<1> QED
    BY <1>5

LEMMA GameEarlier ==
    ASSUME NEW made, NEW later, Extends(made, later), NEW w, IsGame(w, later)
    PROVE  IsGame(w, made)
<1> SUFFICES ASSUME NEW t \in Nat \ {0}, \A q \in Players : t \in DOMAIN made[q]
             PROVE  w[t + 1] = Step(w[t], [q \in Players |-> made[q][t]])
    BY DEF IsGame
<1>1. \A q \in Players : t \in DOMAIN later[q] /\ later[q][t] = made[q][t]
    BY DEF Extends
<1>2. [q \in Players |-> later[q][t]] = [q \in Players |-> made[q][t]]
    BY <1>1
<1> QED
    BY <1>1, <1>2 DEF IsGame

(* Up to a tick with nothing predicted below it, a machine is in the game. *)
LEMMA ConfirmedIsInGame ==
    ASSUME NEW s, NEW made, Making(made), Sound(s, made), s.dirty = NoTick,
           NEW w, IsGame(w, made), OldestWorld(s) = w[OldestTick(s)],
           NEW t \in DOMAIN s.ring, \A u \in DOMAIN s.ring : u <= t => Confirmed(s, u)
    PROVE  s.digests[t] = Digest(w[t + 1])
<1> DEFINE n == s.next
           o == OldestTick(s)
           Bad == {u \in DOMAIN s.ring : u <= t /\ s.ring[u] # w[u]}
<1>1. n \in Nat \ {0} /\ DOMAIN s.ring = RingTicks(n) /\ DOMAIN s.ring \subseteq Nat
    BY SoundNumbers
<1>2. /\ o \in Nat \ {0} /\ (n > Depth => o = n - Depth) /\ (n <= Depth => o = 1)
      /\ n > 1 => o \in DOMAIN s.ring /\ OldestWorld(s) = s.ring[o]
    BY <1>1, OldestIs
<1>3. n > 1 /\ t \in Nat
    BY <1>1 DEF RingTicks
<1>4. Resting(s)
    BY DEF Sound
<1>5. /\ \A u \in DOMAIN s.ring : u + 1 \in DOMAIN s.ring => s.ring[u + 1] = Step(s.ring[u], RowOf(s, u))
      /\ \A u \in DOMAIN s.ring : s.digests[u] = Digest(Step(s.ring[u], RowOf(s, u)))
    <2>1. \A u \in DOMAIN s.ring : u # n
        BY <1>1 DEF RingTicks
    <2> QED
        BY <1>4, <2>1 DEF Resting, ChainedTo
<1>6. ASSUME NEW u \in DOMAIN s.ring, u <= t
      PROVE  w[u + 1] = Step(w[u], RowOf(s, u))
    <2>1. Confirmed(s, u)
        BY <1>6
    <2>2. \A q \in Players : u \in DOMAIN s.arrived[q]
        BY <2>1 DEF Confirmed, IsPresent, Sound
    <2>3. u \in Nat \ {0} /\ u < Due(s)
        BY <1>1 DEF RingTicks, Due
    <2>4. \A q \in Players : u \in DOMAIN made[q] /\ s.used[q][u] = made[q][u]
        BY <1>4, <2>2, <2>3 DEF Resting, PlayedTo, Sound
    <2>5. RowOf(s, u) = [q \in Players |-> made[q][u]]
        BY <2>4 DEF RowOf
    <2> QED
        BY <2>3, <2>4, <2>5 DEF IsGame
<1> HIDE DEF n, o
<1>7. Bad = {}
    <2> SUFFICES ASSUME Bad # {} PROVE FALSE
        OBVIOUS
    <2>1. PICK u \in Bad : \A x \in Bad : u <= x
        <3>1. Bad \in SUBSET Nat
            BY <1>1
        <3> QED
            BY <3>1, MinOfNats
    <2>2. u \in DOMAIN s.ring /\ u <= t /\ s.ring[u] # w[u] /\ u \in Nat
        BY <1>1, <2>1
    <2>3. u # o
        BY <1>2, <1>3, <2>2 DEF o
    <2>4. u - 1 \in DOMAIN s.ring /\ u - 1 <= t /\ u - 1 + 1 = u
        BY <1>1, <1>2, <1>3, <2>2, <2>3, DepthAssumption DEF RingTicks
    <2>5. u - 1 \notin Bad
        BY <2>1, <2>2
    <2>6. s.ring[u - 1] = w[u - 1]
        BY <2>4, <2>5
    <2> QED
        BY <1>5, <1>6, <2>2, <2>4, <2>6
<1>8. s.ring[t] = w[t]
    BY <1>3, <1>7
<1> QED
    BY <1>3, <1>5, <1>6, <1>8

(* A tick that is over stays over when the next one runs.                  *)
LEMMA OverStays ==
    ASSUME NetInv, NEW p \in Players, NEW heard \in Arrivals(p), NEW upto,
           NEW v \in Plays(p, peer[p].sess.next), Advance(p, heard, upto, v),
           NEW t \in Nat, Over(peer[p].sess, t)
    PROVE  Over(peer'[p].sess, t)
<1> DEFINE s == peer[p].sess
           x == Pressed(p, Hear(p, heard, upto), v).sess
           later == MadeWith(p, v)
<1>1. s.next <= MaxTick
    BY DEF Advance, AdvanceThen, Moved
<1>2. Sound(x, later) /\ Grown(s, x)
    BY <1>1, PressedSound
<1>3. Making(later)
    BY <1>1, MakingOneMore
<1>4. peer'[p].sess = AdvanceOf(x)
    BY MachineMoves
<1> HIDE DEF x, later
<1>5. Over(x, t)
    BY <1>2 DEF Grown, Over, Confirmed, IsPresent, BelowRing
<1> QED
    BY <1>2, <1>3, <1>4, <1>5, RanSound

(* What was read on a link is claimed, or over.                            *)
LEMMA TakenOnReading ==
    ASSUME NetInv, InOrder, NEW p \in Players, Claims(p), Taken(p),
           NEW heard \in Arrivals(p), NEW upto \in Reads(p)
    PROVE  LET n == Hear(p, heard, upto)
           IN  /\ \A q \in Links(p) : \A t \in 1 .. upto[q] :
                    <<t, q>> \in n.claimed \/ Over(peer[p].sess, t)
               /\ \A k \in n.claimed : /\ k[2] \in Players /\ k[1] \in DOMAIN published[k[2]]
                                       /\ k[2] \in Links(p) /\ k[1] \in 1 .. upto[k[2]]
<1> DEFINE claimed == Hear(p, heard, upto).claimed
<1>1. claimed = peer[p].claimed \union {k \in (1 .. MaxTick) \X Links(p) :
                /\ k[1] \in DOMAIN published[k[2]]
                /\ read[p][k[2]] < k[1] /\ k[1] <= upto[k[2]]}
    BY HearSound
<1>2. peer[p].claimed \subseteq (1 .. MaxTick) \X Links(p)
    BY DEF NetInv, Machine
<1>3. /\ read[p] \in [Links(p) -> 0 .. MaxTick]
      /\ \A k \in peer[p].claimed : k[1] \in DOMAIN published[k[2]] /\ k[1] <= read[p][k[2]]
    BY DEF Claims
<1>4. /\ upto \in [Links(p) -> 0 .. MaxTick]
      /\ \A q \in Links(p) : \/ upto[q] = read[p][q]
                             \/ upto[q] > read[p][q] /\ upto[q] \in DOMAIN published[q]
    BY DEF Reads
<1> HIDE DEF claimed
<1>5. ASSUME NEW q \in Links(p), NEW t \in 1 .. upto[q]
      PROVE  <<t, q>> \in claimed \/ Over(peer[p].sess, t)
    <2>1. upto[q] \in 0 .. MaxTick /\ read[p][q] \in 0 .. MaxTick /\ q \in Players
        BY <1>3, <1>4, LinksAreFinite
    <2>2. CASE t <= read[p][q]
        <3>1. t \in 1 .. read[p][q]
            BY <2>1, <2>2, BoundAssumption
        <3> QED
            BY <1>1, <3>1 DEF Taken
    <2>3. CASE ~(t <= read[p][q])
        <3>1. upto[q] \in DOMAIN published[q]
            BY <1>4, <2>1, <2>3, BoundAssumption
        <3>2. t \in DOMAIN published[q]
            BY <2>1, <3>1 DEF InOrder
        <3>3. t \in 1 .. MaxTick /\ read[p][q] < t /\ t <= upto[q]
            BY <2>1, <2>3, BoundAssumption
        <3> DEFINE k == <<t, q>>
        <3>4. k \in (1 .. MaxTick) \X Links(p) /\ k[1] = t /\ k[2] = q
            BY <3>3
        <3> HIDE DEF k
        <3>5. k \in claimed
            BY <1>1, <3>2, <3>3, <3>4
        <3> QED
            BY <3>5 DEF k
    <2> QED
        BY <2>2, <2>3
<1>6. ASSUME NEW k \in claimed
      PROVE  /\ k[2] \in Players /\ k[1] \in DOMAIN published[k[2]]
             /\ k[2] \in Links(p) /\ k[1] \in 1 .. upto[k[2]]
    <2>1. k[2] \in Links(p) /\ k[1] \in 1 .. MaxTick
        BY <1>1, <1>2
    <2>2. /\ upto[k[2]] \in 0 .. MaxTick /\ read[p][k[2]] \in 0 .. MaxTick /\ k[2] \in Players
          /\ upto[k[2]] = read[p][k[2]] \/ upto[k[2]] > read[p][k[2]]
        BY <1>3, <1>4, <2>1, LinksAreFinite
    <2>3. k[1] \in DOMAIN published[k[2]] /\ k[1] <= upto[k[2]]
        <3>1. CASE k \in peer[p].claimed
            <4>1. k[1] \in DOMAIN published[k[2]] /\ k[1] <= read[p][k[2]]
                BY <1>3, <3>1
            <4> QED
                BY <2>1, <2>2, <4>1, BoundAssumption
        <3>2. CASE k \notin peer[p].claimed
            BY <1>1, <3>2
        <3> QED
            BY <3>1, <3>2
    <2> QED
        BY <2>1, <2>2, <2>3, BoundAssumption
<1> QED
    BY <1>5, <1>6 DEF claimed

Agreeing ==
    /\ \A p \in Players : Taken(p) /\ peer[p].desync = NoTick
    /\ \A w : IsGame(w, Made) => \A p \in Players : InGame(w, p)

LEMMA AgreeingAdvance ==
    ASSUME InTime, NetInv, NoGaps, Settling, InOrder, Agreeing,
           NEW p \in Players, NEW heard \in Arrivals(p), NEW upto \in Reads(p),
           NEW v \in Plays(p, peer[p].sess.next), Advance(p, heard, upto, v)
    PROVE  Agreeing'
<1> DEFINE s == peer[p].sess
           r == peer'[p].sess
           later == MadeWith(p, v)
           claimed == Hear(p, heard, upto).claimed
           u == peer[p].settled
           sent == {t \in DOMAIN r.digests : Confirmed(r, t) /\ u < t /\ t <= peer'[p].settled}
<1>1. /\ Made' = later
      /\ Sound(r, later) /\ r.dirty = NoTick
      /\ \A q \in Players \ {p} : peer'[q] = peer[q]
      /\ \A k \in claimed : k \in peer'[p].claimed \/ Over(r, k[1])
      /\ \/ peer'[p].desync = peer[p].desync
         \/ \E k \in claimed :
                /\ \A j \in claimed : ~Over(r, j[1]) => k[1] < j[1]
                /\ Confirmed(r, k[1])
                /\ k[1] \in DOMAIN r.digests
                /\ published[k[2]][k[1]] # r.digests[k[1]]
    <2> DEFINE ran == Moved(p, heard, upto, v)
    <2>1. /\ Made' = later /\ Sound(ran.sess, later) /\ ran.sess.dirty = NoTick
          /\ r = ran.sess /\ ran.claimed = claimed /\ ran.desync = peer[p].desync
          /\ \A q \in Players \ {p} : peer'[q] = peer[q]
          /\ \A k \in ran.claimed : k \in peer'[p].claimed \/ Over(ran.sess, k[1])
        BY MachineMoves
    <2>2. \/ peer'[p].desync = ran.desync
          \/ \E k \in ran.claimed :
                /\ \A j \in ran.claimed : ~Over(ran.sess, j[1]) => k[1] < j[1]
                /\ Confirmed(ran.sess, k[1])
                /\ k[1] \in DOMAIN ran.sess.digests
                /\ published[k[2]][k[1]] # ran.sess.digests[k[1]]
        BY MachineMoves
    <2> HIDE DEF ran, r, later, claimed
    <2> QED
        BY <2>1, <2>2
<1>2. /\ Making(later) /\ Extends(Made, later)
    BY RunsATick, MakingOneMore
<1>3. /\ DOMAIN published'[p] = DOMAIN published[p] \union sent
      /\ \A t \in sent : published'[p][t] = r.digests[t]
      /\ \A t \in DOMAIN published[p] : t \notin sent => published'[p][t] = published[p][t]
      /\ \A q \in Players \ {p} : published'[q] = published[q]
      /\ read'[p] = upto /\ \A q \in Players \ {p} : read'[q] = read[q]
    BY PublishedIs
<1>4. /\ \A q \in Links(p) : \A t \in 1 .. upto[q] : <<t, q>> \in claimed \/ Over(s, t)
      /\ \A k \in claimed : /\ k[2] \in Players /\ k[1] \in DOMAIN published[k[2]]
                            /\ k[2] \in Links(p) /\ k[1] \in 1 .. upto[k[2]]
    <2>1. Claims(p) /\ Taken(p)
        BY DEF Settling, Agreeing
    <2> QED
        BY <2>1, TakenOnReading
<1>5. \A t \in Nat : Over(s, t) => Over(r, t)
    BY OverStays
<1>6. /\ DOMAIN r.ring \subseteq Nat \ {0} /\ DOMAIN r.digests = DOMAIN r.ring
    <2>1. /\ DOMAIN r.ring = RingTicks(s.next + 1) /\ DOMAIN r.digests = DOMAIN r.ring
          /\ s.next \in Nat
        BY RingMoves
    <2> QED
        BY <2>1 DEF RingTicks
<1>7. Firm(r, peer'[p].settled) /\ peer'[p].settled \in Nat
    <2>1. Final(p)
        BY DEF Settling
    <2>2. Firm(r, peer'[p].settled)
        BY <2>1, SettledStaysFirm
    <2>3. peer'[p].settled \in Nat
        BY MachineMoves
    <2> QED
        BY <2>2, <2>3
<1>8. \/ OldestTick(r) = OldestTick(s) /\ OldestWorld(r) = OldestWorld(s)
      \/ /\ OldestTick(r) = OldestTick(s) + 1
         /\ \A q \in Players : OldestTick(s) \in DOMAIN Made[q]
         /\ OldestWorld(r) = Step(OldestWorld(s), [q \in Players |-> Made[q][OldestTick(s)]])
    BY OldestMoves
<1>9. Making(Made)
    BY MadeIsMaking
<1>10. \A q \in Players : upto[q] \in Nat \/ q \notin Links(p)
    BY BoundAssumption DEF Reads
<1> HIDE DEF s, r, later, claimed, u
<1>11. Taken(p)'
    <2> SUFFICES ASSUME NEW q \in Links(p), NEW t \in 1 .. upto[q]
                 PROVE  <<t, q>> \in peer'[p].claimed \/ Over(r, t)
        BY <1>3 DEF Taken, r
    <2>1. t \in Nat
        BY <1>10, LinksAreFinite
    <2> DEFINE k == <<t, q>>
    <2>2. k[1] = t /\ (k \in claimed \/ Over(s, t))
        BY <1>4
    <2> HIDE DEF k
    <2>3. k \in peer'[p].claimed \/ Over(r, t)
        BY <1>1, <1>5, <2>1, <2>2
    <2> QED
        BY <2>3 DEF k
<1>12. ASSUME NEW w, IsGame(w, later)
       PROVE  /\ \A q \in Players : InGame(w, q)
              /\ OldestWorld(r) = w[OldestTick(r)]
    <2>1. IsGame(w, Made)
        BY <1>2, <1>12, GameEarlier
    <2>2. \A q \in Players : InGame(w, q)
        BY <2>1 DEF Agreeing
    <2> DEFINE o == OldestTick(s)
    <2>3. OldestWorld(s) = w[o]
        BY <2>2 DEF InGame, s
    <2> HIDE DEF o
    <2>4. CASE OldestTick(r) = o /\ OldestWorld(r) = OldestWorld(s)
        BY <2>2, <2>3, <2>4
    <2>5. CASE /\ OldestTick(r) = o + 1
               /\ \A q \in Players : o \in DOMAIN Made[q]
               /\ OldestWorld(r) = Step(OldestWorld(s), [q \in Players |-> Made[q][o]])
        <3>1. o \in Nat \ {0}
            BY <1>9, <2>5 DEF Making
        <3>2. w[o + 1] = Step(w[o], [q \in Players |-> Made[q][o]])
            BY <2>1, <2>5, <3>1 DEF IsGame
        <3> QED
            BY <2>2, <2>3, <2>5, <3>2
    <2> QED
        BY <1>8, <2>4, <2>5 DEF o
<1>13. ASSUME NEW w, IsGame(w, later), NEW t \in DOMAIN r.ring,
              \A x \in DOMAIN r.ring : x <= t => Confirmed(r, x)
       PROVE  r.digests[t] = Digest(w[t + 1])
    <2>1. OldestWorld(r) = w[OldestTick(r)]
        BY <1>12, <1>13
    <2> QED
        BY <1>1, <1>2, <1>13, <2>1, ConfirmedIsInGame
<1>14. ASSUME NEW w, IsGame(w, later)
       PROVE  \A q \in Players : InGame(w, q)'
    <2>1. \A t \in sent : r.digests[t] = Digest(w[t + 1])
        <3> SUFFICES ASSUME NEW t \in sent PROVE r.digests[t] = Digest(w[t + 1])
            OBVIOUS
        <3>1. t \in DOMAIN r.ring /\ t \in Nat /\ t <= peer'[p].settled
            BY <1>6
        <3>2. \A x \in DOMAIN r.ring : x <= t => Confirmed(r, x)
            BY <1>6, <1>7, <3>1 DEF Firm
        <3> QED
            BY <1>13, <1>14, <3>1, <3>2
    <2>2. \A q \in Players : InGame(w, q)
        BY <1>12, <1>14
    <2> HIDE DEF sent
    <2>3. \A t \in DOMAIN published'[p] : published'[p][t] = Digest(w[t + 1])
        BY <1>3, <2>1, <2>2 DEF InGame
    <2>4. InGame(w, p)'
        BY <1>12, <1>14, <2>3 DEF InGame, r
    <2>5. \A q \in Players \ {p} : InGame(w, q)'
        BY <1>1, <1>3, <2>2 DEF InGame
    <2> QED
        BY <2>4, <2>5
<1>15. peer'[p].desync = NoTick
    <2> SUFFICES ASSUME NEW k \in claimed,
                        \A j \in claimed : ~Over(r, j[1]) => k[1] < j[1],
                        k[1] \in DOMAIN r.digests,
                        published[k[2]][k[1]] # r.digests[k[1]]
                 PROVE  FALSE
        BY <1>1 DEF Agreeing
    <2> DEFINE t == k[1]
               q == k[2]
    <2>1. q \in Players /\ t \in DOMAIN published[q] /\ q \in Links(p) /\ t \in 1 .. upto[q]
        BY <1>4
    <2>2. \E w : IsGame(w, later)
        <3>1. \A x \in Players : \A y \in DOMAIN later[x] : y \in 1 .. MaxTick
            <4>1. peer[p].sess.next <= MaxTick /\ peer[p].sess.next \in Nat
                BY RunsATick, MadeIsMaking
            <4>2. DOMAIN later[p] = 1 .. peer[p].sess.next
                BY RunsATick, MakingOneMore DEF later
            <4>3. \A x \in Players \ {p} : later[x] = Made[x]
                BY RunsATick, MakingOneMore DEF later
            <4>4. \A x \in Players : /\ DOMAIN Made[x] = 1 .. peer[x].sess.next - 1
                                     /\ peer[x].sess.next \in Nat /\ peer[x].sess.next <= MaxTick + 1
                BY MadeIsMaking DEF NetInv, Machine
            <4>5. ASSUME NEW x \in Players \ {p}, NEW y \in DOMAIN later[x]
                  PROVE  y \in 1 .. MaxTick
                <5>1. later[x] = Made[x] /\ DOMAIN Made[x] = 1 .. peer[x].sess.next - 1
                    BY <4>3, <4>4
                <5>2. peer[x].sess.next \in Nat /\ peer[x].sess.next <= MaxTick + 1
                    BY <4>4
                <5> HIDE DEF later
                <5> QED
                    BY <4>5, <5>1, <5>2, BoundAssumption
            <4>6. \A y \in DOMAIN later[p] : y \in 1 .. MaxTick
                BY <4>1, <4>2, BoundAssumption
            <4> QED
                BY <4>5, <4>6
        <3> QED
            BY <3>1, GameExists
    <2>3. PICK w : IsGame(w, later)
        BY <2>2
    <2>4. published[q][t] = Digest(w[t + 1])
        BY <1>12, <2>1, <2>3 DEF InGame
    <2> HIDE DEF t, q
    <2>5. t \in DOMAIN r.ring /\ t \in Nat
        BY <1>6 DEF t
    <2>6. ASSUME NEW x \in DOMAIN r.ring, x <= t
          PROVE  Confirmed(r, x)
        <3>1. x \in Nat \ {0} /\ upto[q] \in Nat /\ x \in 1 .. upto[q]
            BY <1>6, <1>10, <2>1, <2>5, <2>6
        <3>2. Over(r, x)
            <4>1. CASE Over(s, x)
                BY <1>5, <3>1, <4>1
            <4>2. CASE ~Over(s, x)
                <5> DEFINE j == <<x, q>>
                <5>1. j \in claimed /\ j[1] = x
                    BY <1>4, <2>1, <3>1, <4>2
                <5> HIDE DEF j
                <5>2. ~Over(r, x) => t < x
                    BY <5>1 DEF t
                <5> QED
                    BY <2>5, <2>6, <3>1, <5>2
            <4> QED
                BY <4>1, <4>2
        <3>3. ~BelowRing(r, x)
            BY <3>1 DEF BelowRing
        <3> QED
            BY <3>2, <3>3 DEF Over
    <2>7. r.digests[t] = Digest(w[t + 1])
        BY <1>13, <2>3, <2>5, <2>6
    <2> QED
        BY <2>4, <2>7 DEF t, q
<1>16. \A q \in Players \ {p} : Taken(q)' /\ peer'[q].desync = NoTick
    BY <1>1, <1>3 DEF Agreeing, Taken
<1> QED
    BY <1>1, <1>11, <1>14, <1>15, <1>16 DEF Agreeing

LEMMA AgreeingPoll ==
    ASSUME NetInv, Settling, InOrder, Agreeing, NEW p \in Players,
           NEW heard \in Arrivals(p), NEW upto \in Reads(p), Poll(p, heard, upto)
    PROVE  Agreeing'
<1> DEFINE n == Hear(p, heard, upto)
<1>1. /\ peer' = [peer EXCEPT ![p] = n]
      /\ read' = [read EXCEPT ![p] = upto] /\ published' = published
    BY DEF Poll, PollThen
<1>2. n.desync = peer[p].desync /\ Grown(peer[p].sess, n.sess)
    BY HearSound
<1>3. \A q \in Links(p) : \A t \in 1 .. upto[q] :
            <<t, q>> \in n.claimed \/ Over(peer[p].sess, t)
    BY TakenOnReading DEF Settling, Agreeing
<1> HIDE DEF n
<1>4. /\ peer'[p] = n /\ (\A q \in Players \ {p} : peer'[q] = peer[q])
      /\ read'[p] = upto /\ (\A q \in Players \ {p} : read'[q] = read[q])
    BY <1>1 DEF NetInv
<1>5. \A t : Over(peer[p].sess, t) => Over(n.sess, t)
    BY <1>2 DEF Grown, Over, Confirmed, IsPresent, BelowRing
<1>6. Taken(p)'
    BY <1>3, <1>4, <1>5 DEF Taken
<1>7. \A q \in Players \ {p} : Taken(q)'
    BY <1>4 DEF Taken, Agreeing
<1>8. \A q \in Players : peer'[q].desync = NoTick
    BY <1>2, <1>4 DEF Agreeing
<1>9. Made' = Made
    BY NetInvPoll
<1>10. ASSUME NEW w, IsGame(w, Made), NEW q \in Players
       PROVE  InGame(w, q)'
    <2>1. InGame(w, q)
        BY <1>10 DEF Agreeing
    <2>2. peer'[q].sess.ring = peer[q].sess.ring
        BY <1>2, <1>4 DEF Grown
    <2>3. /\ OldestTick(peer'[q].sess) = OldestTick(peer[q].sess)
          /\ OldestWorld(peer'[q].sess) = OldestWorld(peer[q].sess)
        BY <2>2 DEF OldestTick, OldestWorld
    <2> QED
        BY <1>1, <2>1, <2>3 DEF InGame
<1> QED
    BY <1>6, <1>7, <1>8, <1>9, <1>10 DEF Agreeing

LEMMA AgreeingKept ==
    ASSUME InTime, NetInv, NoGaps, Settling, InOrder, Agreeing, [Next]_vars
    PROVE  Agreeing'
<1>1. CASE UNCHANGED vars
    <2>1. peer' = peer /\ published' = published /\ read' = read
        BY <1>1 DEF vars
    <2>2. Made' = Made
        BY <2>1 DEF Made
    <2> QED
        BY <2>1, <2>2 DEF Agreeing, Taken, InGame
<1>2. ASSUME NEW p \in Players, NEW heard \in Arrivals(p), NEW upto \in Reads(p),
             NEW v \in Plays(p, peer[p].sess.next), Advance(p, heard, upto, v)
      PROVE  Agreeing'
    BY <1>2, AgreeingAdvance
<1>3. ASSUME NEW p \in Players, NEW heard \in Arrivals(p), NEW upto \in Reads(p),
             Poll(p, heard, upto)
      PROVE  Agreeing'
    BY <1>3, AgreeingPoll
<1>4. ASSUME NEW d \in datagrams, Lose(d)
      PROVE  Agreeing'
    <2>1. peer' = peer /\ published' = published /\ read' = read
        BY <1>4 DEF Lose
    <2>2. Made' = Made
        BY <2>1 DEF Made
    <2> QED
        BY <2>1, <2>2 DEF Agreeing, Taken, InGame
<1> QED
    BY <1>1, <1>2, <1>3, <1>4 DEF Next

LEMMA AgreeingBegins == Init => Agreeing
<1> SUFFICES ASSUME Init PROVE Agreeing
    OBVIOUS
<1>1. ASSUME NEW p \in Players
      PROVE  /\ Taken(p) /\ peer[p].desync = NoTick
             /\ OldestTick(peer[p].sess) = 1 /\ OldestWorld(peer[p].sess) = Start
             /\ DOMAIN published[p] = {}
    <2>1. peer[p] = NewPeer(p) /\ published[p] = NoEntries /\ read[p] = [q \in Links(p) |-> 0]
        BY DEF Init
    <2>2. peer[p].sess.ring = NoEntries /\ peer[p].desync = NoTick
        BY <2>1 DEF NewPeer, NewSession
    <2>3. DOMAIN NoEntries = {}
        BY DEF NoEntries
    <2>4. Taken(p)
        BY <2>1 DEF Taken
    <2> QED
        BY <2>1, <2>2, <2>3, <2>4 DEF OldestTick, OldestWorld
<1>2. ASSUME NEW w, IsGame(w, Made), NEW p \in Players
      PROVE  InGame(w, p)
    BY <1>1, <1>2 DEF IsGame, InGame
<1> QED
    BY <1>1, <1>2 DEF Agreeing

(* Peers that play the same game are never told they disagree              *)
(* (compare_claims): a digest is compared only once every tick below it    *)
(* has all its inputs here, so both sides are digests of the one game.     *)
THEOREM NoAlarmIsFalse == Spec /\ HeardInTime => []NoFalseAlarm
<1>1. Init => Agreeing
    BY AgreeingBegins
<1>2. Agreeing /\ NetInv /\ InTime /\ NoGaps /\ Settling /\ InOrder /\ [Next]_vars => Agreeing'
    BY AgreeingKept
<1>3. Agreeing => NoFalseAlarm
    BY DEF Agreeing, NoFalseAlarm
<1> QED
    BY <1>1, <1>2, <1>3, MachinesAreSound, NoGapsAlways, InTimeAlways, SettlingAlways, InOrderAlways, PTL DEF Spec
-----------------------------------------------------------------------------
(* Leaving a match: a session whose players leave, and what each operation *)
(* makes of it.                                                            *)
Fit(s) ==
    /\ Resting(s)
    /\ \A q \in Players : NewestOf(s, q) \in Nat
    /\ \A q \in DOMAIN s.absent : s.absent[q] \in Nat \ {0}

(* All that arrived is what was made.                                      *)
Honest(s, made) ==
    \A q \in Players : \A t \in DOMAIN s.arrived[q] :
        t \in DOMAIN made[q] /\ s.arrived[q][t] = made[q][t]

LEMMA FitNumbers ==
    ASSUME NEW s, Fit(s)
    PROVE  /\ IsSession(s) /\ s.next \in Nat \ {0} /\ DOMAIN s = Fields
           /\ DOMAIN s.ring = RingTicks(s.next) /\ DOMAIN s.ring \subseteq Nat
           /\ s.dirty \in Nat \union {NoTick}
           /\ DOMAIN s.absent \subseteq Players
BY DEF Fit, Resting, Shaped, IsSession

(* An earlier mark leaves fewer ticks to have been played as they arrived. *)
LEMMA DueEarlier ==
    ASSUME NEW s, NEW r, s.dirty \in Nat \union {NoTick}, r.dirty \in Nat \union {NoTick},
           s.next \in Nat, r.next = s.next,
           s.dirty # NoTick => r.dirty # NoTick /\ r.dirty <= s.dirty,
           NEW t \in Nat, t < s.next, t < Due(r)
    PROVE  t < Due(s)
<1>1. CASE s.dirty = NoTick
    BY <1>1 DEF Due
<1>2. CASE s.dirty # NoTick
    <2>1. r.dirty \in Nat /\ s.dirty \in Nat /\ r.dirty <= s.dirty /\ Due(r) = r.dirty /\ Due(s) = s.dirty
        BY <1>2 DEF Due
    <2> QED
        BY <2>1
<1> QED
    BY <1>1, <1>2

LEMMA SubmitFit ==
    ASSUME NEW s, Fit(s), NEW p, NEW t \in Nat \ {0}, NEW v \in Input
    PROVE  LET r == SubmitTo(s, p, t, v)
           IN  /\ Fit(r)
               /\ r.next = s.next /\ r.absent = s.absent
<1> DEFINE r == SubmitTo(s, p, t, v)
           newest == IF p \in DOMAIN s.newest /\ t < s.newest[p] THEN s.newest[p] ELSE t
           noted == [s EXCEPT !.newest = Put(@, p, newest), !.arrived[p] = Put(@, t, v)]
<1>1. /\ IsSession(s) /\ s.next \in Nat \ {0} /\ DOMAIN s = Fields
      /\ DOMAIN s.ring = RingTicks(s.next) /\ DOMAIN s.ring \subseteq Nat
      /\ s.dirty \in Nat \union {NoTick}
    BY FitNumbers
<1>2. t \in Nat
    OBVIOUS
<1>3. /\ IsSession(r)
      /\ r.next = s.next /\ r.world = s.world /\ r.ring = s.ring
      /\ r.used = s.used /\ r.digests = s.digests
      /\ r.absent = s.absent
      /\ s.dirty # NoTick => r.dirty # NoTick /\ r.dirty <= s.dirty
      /\ r.dirty = s.dirty \/ (r.dirty = t /\ t < s.next /\ ~BelowRing(s, t))
    BY <1>1, <1>2, SubmitFrame
<1>4. \A q \in Players : \A u \in DOMAIN r.arrived[q] :
         \/ u \in DOMAIN s.arrived[q] /\ r.arrived[q][u] = s.arrived[q][u]
         \/ /\ u = t /\ IsPresent(s, q, u) /\ r.arrived[q][u] = v
            /\ \/ t >= s.next
               \/ t \in DOMAIN s.used[q] /\ s.used[q][t] = v
               \/ BelowRing(s, t)
               \/ r.dirty # NoTick /\ r.dirty <= t
    BY <1>1, <1>2, SubmitJournals
<1>5. \A q \in Players : NewestOf(r, q) \in Nat
    <2>1. CASE r = s
        BY <2>1 DEF Fit
    <2>2. CASE r # s
        <3>1. p \in Players
            BY <2>2 DEF SubmitTo, Refused
        <3>2. r.newest = Put(s.newest, p, newest)
            <4>1. noted.newest = Put(s.newest, p, newest) /\ DOMAIN noted = Fields
                BY <1>1 DEF Fields
            <4> HIDE DEF noted
            <4>2. r = noted \/ r = MarkDirty(noted, t)
                <5>1. r = (IF t < s.next /\ (t \notin DOMAIN s.used[p] \/ s.used[p][t] # v)
                           THEN MarkDirty(noted, t) ELSE noted)
                    BY <2>2 DEF SubmitTo, noted
                <5> QED
                    BY <5>1
            <4> HIDE DEF r, newest
            <4> QED
                BY <4>1, <4>2 DEF MarkDirty, Fields
        <3>3. newest \in Nat
            <4>1. p \in DOMAIN s.newest => s.newest[p] \in Nat
                BY <3>1 DEF Fit, NewestOf
            <4> QED
                BY <1>2, <4>1
        <3> HIDE DEF r, newest
        <3>4. \A q \in Players : NewestOf(r, q) = IF q = p THEN newest ELSE NewestOf(s, q)
            BY <3>2 DEF NewestOf, Put
        <3> QED
            BY <3>3, <3>4 DEF Fit
    <2> QED
        BY <2>1, <2>2
<1> HIDE DEF r
<1>6. r.dirty \in Nat \union {NoTick}
    BY <1>3 DEF IsSession
<1>7. Shaped(r)
    <2>1. \A q \in DOMAIN r.absent : q \in Players
        BY <1>3 DEF IsSession
    <2>2. \A q \in DOMAIN r.absent : \A u \in DOMAIN r.arrived[q] : u < r.absent[q]
        <3> SUFFICES ASSUME NEW q \in DOMAIN r.absent, NEW u \in DOMAIN r.arrived[q]
                     PROVE  u < r.absent[q]
            OBVIOUS
        <3>1. q \in Players /\ q \in DOMAIN s.absent
            BY <1>3, <2>1
        <3>2. \A x \in DOMAIN s.arrived[q] : x < s.absent[q]
            BY <3>1 DEF Fit, Resting, Shaped
        <3>3. IsPresent(s, q, u) => u < s.absent[q]
            BY <3>1 DEF IsPresent
        <3> QED
            BY <1>3, <1>4, <3>1, <3>2, <3>3
    <2> QED
        BY <1>3, <2>2 DEF Fit, Resting, Shaped
<1>8. r.dirty # NoTick => r.dirty \in DOMAIN r.ring
    <2>1. ASSUME t < s.next, ~BelowRing(s, t)
          PROVE  t \in DOMAIN s.ring
        BY <1>1, <2>1, StillInTheRing
    <2> QED
        BY <1>3, <2>1 DEF Fit, Resting
<1>9. ChainedTo(r, r.next)
    BY <1>3 DEF Fit, Resting, ChainedTo, RowOf
<1>10. PlayedTo(r, Due(r))
    <2> SUFFICES ASSUME NEW q \in Players, NEW u \in DOMAIN r.ring \intersect DOMAIN r.arrived[q],
                        u < Due(r)
                 PROVE  r.used[q][u] = r.arrived[q][u]
        BY DEF PlayedTo
    <2>1. u \in Nat /\ u < s.next /\ u \in DOMAIN s.ring
        BY <1>1, <1>3 DEF RingTicks
    <2>2. u < Due(s)
        BY <1>1, <1>3, <1>6, <2>1, DueEarlier
    <2>3. CASE u \in DOMAIN s.arrived[q] /\ r.arrived[q][u] = s.arrived[q][u]
        BY <1>3, <2>1, <2>2, <2>3 DEF Fit, Resting, PlayedTo
    <2>4. CASE /\ u = t /\ r.arrived[q][u] = v
               /\ t \in DOMAIN s.used[q] /\ s.used[q][t] = v
        BY <1>3, <2>4
    <2>5. CASE u = t /\ t >= s.next
        BY <1>1, <2>1, <2>5
    <2>6. CASE u = t /\ BelowRing(s, t)
        BY <2>1, <2>6 DEF BelowRing
    <2>7. CASE u = t /\ r.dirty # NoTick /\ r.dirty <= t
        BY <1>6, <2>1, <2>7 DEF Due
    <2> QED
        BY <1>4, <2>3, <2>4, <2>5, <2>6, <2>7
<1>11. Resting(r)
    BY <1>7, <1>8, <1>9, <1>10 DEF Resting
<1>12. \A q \in DOMAIN r.absent : r.absent[q] \in Nat \ {0}
    BY <1>3 DEF Fit
<1> QED
    BY <1>3, <1>5, <1>11, <1>12 DEF Fit, r

(* An input that was made leaves a session honest.                         *)
LEMMA SubmitHonest ==
    ASSUME NEW s, Fit(s), NEW p \in Players, NEW t \in Nat \ {0}, NEW v \in Input,
           NEW made, Honest(s, made), t \in DOMAIN made[p], v = made[p][t]
    PROVE  Honest(SubmitTo(s, p, t, v), made)
<1> DEFINE r == SubmitTo(s, p, t, v)
           changed == t \notin DOMAIN s.used[p] \/ s.used[p][t] # v
           newest == IF p \in DOMAIN s.newest /\ t < s.newest[p] THEN s.newest[p] ELSE t
           noted == [s EXCEPT !.newest = Put(@, p, newest), !.arrived[p] = Put(@, t, v)]
<1>1. DOMAIN s = Fields /\ DOMAIN s.arrived = Players
    BY FitNumbers DEF IsSession, IsJournal
<1>2. r = s \/ r.arrived = [s.arrived EXCEPT ![p] = Put(@, t, v)]
    <2>1. noted.arrived = [s.arrived EXCEPT ![p] = Put(@, t, v)] /\ DOMAIN noted = Fields
        BY <1>1 DEF Fields
    <2> HIDE DEF noted
    <2>2. r = s \/ r = noted \/ r = MarkDirty(noted, t)
        <3>1. r = IF Refused(s, p, t) THEN s
                  ELSE IF t < s.next /\ changed THEN MarkDirty(noted, t) ELSE noted
            BY DEF SubmitTo, noted
        <3> QED
            BY <3>1
    <2> HIDE DEF r
    <2> QED
        BY <2>1, <2>2 DEF MarkDirty, Fields
<1> HIDE DEF r
<1>3. CASE r = s
    BY <1>3 DEF r
<1>4. CASE r.arrived = [s.arrived EXCEPT ![p] = Put(@, t, v)]
    <2>1. /\ DOMAIN r.arrived[p] = DOMAIN s.arrived[p] \union {t}
          /\ r.arrived[p][t] = v
          /\ \A u \in DOMAIN s.arrived[p] : u # t => r.arrived[p][u] = s.arrived[p][u]
          /\ \A q \in Players \ {p} : r.arrived[q] = s.arrived[q]
        BY <1>1, <1>4 DEF Put
    <2> QED
        BY <2>1 DEF Honest, r
<1> QED
    BY <1>2, <1>3, <1>4

LEMMA SetAbsentFit ==
    ASSUME NEW s, Fit(s), NEW p \in Players, NEW from \in Nat \ {0}
    PROVE  LET r == SetAbsentOn(s, p, from)
           IN  /\ Fit(r)
               /\ r.next = s.next /\ r.absent = Put(s.absent, p, from)
               /\ \A made : Honest(s, made) => Honest(r, made)
<1> DEFINE r == SetAbsentOn(s, p, from)
           left == [s EXCEPT !.absent = Put(@, p, from),
                             !.arrived[p] = Restrict(@, {t \in DOMAIN @ : t < from})]
<1>1. /\ IsSession(s) /\ s.next \in Nat \ {0} /\ DOMAIN s = Fields
      /\ DOMAIN s.ring = RingTicks(s.next) /\ DOMAIN s.ring \subseteq Nat
      /\ s.dirty \in Nat \union {NoTick}
    BY FitNumbers
<1>2. from \in Nat
    OBVIOUS
<1>3. /\ IsSession(r)
      /\ r.next = s.next /\ r.world = s.world /\ r.ring = s.ring
      /\ r.used = s.used /\ r.digests = s.digests /\ r.clock = s.clock
      /\ r.absent = Put(s.absent, p, from)
      /\ s.dirty # NoTick => r.dirty # NoTick /\ r.dirty <= s.dirty
      /\ \/ r.dirty = s.dirty
         \/ r.dirty \in DOMAIN s.used[p] /\ ~BelowRing(s, r.dirty)
    BY <1>1, <1>2, SetAbsentFrame
<1>14. ASSUME NEW q \in Players, NEW u \in DOMAIN r.arrived[q]
       PROVE  /\ u \in DOMAIN s.arrived[q] /\ r.arrived[q][u] = s.arrived[q][u]
              /\ q = p => u < from
    BY <1>1, <1>2, <1>14, SetAbsentFrame
<1>4. r.newest = s.newest
    <2>1. left.newest = s.newest /\ DOMAIN left = Fields
        BY <1>1 DEF Fields
    <2> HIDE DEF left
    <2>2. \E t : r = left \/ r = MarkDirty(left, t)
        BY DEF SetAbsentOn, left
    <2> HIDE DEF r
    <2> QED
        BY <2>1, <2>2 DEF MarkDirty, Fields
<1> HIDE DEF r
<1>5. r.dirty \in Nat \union {NoTick}
    BY <1>3 DEF IsSession
<1>6. Shaped(r)
    <2>1. \A q \in DOMAIN r.absent : q \in Players
        BY <1>3 DEF IsSession
    <2>2. \A q \in DOMAIN r.absent : \A u \in DOMAIN r.arrived[q] : u < r.absent[q]
        <3> SUFFICES ASSUME NEW q \in DOMAIN r.absent, NEW u \in DOMAIN r.arrived[q]
                     PROVE  u < r.absent[q]
            OBVIOUS
        <3>1. q \in Players
            BY <2>1
        <3>2. CASE q = p
            BY <1>3, <1>14, <3>1, <3>2 DEF Put
        <3>3. CASE q # p
            <4>1. q \in DOMAIN s.absent /\ r.absent[q] = s.absent[q]
                BY <1>3, <3>3 DEF Put
            <4>2. \A x \in DOMAIN s.arrived[q] : x < s.absent[q]
                BY <4>1 DEF Fit, Resting, Shaped
            <4> QED
                BY <1>14, <3>1, <4>1, <4>2
        <3> QED
            BY <3>2, <3>3
    <2> QED
        BY <1>3, <2>2 DEF Fit, Resting, Shaped
<1>7. r.dirty # NoTick => r.dirty \in DOMAIN r.ring
    <2> DEFINE t == r.dirty
    <2>1. ASSUME t \in DOMAIN s.used[p], ~BelowRing(s, t)
          PROVE  t \in DOMAIN s.ring
        <3>1. 0 < t /\ t < s.next
            BY <2>1 DEF Fit, Resting, Shaped
        <3>2. t \in Nat
            BY <1>1, <2>1 DEF IsSession, IsJournal
        <3> HIDE DEF t
        <3>3. t \in Nat \ {0}
            BY <3>1, <3>2
        <3> QED
            BY <1>1, <2>1, <3>1, <3>3, StillInTheRing
    <2>2. s.dirty # NoTick => s.dirty \in DOMAIN s.ring
        BY DEF Fit, Resting
    <2> QED
        BY <1>3, <2>1, <2>2
<1>8. ChainedTo(r, r.next)
    BY <1>3 DEF Fit, Resting, ChainedTo, RowOf
<1>9. PlayedTo(r, Due(r))
    <2> SUFFICES ASSUME NEW q \in Players, NEW u \in DOMAIN r.ring \intersect DOMAIN r.arrived[q],
                        u < Due(r)
                 PROVE  r.used[q][u] = r.arrived[q][u]
        BY DEF PlayedTo
    <2>1. u \in Nat /\ u < s.next /\ u \in DOMAIN s.ring
        BY <1>1, <1>3 DEF RingTicks
    <2>2. u < Due(s)
        BY <1>1, <1>3, <1>5, <2>1, DueEarlier
    <2> QED
        BY <1>3, <1>14, <2>1, <2>2 DEF Fit, Resting, PlayedTo
<1>10. Resting(r)
    BY <1>6, <1>7, <1>8, <1>9 DEF Resting
<1>11. \A q \in DOMAIN r.absent : r.absent[q] \in Nat \ {0}
    BY <1>3 DEF Fit, Put
<1>12. \A q \in Players : NewestOf(r, q) \in Nat
    BY <1>4 DEF Fit, NewestOf
<1>13. ASSUME NEW made, Honest(s, made)
       PROVE  Honest(r, made)
    BY <1>13, <1>14 DEF Honest
<1> QED
    BY <1>3, <1>10, <1>11, <1>12, <1>13 DEF Fit, r

LEMMA AdvanceFit ==
    ASSUME NEW s, Fit(s)
    PROVE  LET r == AdvanceOf(s)
           IN  /\ Fit(r)
               /\ s.next \in Nat \ {0} /\ r.next = s.next + 1 /\ r.absent = s.absent
               /\ \A made : Honest(s, made) => Honest(r, made)
<1> DEFINE r == AdvanceOf(s)
<1>1. /\ Resting(r) /\ s.next \in Nat \ {0} /\ r.next = s.next + 1
      /\ r.absent = s.absent /\ r.newest = s.newest
      /\ \A p \in Players : \A t \in DOMAIN r.arrived[p] :
            t \in DOMAIN s.arrived[p] /\ r.arrived[p][t] = s.arrived[p][t]
    BY AdvanceKeeps DEF Fit
<1> HIDE DEF r
<1>2. \A q \in Players : NewestOf(r, q) \in Nat
    BY <1>1 DEF Fit, NewestOf
<1>3. \A q \in DOMAIN r.absent : r.absent[q] \in Nat \ {0}
    BY <1>1 DEF Fit
<1>4. ASSUME NEW made, Honest(s, made)
      PROVE  Honest(r, made)
    BY <1>1, <1>4 DEF Honest
<1> QED
    BY <1>1, <1>2, <1>3, <1>4 DEF Fit, r

-----------------------------------------------------------------------------
(* Inputs fed one after another, from a datagram or a notice.              *)
Tells(d, n, made) ==
    /\ d.player \in Players
    /\ \A t \in d.first .. n : t \in DOMAIN made[d.player] /\ d.values[t] = made[d.player][t]

LEMMA FedFit ==
    ASSUME NEW s, Fit(s), NEW d, d.first \in Nat \ {0}, NEW n \in Nat, d.first - 1 <= n,
           \A t \in d.first .. n : d.values[t] \in Input,
           NEW f, Feeding(f, s, d, n), NEW made
    PROVE  /\ Fit(f[n]) /\ f[n].next = s.next /\ f[n].absent = s.absent
           /\ Honest(s, made) /\ Tells(d, n, made) => Honest(f[n], made)
<1> DEFINE a == d.first - 1
           Good(t) == /\ Fit(f[t]) /\ f[t].next = s.next /\ f[t].absent = s.absent
                      /\ Honest(s, made) /\ Tells(d, n, made) => Honest(f[t], made)
           P == {i \in 0 .. n - a : Good(a + i)}
<1>1. a \in Nat /\ d.first = a + 1 /\ n - a \in Nat
    OBVIOUS
<1>2. \A t \in a .. n : f[t] = IF t = a THEN s ELSE SubmitTo(f[t - 1], d.player, t, d.values[t])
    BY DEF Feeding
<1>3. 0 \in P
    <2>1. a \in a .. n /\ a + 0 = a /\ 0 \in 0 .. n - a
        BY <1>1
    <2>2. f[a] = s
        BY <1>2, <2>1
    <2> QED
        BY <2>1, <2>2
<1>4. ASSUME NEW i \in 0 .. n - a - 1, i \in P
      PROVE  i + 1 \in P
    <2> DEFINE t == a + i + 1
    <2>1. /\ t \in a .. n /\ t # a /\ t - 1 = a + i /\ t \in Nat \ {0} /\ t \in d.first .. n
          /\ a + (i + 1) = t /\ i + 1 \in 0 .. n - a
        BY <1>1
    <2>2. Good(a + i)
        BY <1>4
    <2> HIDE DEF t, a
    <2> DEFINE x == f[a + i]
               v == d.values[t]
    <2>3. f[t] = SubmitTo(x, d.player, t, v) /\ v \in Input
        BY <1>2, <2>1
    <2>4. Fit(x) /\ x.next = s.next /\ x.absent = s.absent
        BY <2>2
    <2> HIDE DEF x, v
    <2>5. Fit(f[t]) /\ f[t].next = s.next /\ f[t].absent = s.absent
        BY <2>1, <2>3, <2>4, SubmitFit
    <2>6. ASSUME Honest(s, made), Tells(d, n, made)
          PROVE  Honest(f[t], made)
        <3>1. d.player \in Players /\ t \in DOMAIN made[d.player] /\ v = made[d.player][t]
            BY <2>1, <2>6 DEF Tells, v
        <3>2. Honest(x, made)
            BY <2>2, <2>6 DEF x
        <3> QED
            BY <2>1, <2>3, <2>4, <3>1, <3>2, SubmitHonest
    <2> QED
        BY <2>1, <2>5, <2>6
<1> HIDE DEF P
<1>5. 0 .. n - a \subseteq P
    <2> DEFINE k == n - a
    <2> HIDE DEF k, a
    <2>1. k \in Nat /\ 0 \in P /\ \A i \in 0 .. k - 1 : i \in P => i + 1 \in P
        BY <1>1, <1>3, <1>4 DEF k
    <2> QED
        BY <2>1, StepByStep DEF k
<1>6. n - a \in P /\ a + (n - a) = n
    BY <1>1, <1>5
<1> HIDE DEF a
<1>7. Good(n)
    BY <1>6 DEF P
<1> QED
    BY <1>7

(* A machine's session and links, and what reading leaves as it was.       *)
Able(m) ==
    /\ DOMAIN m = MachineFields
    /\ Fit(m.sess)
    /\ m.theirLead \in [OpenLinks(m) -> Int]

Untouched(m, n) ==
    /\ n.mine = m.mine /\ n.settled = m.settled /\ n.desync = m.desync
    /\ n.sess.next = m.sess.next

Heard(m, n) ==
    /\ Untouched(m, n)
    /\ n.claimed = m.claimed
    /\ n.sess.absent = m.sess.absent
    /\ OpenLinks(n) = OpenLinks(m)

LEMMA DatagramFit ==
    ASSUME NEW m, Able(m), NEW made, Making(made), NEW d, Truthful(d, made)
    PROVE  LET n == HearDatagram(m, d)
           IN  Able(n) /\ Heard(m, n) /\ (Honest(m.sess, made) => Honest(n.sess, made))
<1> DEFINE n == HearDatagram(m, d)
           links == OpenLinks(m)
<1>1. DOMAIN m = MachineFields /\ Fit(m.sess) /\ m.theirLead \in [links -> Int]
    BY DEF Able
<1>2. /\ d.player \in Players /\ d.lead \in Int
      /\ d.first \in Nat \ {0} /\ d.tick \in Nat /\ d.first <= d.tick /\ d.first - 1 <= d.tick
      /\ \A t \in d.first .. d.tick :
            t \in DOMAIN made[d.player] /\ d.values[t] = made[d.player][t]
    BY DEF Truthful
<1>3. PICK f : Feeding(f, m.sess, d, d.tick) /\ n.sess = f[d.tick]
    <2> HIDE DEF n
    <2>1. \E f : Feeding(f, m.sess, d, d.tick) /\ HearDatagram(m, d).sess = f[d.tick]
        BY <1>1, <1>2, DatagramFeeds
    <2> QED
        BY <2>1 DEF n
<1> HIDE DEF links
<1>4. /\ DOMAIN n = MachineFields
      /\ n.mine = m.mine /\ n.claimed = m.claimed
      /\ n.settled = m.settled /\ n.desync = m.desync
      /\ n.theirLead \in [links -> Int]
    BY <1>1, <1>2, DatagramFrame
<1> HIDE DEF n
<1>5. \A t \in d.first .. d.tick : d.values[t] \in Input
    BY <1>2 DEF Making
<1> DEFINE s == m.sess
           b == d.tick
<1>6. Fit(s) /\ b \in Nat /\ d.first - 1 <= b /\ Feeding(f, s, d, b)
    BY <1>1, <1>2, <1>3
<1>7. \A t \in d.first .. b : d.values[t] \in Input
    BY <1>5
<1>8. Tells(d, b, made)
    BY <1>2 DEF Tells
<1> HIDE DEF s, b
<1>9. /\ Fit(f[b]) /\ f[b].next = s.next /\ f[b].absent = s.absent
      /\ Honest(s, made) /\ Tells(d, b, made) => Honest(f[b], made)
    BY <1>2, <1>6, <1>7, FedFit
<1>10. Fit(n.sess) /\ n.sess.next = m.sess.next /\ n.sess.absent = m.sess.absent
    BY <1>3, <1>9 DEF s, b
<1>11. OpenLinks(n) = OpenLinks(m)
    BY <1>4 DEF OpenLinks, links
<1> QED
    BY <1>3, <1>4, <1>8, <1>9, <1>10, <1>11 DEF Able, Heard, Untouched, n, s, b, links

LEMMA DatagramsFit ==
    ASSUME NEW m, Able(m), NEW made, Making(made), NEW heard, Len(heard) \in Nat,
           \A i \in 1 .. Len(heard) : Truthful(heard[i], made)
    PROVE  LET n == HearDatagrams(m, heard)
           IN  Able(n) /\ Heard(m, n) /\ (Honest(m.sess, made) => Honest(n.sess, made))
<1> DEFINE last == Len(heard)
<1>1. PICK f : Stepping(f, m, heard, last) /\ HearDatagrams(m, heard) = f[last]
    BY DatagramsStep
<1> DEFINE Good(i) == /\ Able(f[i]) /\ Heard(m, f[i])
                      /\ Honest(m.sess, made) => Honest(f[i].sess, made)
           P == {i \in 0 .. last : Good(i)}
<1>2. \A i \in 0 .. last : f[i] = IF i = 0 THEN m ELSE HearDatagram(f[i - 1], heard[i])
    BY <1>1 DEF Stepping
<1>3. 0 \in P
    <2>1. 0 \in 0 .. last /\ f[0] = m
        BY <1>2
    <2>2. Heard(m, m)
        BY DEF Heard, Untouched
    <2> QED
        BY <2>1, <2>2
<1>4. ASSUME NEW i \in 0 .. last - 1, i \in P
      PROVE  i + 1 \in P
    <2>1. /\ i + 1 \in 0 .. last /\ i + 1 # 0 /\ i + 1 - 1 = i /\ i + 1 \in 1 .. last
        OBVIOUS
    <2>2. Good(i) /\ f[i + 1] = HearDatagram(f[i], heard[i + 1])
        BY <1>2, <1>4, <2>1
    <2>3. Truthful(heard[i + 1], made)
        BY <2>1
    <2> DEFINE x == f[i]
               d == heard[i + 1]
               y == f[i + 1]
    <2>4. Able(x) /\ Truthful(d, made) /\ y = HearDatagram(x, d)
        BY <2>2, <2>3
    <2> HIDE DEF x, d, y
    <2>5. Able(y) /\ Heard(x, y) /\ (Honest(x.sess, made) => Honest(y.sess, made))
        BY <2>4, DatagramFit
    <2>6. Heard(m, y)
        BY <2>2, <2>5 DEF Heard, Untouched, x
    <2> QED
        BY <2>1, <2>2, <2>5, <2>6 DEF x, y
<1> HIDE DEF P
<1>5. 0 .. last \subseteq P
    <2> HIDE DEF last
    <2>1. last \in Nat
        BY DEF last
    <2> QED
        BY <1>3, <1>4, <2>1, StepByStep
<1>6. Good(last)
    BY <1>5 DEF P
<1> QED
    BY <1>1, <1>6

-----------------------------------------------------------------------------
(* What a frame does before it settles.                                    *)
Claim(p, upto) ==
    {k \in (1 .. MaxTick) \X Links(p) :
        /\ k[1] \in DOMAIN published[k[2]]
        /\ read[p][k[2]] < k[1] /\ k[1] <= upto[k[2]]}

LEMMA HearFit ==
    ASSUME NEW p, Able(peer[p]), NEW made, Making(made), NEW heard, Len(heard) \in Nat,
           \A i \in 1 .. Len(heard) : Truthful(heard[i], made), NEW upto
    PROVE  LET m == peer[p]
               n == Hear(p, heard, upto)
           IN  /\ Able(n) /\ Untouched(m, n)
               /\ n.claimed = m.claimed \union Claim(p, upto)
               /\ n.sess.absent = m.sess.absent
               /\ OpenLinks(n) = OpenLinks(m)
               /\ Honest(m.sess, made) => Honest(n.sess, made)
<1> DEFINE m == peer[p]
           x == HearDatagrams(m, heard)
           n == Hear(p, heard, upto)
<1>1. Able(x) /\ Heard(m, x) /\ (Honest(m.sess, made) => Honest(x.sess, made))
    BY DatagramsFit
<1>2. n = HearDigests(x, p, upto)
    BY DEF Hear
<1> HIDE DEF x, m
<1>3. n = [x EXCEPT !.claimed = @ \union Claim(p, upto)] /\ DOMAIN x = MachineFields
    BY <1>1, <1>2 DEF HearDigests, Claim, Able
<1> HIDE DEF n
<1>4. /\ DOMAIN n = MachineFields
      /\ n.mine = x.mine /\ n.settled = x.settled /\ n.desync = x.desync
      /\ n.theirLead = x.theirLead /\ n.sess = x.sess
      /\ n.claimed = x.claimed \union Claim(p, upto)
    BY <1>3 DEF MachineFields
<1> QED
    BY <1>1, <1>4 DEF Able, Heard, Untouched, OpenLinks, m, n

LEMMA PressedFit ==
    ASSUME NEW m, Able(m), NEW p \in Players, NEW v \in Input
    PROVE  LET n == Pressed(p, m, v)
           IN  /\ Able(n)
               /\ n.mine = Put(m.mine, m.sess.next, v)
               /\ n.settled = m.settled /\ n.desync = m.desync /\ n.claimed = m.claimed
               /\ n.sess.next = m.sess.next /\ n.sess.absent = m.sess.absent
               /\ OpenLinks(n) = OpenLinks(m)
               /\ \A made : /\ Honest(m.sess, made)
                            /\ m.sess.next \in DOMAIN made[p] /\ v = made[p][m.sess.next]
                            => Honest(n.sess, made)
<1> DEFINE s == m.sess
           t == m.sess.next
           r == SubmitTo(s, p, t, v)
           n == Pressed(p, m, v)
<1>1. DOMAIN m = MachineFields /\ Fit(s)
    BY DEF Able
<1> HIDE DEF s
<1>2. t \in Nat \ {0}
    BY <1>1, FitNumbers DEF s
<1>3. /\ DOMAIN n = MachineFields /\ n.sess = r /\ n.mine = Put(m.mine, t, v)
      /\ n.settled = m.settled /\ n.desync = m.desync /\ n.claimed = m.claimed
      /\ n.theirLead = m.theirLead
    <2> HIDE DEF r
    <2>1. n = [m EXCEPT !.mine = Put(@, t, v), !.sess = r]
        BY DEF Pressed, r, s
    <2> QED
        BY <1>1, <2>1 DEF MachineFields
<1> HIDE DEF n, t
<1>4. Fit(r) /\ r.next = s.next /\ r.absent = s.absent
    BY <1>1, <1>2, SubmitFit
<1>5. ASSUME NEW made, Honest(s, made), t \in DOMAIN made[p], v = made[p][t]
      PROVE  Honest(r, made)
    BY <1>1, <1>2, <1>5, SubmitHonest
<1> HIDE DEF r
<1> QED
    BY <1>3, <1>4, <1>5 DEF Able, OpenLinks, n, s, t

(* A machine that plays, whoever is left to play with.                     *)
Crewed(m, p) ==
    /\ Able(m)
    /\ OpenLinks(m) \subseteq Links(p)
    /\ m.sess.next <= MaxTick + 1
    /\ DOMAIN m.mine = 1 .. m.sess.next - 1
    /\ \A t \in DOMAIN m.mine : m.mine[t] \in Plays(p, t)
    /\ m.claimed \subseteq (1 .. MaxTick) \X Links(p)
    /\ m.settled \in Nat /\ m.settled < m.sess.next
    /\ m.desync \in Nat \union {NoTick}

LEMMA CrewedNumbers ==
    ASSUME NEW m, NEW p, Crewed(m, p)
    PROVE  /\ DOMAIN m = MachineFields /\ Fit(m.sess) /\ IsSession(m.sess)
           /\ m.sess.next \in Nat \ {0}
           /\ m.theirLead \in [OpenLinks(m) -> Int]
           /\ \A q \in Players : NewestOf(m.sess, q) \in Nat
           /\ DOMAIN m.sess.absent \subseteq Players
<1> DEFINE s == m.sess
<1>1. DOMAIN m = MachineFields /\ Fit(s) /\ m.theirLead \in [OpenLinks(m) -> Int]
    BY DEF Crewed, Able
<1> HIDE DEF s
<1>2. IsSession(s) /\ s.next \in Nat \ {0} /\ DOMAIN s.absent \subseteq Players
    BY <1>1, FitNumbers
<1>3. \A q \in Players : NewestOf(s, q) \in Nat
    BY <1>1 DEF Fit
<1> QED
    BY <1>1, <1>2, <1>3 DEF s

LEMMA HearCrewed ==
    ASSUME NEW p, Crewed(peer[p], p), NEW made, Making(made), NEW heard, Len(heard) \in Nat,
           \A i \in 1 .. Len(heard) : Truthful(heard[i], made), NEW upto
    PROVE  LET m == peer[p]
               n == Hear(p, heard, upto)
           IN  /\ Crewed(n, p) /\ Untouched(m, n)
               /\ n.claimed = m.claimed \union Claim(p, upto)
               /\ n.sess.absent = m.sess.absent
               /\ OpenLinks(n) = OpenLinks(m)
               /\ Honest(m.sess, made) => Honest(n.sess, made)
<1> DEFINE m == peer[p]
           n == Hear(p, heard, upto)
<1>1. Able(peer[p])
    BY DEF Crewed
<1>2. /\ Able(n) /\ Untouched(m, n)
      /\ n.claimed = m.claimed \union Claim(p, upto)
      /\ n.sess.absent = m.sess.absent
      /\ OpenLinks(n) = OpenLinks(m)
      /\ Honest(m.sess, made) => Honest(n.sess, made)
    BY <1>1, HearFit
<1>3. Claim(p, upto) \subseteq (1 .. MaxTick) \X Links(p)
    BY DEF Claim
<1> HIDE DEF n
<1>4. Crewed(n, p)
    BY <1>2, <1>3 DEF Crewed, Untouched
<1> QED
    BY <1>2, <1>4 DEF n

(* One tick, up to what the frame settles at its end.                      *)
LEMMA TickCrewed ==
    ASSUME NEW p \in Players, Crewed(peer[p], p), peer[p].sess.next <= MaxTick,
           NEW made, Making(made), NEW heard, Len(heard) \in Nat,
           \A i \in 1 .. Len(heard) : Truthful(heard[i], made), NEW upto,
           NEW v \in Plays(p, peer[p].sess.next)
    PROVE  LET m == peer[p]
               x == Pressed(p, Hear(p, heard, upto), v)
               ran == Moved(p, heard, upto, v)
               e == Exchanged(ran)
           IN  /\ Crewed(e, p)
               /\ e.mine = Put(m.mine, m.sess.next, v)
               /\ x.mine = e.mine /\ OpenLinks(x) \subseteq Links(p)
               /\ x.sess.next = m.sess.next /\ Lead(p, x.sess) \in Int
               /\ e.sess.absent = m.sess.absent /\ OpenLinks(e) = OpenLinks(m)
               /\ e.claimed \subseteq m.claimed \union Claim(p, upto)
               /\ m.settled <= e.settled
               /\ DOMAIN ToPublish(ran) \subseteq 1 .. e.settled
               /\ \A later : /\ Honest(m.sess, made) /\ Extends(made, later)
                             /\ m.sess.next \in DOMAIN later[p] /\ v = later[p][m.sess.next]
                             => Honest(e.sess, later)
<1> DEFINE m == peer[p]
           n == Hear(p, heard, upto)
           x == Pressed(p, n, v)
           ran == Moved(p, heard, upto, v)
           e == Exchanged(ran)
           t == m.sess.next
<1>1. /\ Crewed(n, p) /\ Untouched(m, n)
      /\ n.claimed = m.claimed \union Claim(p, upto)
      /\ n.sess.absent = m.sess.absent
      /\ OpenLinks(n) = OpenLinks(m)
      /\ Honest(m.sess, made) => Honest(n.sess, made)
    BY HearCrewed
<1>2. t \in Nat \ {0} /\ t <= MaxTick
    BY CrewedNumbers
<1>3. v \in Input
    BY <1>2, BoundAssumption, PlaysAssumption
<1>4. ran = [x EXCEPT !.sess = AdvanceOf(@)]
    BY DEF Moved
<1> HIDE DEF n, ran, m
<1>5. Able(n)
    BY <1>1 DEF Crewed
<1>6. /\ Able(x)
      /\ x.mine = Put(n.mine, n.sess.next, v)
      /\ x.settled = n.settled /\ x.desync = n.desync /\ x.claimed = n.claimed
      /\ x.sess.next = n.sess.next /\ x.sess.absent = n.sess.absent
      /\ OpenLinks(x) = OpenLinks(n)
      /\ \A later : /\ Honest(n.sess, later)
                    /\ n.sess.next \in DOMAIN later[p] /\ v = later[p][n.sess.next]
                    => Honest(x.sess, later)
    BY <1>3, <1>5, PressedFit
<1> HIDE DEF x
<1>7. n.sess.next = t /\ n.mine = m.mine /\ n.settled = m.settled /\ n.desync = m.desync
    BY <1>1 DEF Untouched
<1>8. x.sess.next = t /\ x.mine = Put(m.mine, t, v)
    BY <1>6, <1>7
<1> HIDE DEF t
<1> DEFINE s == x.sess
           r == AdvanceOf(s)
<1>9. Fit(s) /\ DOMAIN x = MachineFields /\ x.theirLead \in [OpenLinks(x) -> Int]
    BY <1>6 DEF Able
<1>10. s.next = t
    BY <1>8
<1> HIDE DEF s
<1>11. Lead(p, s) \in Int
    <2>1. s.next \in Nat /\ \A q \in Players : NewestOf(s, q) \in Nat
        BY <1>2, <1>9, <1>10 DEF Fit
    <2> QED
        BY <2>1, LeadIsAnInt
<1>12. /\ Fit(r) /\ r.next = s.next + 1 /\ r.absent = s.absent
       /\ \A later : Honest(s, later) => Honest(r, later)
    BY <1>9, AdvanceFit
<1> HIDE DEF r
<1>13. /\ DOMAIN ran = MachineFields /\ ran.sess = r
       /\ ran.mine = x.mine /\ ran.theirLead = x.theirLead /\ ran.claimed = x.claimed
       /\ ran.settled = x.settled /\ ran.desync = x.desync
    BY <1>4, <1>9 DEF MachineFields, r, s
<1>14. /\ m.settled \in Nat /\ m.settled < t /\ m.desync \in Nat \union {NoTick}
       /\ DOMAIN m.mine = 1 .. t - 1 /\ \A u \in DOMAIN m.mine : m.mine[u] \in Plays(p, u)
       /\ OpenLinks(m) \subseteq Links(p)
    BY DEF Crewed, m, t
<1>15. ran.claimed \subseteq (1 .. MaxTick) \X Links(p)
    BY <1>1, <1>6, <1>13 DEF Crewed
<1>16. /\ ran.settled \in Nat /\ ran.settled = m.settled /\ ran.sess.next = t + 1 /\ ran.sess.next \in Nat
       /\ \A k \in ran.claimed : k[1] \in Nat
    BY <1>2, <1>6, <1>7, <1>10, <1>12, <1>13, <1>14, <1>15, BoundAssumption
<1> DEFINE end == SettledUpTo(ran)
<1>17. end \in Nat /\ ran.settled <= end /\ (end = ran.settled \/ end <= ran.sess.next - (Lag + 1))
    BY <1>16, SettledIs
<1>18. /\ DOMAIN e = MachineFields
       /\ e.sess = ran.sess /\ e.mine = ran.mine /\ e.theirLead = ran.theirLead
       /\ e.settled = end
       /\ e.claimed \subseteq ran.claimed
       /\ e.desync = ran.desync \/ e.desync \in Nat
    BY <1>13, <1>16, ExchangedIs
<1> HIDE DEF e, end
<1>19. DOMAIN ToPublish(ran) \subseteq 1 .. e.settled
    <2> SUFFICES ASSUME NEW u \in DOMAIN ToPublish(ran) PROVE u \in 1 .. end
        BY <1>18
    <2>1. u \in DOMAIN ran.sess.digests /\ ran.settled < u /\ u <= end
        BY DEF ToPublish, Restrict, end
    <2>2. u \in Nat
        <3>1. IsSession(r)
            BY <1>12, FitNumbers
        <3> QED
            BY <1>13, <2>1, <3>1 DEF IsSession
    <2> QED
        BY <1>16, <1>17, <2>1, <2>2
<1>20. OpenLinks(e) = OpenLinks(m) /\ OpenLinks(x) = OpenLinks(m)
    BY <1>1, <1>6, <1>13, <1>18 DEF OpenLinks
<1>21. e.mine = Put(m.mine, t, v) /\ x.mine = e.mine
    BY <1>8, <1>13, <1>18
<1>22. e.sess.next = t + 1 /\ e.settled < t + 1
    BY <1>2, <1>14, <1>16, <1>17, <1>18, PacingAssumption
<1>23. Able(e)
    BY <1>9, <1>12, <1>13, <1>18 DEF Able, OpenLinks
<1>24. DOMAIN e.mine = 1 .. e.sess.next - 1 /\ \A u \in DOMAIN e.mine : e.mine[u] \in Plays(p, u)
    <2>1. DOMAIN e.mine = (1 .. t - 1) \union {t}
        BY <1>14, <1>21 DEF Put
    <2>2. (1 .. t - 1) \union {t} = 1 .. t /\ t + 1 - 1 = t
        BY <1>2
    <2>3. v \in Plays(p, t)
        BY DEF t, m
    <2>4. \A u \in DOMAIN e.mine : e.mine[u] \in Plays(p, u)
        BY <1>14, <1>21, <2>3 DEF Put
    <2>5. e.sess.next - 1 = t
        BY <1>2, <1>22
    <2> QED
        BY <2>1, <2>2, <2>4, <2>5
<1>25. Crewed(e, p)
    <2>1. e.sess.next <= MaxTick + 1
        BY <1>2, <1>22, BoundAssumption
    <2>2. e.claimed \subseteq (1 .. MaxTick) \X Links(p)
        BY <1>15, <1>18
    <2>3. e.settled \in Nat /\ e.settled < e.sess.next
        BY <1>17, <1>18, <1>22
    <2>4. e.desync \in Nat \union {NoTick}
        BY <1>6, <1>7, <1>13, <1>14, <1>18
    <2> QED
        BY <1>14, <1>20, <1>23, <1>24, <2>1, <2>2, <2>3, <2>4 DEF Crewed
<1>26. e.sess.absent = m.sess.absent
    BY <1>1, <1>6, <1>12, <1>13, <1>18 DEF s
<1>27. e.claimed \subseteq m.claimed \union Claim(p, upto)
    BY <1>1, <1>6, <1>13, <1>18
<1>28. ASSUME NEW later, Honest(m.sess, made), Extends(made, later),
              t \in DOMAIN later[p], v = later[p][t]
       PROVE  Honest(e.sess, later)
    <2>1. Honest(n.sess, made)
        BY <1>1, <1>28
    <2>2. Honest(n.sess, later)
        BY <1>28, <2>1 DEF Honest, Extends
    <2>3. Honest(s, later)
        BY <1>6, <1>7, <1>28, <2>2 DEF s
    <2> QED
        BY <1>12, <1>13, <1>18, <2>3
<1>29. OpenLinks(x) \subseteq Links(p) /\ m.settled <= e.settled
    BY <1>14, <1>16, <1>17, <1>18, <1>20
<1>30. Lead(p, x.sess) \in Int
    BY <1>11 DEF s
<1> QED
    BY <1>8, <1>19, <1>20, <1>21, <1>25, <1>26, <1>27, <1>28, <1>29, <1>30 DEF m, n, x, ran, e, t

-----------------------------------------------------------------------------
(* Those the host gives up on.                                             *)
Settles(m, n) ==
    /\ n.mine = m.mine /\ n.settled = m.settled /\ n.claimed = m.claimed
    /\ \A made : Honest(m.sess, made) => Honest(n.sess, made)

LEMMA DepartedIs ==
    ASSUME NEW m, NEW p, Crewed(m, p), NEW q \in Players
    PROVE  LET n == Departed(m, q)
           IN  /\ Crewed(n, p) /\ Settles(m, n)
               /\ DOMAIN n.sess.absent = DOMAIN m.sess.absent \union {q}
               /\ OpenLinks(n) = OpenLinks(m) \ {q}
<1> DEFINE s == m.sess
           from == FirstMissing(s, q)
           r == SetAbsentOn(s, q, from)
           links == OpenLinks(m) \ {q}
           n == Departed(m, q)
<1>1. Fit(s) /\ DOMAIN m = MachineFields /\ NewestOf(s, q) \in Nat
      /\ m.theirLead \in [OpenLinks(m) -> Int]
    BY CrewedNumbers
<1>2. from \in Nat \ {0}
    BY <1>1 DEF FirstMissing
<1>3. n = [m EXCEPT !.sess = r, !.theirLead = Restrict(@, links)]
    BY DEF Departed, OpenLinks
<1> HIDE DEF s, n, from
<1>4. /\ Fit(r) /\ r.next = s.next /\ r.absent = Put(s.absent, q, from)
      /\ \A made : Honest(s, made) => Honest(r, made)
    BY <1>1, <1>2, SetAbsentFit
<1> HIDE DEF r, links
<1>5. /\ DOMAIN n = MachineFields /\ n.sess = r /\ n.theirLead = Restrict(m.theirLead, links)
      /\ n.mine = m.mine /\ n.settled = m.settled /\ n.claimed = m.claimed /\ n.desync = m.desync
    BY <1>1, <1>3 DEF MachineFields
<1>6. OpenLinks(n) = links /\ n.theirLead \in [OpenLinks(n) -> Int]
    BY <1>1, <1>5 DEF OpenLinks, Restrict, links
<1>7. Crewed(n, p)
    BY <1>4, <1>5, <1>6 DEF Crewed, Able, s, links
<1>8. Settles(m, n)
    BY <1>4, <1>5 DEF Settles, s
<1>9. DOMAIN n.sess.absent = DOMAIN m.sess.absent \union {q}
    BY <1>4, <1>5 DEF Put, s
<1> QED
    BY <1>6, <1>7, <1>8, <1>9 DEF n, links

Parting(f, m, gone, n) ==
    f = [i \in 0 .. n |-> IF i = 0 THEN m ELSE Departed(f[i - 1], gone[i])]

LEMMA PartingExists ==
    ASSUME NEW m, NEW gone, NEW n \in Nat
    PROVE  \E f : Parting(f, m, gone, n)
<1> DEFINE Next1(f, i) == IF i = 0 THEN m ELSE Departed(f[i - 1], gone[i])
           P == {k \in 0 .. n : \E f : Parting(f, m, gone, k)}
<1>1. 0 \in P
    <2> DEFINE f == [i \in 0 .. 0 |-> m]
    <2>1. f = [i \in 0 .. 0 |-> Next1(f, i)]
        OBVIOUS
    <2>2. Parting(f, m, gone, 0)
        BY <2>1 DEF Parting
    <2> QED
        BY <2>2
<1>2. ASSUME NEW k \in 0 .. n - 1, k \in P
      PROVE  k + 1 \in P
    <2>1. PICK g : Parting(g, m, gone, k)
        BY <1>2
    <2> DEFINE last == Departed(g[k], gone[k + 1])
               f == [i \in 0 .. k + 1 |-> IF i = k + 1 THEN last ELSE g[i]]
    <2>2. \A i \in 0 .. k : g[i] = Next1(g, i)
        BY <2>1 DEF Parting
    <2>3. f[k + 1] = last /\ f[k + 1 - 1] = g[k]
        OBVIOUS
    <2>4. ASSUME NEW i \in 0 .. k
          PROVE  f[i] = Next1(f, i)
        <3>1. f[i] = g[i] /\ (i # 0 => f[i - 1] = g[i - 1])
            OBVIOUS
        <3> HIDE DEF f
        <3> QED
            BY <2>2, <3>1
    <2>5. \A i \in 0 .. k + 1 : i = k + 1 \/ i \in 0 .. k
        OBVIOUS
    <2>6. f = [i \in 0 .. k + 1 |-> f[i]]
        OBVIOUS
    <2> HIDE DEF f
    <2>7. k + 1 # 0 /\ k + 1 \in 0 .. n
        OBVIOUS
    <2>8. \A i \in 0 .. k + 1 : f[i] = Next1(f, i)
        BY <2>3, <2>4, <2>5, <2>7
    <2>9. Parting(f, m, gone, k + 1)
        BY <2>6, <2>8 DEF Parting
    <2> QED
        BY <2>7, <2>9
<1> HIDE DEF P
<1>3. 0 .. n \subseteq P
    BY <1>1, <1>2, StepByStep
<1> QED
    BY <1>3 DEF P

LEMMA DepartedPart ==
    ASSUME NEW m, NEW gone, Len(gone) \in Nat
    PROVE  \E f : Parting(f, m, gone, Len(gone)) /\ AllDeparted(m, gone) = f[Len(gone)]
<1> DEFINE F(f) == f = [i \in 0 .. Len(gone) |->
                          IF i = 0 THEN m ELSE Bind(f[i - 1], LAMBDA n : Departed(n, gone[i]))]
           after == CHOOSE f : F(f)
<1>1. \A x, i : (CHOOSE y \in {Departed(z, gone[i]) : z \in {x}} : TRUE) = Departed(x, gone[i])
    OBVIOUS
<1>2. \A f : F(f) <=> Parting(f, m, gone, Len(gone))
    BY <1>1 DEF Parting, Bind
<1>3. AllDeparted(m, gone) = after[Len(gone)]
    BY DEF AllDeparted, Bind
<1> HIDE DEF F
<1>4. \E f : Parting(f, m, gone, Len(gone))
    BY PartingExists
<1>5. F(after)
    BY <1>2, <1>4
<1> HIDE DEF after
<1> QED
    BY <1>2, <1>3, <1>5

LEMMA AllDepartedIs ==
    ASSUME NEW m, NEW p, Crewed(m, p), NEW gone, Len(gone) \in Nat,
           \A i \in 1 .. Len(gone) : gone[i] \in Players
    PROVE  LET n == AllDeparted(m, gone)
               left == {gone[i] : i \in 1 .. Len(gone)}
           IN  /\ Crewed(n, p) /\ Settles(m, n)
               /\ DOMAIN n.sess.absent = DOMAIN m.sess.absent \union left
               /\ OpenLinks(n) = OpenLinks(m) \ left
<1> DEFINE last == Len(gone)
           Left(i) == {gone[j] : j \in 1 .. i}
<1>1. PICK f : Parting(f, m, gone, last) /\ AllDeparted(m, gone) = f[last]
    BY DepartedPart
<1> DEFINE Good(i) == /\ Crewed(f[i], p) /\ Settles(m, f[i])
                      /\ DOMAIN f[i].sess.absent = DOMAIN m.sess.absent \union Left(i)
                      /\ OpenLinks(f[i]) = OpenLinks(m) \ Left(i)
           P == {i \in 0 .. last : Good(i)}
<1>2. \A i \in 0 .. last : f[i] = IF i = 0 THEN m ELSE Departed(f[i - 1], gone[i])
    BY <1>1 DEF Parting
<1>3. 0 \in P
    <2>1. 0 \in 0 .. last /\ f[0] = m /\ Left(0) = {}
        BY <1>2
    <2>2. Settles(m, m)
        BY DEF Settles
    <2> QED
        BY <2>1, <2>2
<1>4. ASSUME NEW i \in 0 .. last - 1, i \in P
      PROVE  i + 1 \in P
    <2>1. i + 1 \in 0 .. last /\ i + 1 # 0 /\ i + 1 - 1 = i /\ i + 1 \in 1 .. last
        OBVIOUS
    <2>2. Good(i) /\ f[i + 1] = Departed(f[i], gone[i + 1])
        BY <1>2, <1>4, <2>1
    <2>3. gone[i + 1] \in Players
        BY <2>1
    <2>4. Left(i + 1) = Left(i) \union {gone[i + 1]}
        <3>1. \A j \in 1 .. i + 1 : j \in 1 .. i \/ j = i + 1
            OBVIOUS
        <3>2. \A j \in 1 .. i : j \in 1 .. i + 1
            OBVIOUS
        <3> QED
            BY <2>1, <3>1, <3>2
    <2> DEFINE x == f[i]
               q == gone[i + 1]
               y == f[i + 1]
    <2>5. Crewed(x, p) /\ q \in Players /\ y = Departed(x, q)
        BY <2>2, <2>3
    <2> HIDE DEF x, q, y
    <2>6. /\ Crewed(y, p) /\ Settles(x, y)
          /\ DOMAIN y.sess.absent = DOMAIN x.sess.absent \union {q}
          /\ OpenLinks(y) = OpenLinks(x) \ {q}
        BY <2>5, DepartedIs
    <2>7. Settles(m, y)
        BY <2>2, <2>6 DEF Settles, x
    <2>8. /\ DOMAIN x.sess.absent = DOMAIN m.sess.absent \union Left(i)
          /\ OpenLinks(x) = OpenLinks(m) \ Left(i)
        BY <2>2 DEF x
    <2> HIDE DEF Left
    <2>9. /\ DOMAIN y.sess.absent = DOMAIN m.sess.absent \union Left(i + 1)
          /\ OpenLinks(y) = OpenLinks(m) \ Left(i + 1)
        BY <2>4, <2>6, <2>8 DEF q
    <2> QED
        BY <2>1, <2>6, <2>7, <2>9 DEF y
<1> HIDE DEF P
<1>5. 0 .. last \subseteq P
    <2> HIDE DEF last
    <2>1. last \in Nat
        BY DEF last
    <2> QED
        BY <1>3, <1>4, <2>1, StepByStep
<1>6. Good(last)
    BY <1>5 DEF P
<1> QED
    BY <1>1, <1>6

-----------------------------------------------------------------------------
(* Those a guest is told of.                                               *)
IsNotice(n) ==
    /\ n.slot \in Guests
    /\ n.from \in Nat \ {0} /\ n.first \in Nat \ {0} /\ n.first <= n.from
    /\ DOMAIN n.values = n.first .. n.from - 1
    /\ \A t \in DOMAIN n.values : n.values[t] \in Input

(* The two ways to feed a session the inputs of a notice are one.          *)
LEMMA NoticedIs ==
    ASSUME NEW m, NEW p, Crewed(m, p), NEW notice, IsNotice(notice)
    PROVE  LET n == Noticed(m, notice)
           IN  /\ Crewed(n, p)
               /\ n.mine = m.mine /\ n.settled = m.settled /\ n.claimed = m.claimed
               /\ DOMAIN n.sess.absent = DOMAIN m.sess.absent \union {notice.slot}
               /\ OpenLinks(n) = OpenLinks(m)
<1> DEFINE s == m.sess
           d == [player |-> notice.slot, first |-> notice.first, values |-> notice.values]
           b == notice.from - 1
           q == notice.slot
           from == notice.from
           F(f) == f = [t \in notice.first - 1 .. notice.from - 1 |->
                          IF t = notice.first - 1 THEN m.sess
                          ELSE Bind(f[t - 1], LAMBDA x : SubmitTo(x, notice.slot, t, notice.values[t]))]
           passed == CHOOSE f : F(f)
           n == Noticed(m, notice)
<1>1. /\ q \in Players /\ from \in Nat \ {0} /\ b \in Nat
      /\ d.first \in Nat \ {0} /\ d.first - 1 <= b
      /\ \A t \in d.first .. b : d.values[t] \in Input
    BY DEF IsNotice, Guests
<1>2. Fit(s) /\ DOMAIN m = MachineFields
    BY CrewedNumbers
<1>3. \A x, t : (CHOOSE y \in {SubmitTo(z, notice.slot, t, notice.values[t]) : z \in {x}} : TRUE)
                  = SubmitTo(x, notice.slot, t, notice.values[t])
    OBVIOUS
<1>4. \A f : F(f) <=> Feeding(f, s, d, b)
    BY <1>3 DEF Feeding, Bind
<1>5. n = [m EXCEPT !.sess = SetAbsentOn(passed[b], q, from)]
    BY DEF Noticed, Bind
<1> HIDE DEF F, n, s, d, b, q, from
<1>6. \E f : Feeding(f, s, d, b)
    BY <1>1, FeedingExists
<1>7. F(passed)
    BY <1>4, <1>6
<1>8. Feeding(passed, s, d, b)
    BY <1>4, <1>7
<1> HIDE DEF passed
<1> DEFINE x == passed[b]
           r == SetAbsentOn(x, q, from)
<1>9. Fit(x) /\ x.next = s.next /\ x.absent = s.absent
    BY <1>1, <1>2, <1>8, FedFit
<1> HIDE DEF x
<1>10. Fit(r) /\ r.next = x.next /\ r.absent = Put(x.absent, q, from)
    BY <1>1, <1>9, SetAbsentFit
<1>11. n = [m EXCEPT !.sess = r]
    BY <1>5 DEF x
<1> HIDE DEF r
<1>12. /\ DOMAIN n = MachineFields /\ n.sess = r /\ n.theirLead = m.theirLead
       /\ n.mine = m.mine /\ n.settled = m.settled /\ n.claimed = m.claimed /\ n.desync = m.desync
    BY <1>2, <1>11 DEF MachineFields
<1>13. OpenLinks(n) = OpenLinks(m)
    BY <1>12 DEF OpenLinks
<1>14. n.sess.next = m.sess.next
    BY <1>9, <1>10, <1>12 DEF s
<1>15. Crewed(n, p)
    BY <1>10, <1>12, <1>13, <1>14 DEF Crewed, Able
<1>16. DOMAIN n.sess.absent = DOMAIN m.sess.absent \union {notice.slot}
    BY <1>9, <1>10, <1>12 DEF Put, s, q
<1> QED
    BY <1>12, <1>13, <1>15, <1>16 DEF n

Noticing(f, m, a, n) ==
    f = [i \in a .. n |-> IF i = a THEN m ELSE Noticed(f[i - 1], notices[i])]

LEMMA NoticingExists ==
    ASSUME NEW m, NEW a \in Nat, NEW n \in Nat, a <= n
    PROVE  \E f : Noticing(f, m, a, n)
<1> DEFINE Next1(f, i) == IF i = a THEN m ELSE Noticed(f[i - 1], notices[i])
           P == {k \in 0 .. n - a : \E f : Noticing(f, m, a, a + k)}
<1>1. 0 \in P
    <2> DEFINE f == [i \in a .. a + 0 |-> m]
    <2>1. f = [i \in a .. a + 0 |-> Next1(f, i)]
        OBVIOUS
    <2>2. Noticing(f, m, a, a + 0)
        BY <2>1 DEF Noticing
    <2>3. 0 \in 0 .. n - a
        OBVIOUS
    <2> HIDE DEF f
    <2> QED
        BY <2>2, <2>3
<1>2. ASSUME NEW k \in 0 .. n - a - 1, k \in P
      PROVE  k + 1 \in P
    <2>1. PICK g : Noticing(g, m, a, a + k)
        BY <1>2
    <2> DEFINE b == a + k
               last == Noticed(g[b], notices[b + 1])
               f == [i \in a .. b + 1 |-> IF i = b + 1 THEN last ELSE g[i]]
    <2>2. \A i \in a .. b : g[i] = Next1(g, i)
        BY <2>1 DEF Noticing
    <2>3. b \in Nat /\ a <= b
        OBVIOUS
    <2>4. f[b + 1] = last /\ f[b + 1 - 1] = g[b] /\ b + 1 # a
        OBVIOUS
    <2>5. ASSUME NEW i \in a .. b
          PROVE  f[i] = Next1(f, i)
        <3>1. f[i] = g[i] /\ (i # a => f[i - 1] = g[i - 1])
            OBVIOUS
        <3> HIDE DEF f, b
        <3> QED
            BY <2>2, <3>1
    <2>6. \A i \in a .. b + 1 : i = b + 1 \/ i \in a .. b
        OBVIOUS
    <2>7. f = [i \in a .. b + 1 |-> f[i]]
        OBVIOUS
    <2>8. k + 1 \in 0 .. n - a /\ a + (k + 1) = b + 1
        OBVIOUS
    <2> HIDE DEF f, b
    <2>11. f[b + 1] = Next1(f, b + 1)
        <3>1. Next1(f, b + 1) = Noticed(f[b + 1 - 1], notices[b + 1])
            BY <2>3, <2>4
        <3>2. f[b + 1] = Noticed(g[b], notices[b + 1]) /\ f[b + 1 - 1] = g[b]
            BY <2>4, Zenon
        <3> HIDE DEF Next1
        <3> QED
            BY <3>1, <3>2, Zenon
    <2>9. \A i \in a .. b + 1 : f[i] = Next1(f, i)
        <3> HIDE DEF Next1
        <3> QED
            BY <2>5, <2>6, <2>11
    <2>10. Noticing(f, m, a, b + 1)
        BY <2>7, <2>9 DEF Noticing
    <2> QED
        BY <2>8, <2>10
<1> HIDE DEF P
<1> DEFINE c == n - a
<1>3. c \in Nat /\ a + c = n
    OBVIOUS
<1>4. 0 \in P /\ \A k \in 0 .. c - 1 : k \in P => k + 1 \in P
    BY <1>1, <1>2
<1> HIDE DEF c
<1>5. 0 .. c \subseteq P
    BY <1>3, <1>4, StepByStep
<1>6. c \in P
    BY <1>3, <1>5
<1> QED
    BY <1>3, <1>6 DEF P

LEMMA NoticedPass ==
    ASSUME NEW m, NEW a \in Nat, NEW n \in Nat, a <= n
    PROVE  \E f : Noticing(f, m, a, n) /\ AllNoticed(m, a, n) = f[n]
<1> DEFINE F(f) == f = [i \in a .. n |->
                          IF i = a THEN m ELSE Bind(f[i - 1], LAMBDA x : Noticed(x, notices[i]))]
           after == CHOOSE f : F(f)
<1>1. \A x, i : (CHOOSE y \in {Noticed(z, notices[i]) : z \in {x}} : TRUE) = Noticed(x, notices[i])
    OBVIOUS
<1>2. \A f : F(f) <=> Noticing(f, m, a, n)
    BY <1>1 DEF Noticing, Bind
<1>3. AllNoticed(m, a, n) = after[n]
    BY DEF AllNoticed, Bind
<1> HIDE DEF F
<1>4. \E f : Noticing(f, m, a, n)
    BY NoticingExists
<1>5. F(after)
    BY <1>2, <1>4
<1> HIDE DEF after
<1> QED
    BY <1>2, <1>3, <1>5

Slots(n) == {notices[i].slot : i \in 1 .. n}

LEMMA AllNoticedIs ==
    ASSUME NEW m, NEW p, Crewed(m, p), NEW a \in Nat, NEW n \in Nat, a <= n,
           \A i \in 1 .. n : IsNotice(notices[i]), DOMAIN m.sess.absent = Slots(a)
    PROVE  LET x == AllNoticed(m, a, n)
           IN  /\ Crewed(x, p)
               /\ x.mine = m.mine /\ x.settled = m.settled /\ x.claimed = m.claimed
               /\ DOMAIN x.sess.absent = Slots(n)
               /\ OpenLinks(x) = OpenLinks(m)
<1>1. PICK f : Noticing(f, m, a, n) /\ AllNoticed(m, a, n) = f[n]
    BY NoticedPass
<1> DEFINE Good(i) == /\ Crewed(f[i], p)
                      /\ f[i].mine = m.mine /\ f[i].settled = m.settled /\ f[i].claimed = m.claimed
                      /\ DOMAIN f[i].sess.absent = Slots(i)
                      /\ OpenLinks(f[i]) = OpenLinks(m)
           P == {k \in 0 .. n - a : Good(a + k)}
           c == n - a
<1>2. \A i \in a .. n : f[i] = IF i = a THEN m ELSE Noticed(f[i - 1], notices[i])
    BY <1>1 DEF Noticing
<1>3. 0 \in P
    <2>1. 0 \in 0 .. n - a /\ f[a] = m /\ a + 0 = a
        BY <1>2
    <2> QED
        BY <2>1
<1>4. ASSUME NEW k \in 0 .. c - 1, k \in P
      PROVE  k + 1 \in P
    <2> DEFINE i == a + k
    <2>1. /\ i + 1 \in a .. n /\ i + 1 # a /\ i + 1 - 1 = i /\ i + 1 \in 1 .. n
          /\ k + 1 \in 0 .. n - a /\ a + (k + 1) = i + 1 /\ i \in Nat
        OBVIOUS
    <2>2. Good(i)
        BY <1>4
    <2> HIDE DEF i
    <2>3. f[i + 1] = Noticed(f[i], notices[i + 1]) /\ IsNotice(notices[i + 1])
        BY <1>2, <2>1
    <2>4. Slots(i + 1) = Slots(i) \union {notices[i + 1].slot}
        <3>1. \A j \in 1 .. i + 1 : j \in 1 .. i \/ j = i + 1
            BY <2>1
        <3>2. \A j \in 1 .. i : j \in 1 .. i + 1
            BY <2>1
        <3>3. i + 1 \in 1 .. i + 1
            BY <2>1
        <3> QED
            BY <3>1, <3>2, <3>3 DEF Slots
    <2> DEFINE x == f[i]
               d == notices[i + 1]
               y == f[i + 1]
    <2>5. Crewed(x, p) /\ IsNotice(d) /\ y = Noticed(x, d)
        BY <2>2, <2>3
    <2> HIDE DEF x, d, y
    <2>6. /\ Crewed(y, p)
          /\ y.mine = x.mine /\ y.settled = x.settled /\ y.claimed = x.claimed
          /\ DOMAIN y.sess.absent = DOMAIN x.sess.absent \union {d.slot}
          /\ OpenLinks(y) = OpenLinks(x)
        BY <2>5, NoticedIs
    <2>7. Good(i + 1)
        BY <2>2, <2>4, <2>6 DEF x, y, d
    <2> QED
        BY <2>1, <2>7
<1> HIDE DEF P
<1>5. c \in Nat /\ a + c = n
    OBVIOUS
<1> HIDE DEF c
<1>6. 0 .. c \subseteq P
    BY <1>3, <1>4, <1>5, StepByStep
<1>7. c \in P
    BY <1>5, <1>6
<1> HIDE DEF Good
<1>8. Good(n)
    BY <1>5, <1>7 DEF P
<1> QED
    BY <1>1, <1>8 DEF Good

-----------------------------------------------------------------------------
(* The machines of a match, and what is between them.                      *)
Posted(p) ==
    /\ DOMAIN published[p] \subseteq 1 .. peer[p].settled
    /\ read[p] \in [Links(p) -> 0 .. MaxTick]
    /\ \A k \in peer[p].claimed : k[1] \in DOMAIN published[k[2]]

Crews ==
    /\ peer = [p \in Players |-> peer[p]]
    /\ published = [p \in Players |-> published[p]]
    /\ read = [p \in Players |-> read[p]]
    /\ \A p \in Players : Crewed(peer[p], p) /\ Posted(p)
    /\ IsFiniteSet(datagrams)
    /\ \A d \in datagrams : Truthful(d, Made)

LEMMA CrewsMake ==
    ASSUME Crews
    PROVE  /\ Making(Made)
           /\ \A p \in Players : /\ Made[p] = peer[p].mine
                                 /\ DOMAIN Made[p] = 1 .. peer[p].sess.next - 1
                                 /\ peer[p].sess.next \in Nat \ {0}
<1>1. \A p \in Players :
        /\ peer[p].sess.next \in Nat \ {0} /\ peer[p].sess.next <= MaxTick + 1
        /\ DOMAIN peer[p].mine = 1 .. peer[p].sess.next - 1
        /\ \A t \in DOMAIN peer[p].mine : peer[p].mine[t] \in Plays(p, t)
    <2> SUFFICES ASSUME NEW p \in Players
                 PROVE  /\ peer[p].sess.next \in Nat \ {0} /\ peer[p].sess.next <= MaxTick + 1
                        /\ DOMAIN peer[p].mine = 1 .. peer[p].sess.next - 1
                        /\ \A t \in DOMAIN peer[p].mine : peer[p].mine[t] \in Plays(p, t)
        OBVIOUS
    <2>1. Crewed(peer[p], p)
        BY DEF Crews
    <2> QED
        BY <2>1, CrewedNumbers DEF Crewed
<1> QED
    BY <1>1, MadeInTime

LEMMA CrewsRead ==
    ASSUME Crews, NEW p \in Players, NEW heard \in Arrivals(p)
    PROVE  /\ Len(heard) \in Nat
           /\ \A i \in 1 .. Len(heard) : Truthful(heard[i], Made)
           /\ IsFiniteSet((datagrams \ ToSet(heard)) \union Relayed(p, heard))
           /\ \A d \in (datagrams \ ToSet(heard)) \union Relayed(p, heard) : Truthful(d, Made)
<1>1. /\ Len(heard) \in Nat /\ (\A i \in 1 .. Len(heard) : heard[i] \in datagrams)
      /\ ToSet(heard) \subseteq datagrams
    BY InboxesAreFinite DEF Crews
<1>2. \A d \in datagrams : Truthful(d, Made)
    BY DEF Crews
<1>3. IsFiniteSet(ToSet(heard)) /\ IsFiniteSet(datagrams \ ToSet(heard))
    BY <1>1, FS_Subset DEF Crews
<1>4. OpenLinks(peer[p]) \subseteq Links(p)
    BY DEF Crews, Crewed
<1>5. IsFiniteSet(Relayed(p, heard)) /\ \A d \in Relayed(p, heard) : Truthful(d, Made)
    BY <1>1, <1>2, <1>3, <1>4, RelaysAreTruthful
<1>6. IsFiniteSet((datagrams \ ToSet(heard)) \union Relayed(p, heard))
    BY <1>3, <1>5, FS_Union
<1> QED
    BY <1>1, <1>2, <1>5, <1>6

(* One machine moves on to e, the others stay as they are.                 *)
LEMMA CrewsMove ==
    ASSUME Crews, NEW p \in Players, NEW upto \in Reads(p), NEW e, NEW entries,
           peer' = [peer EXCEPT ![p] = e], Crewed(e, p),
           e.claimed \subseteq peer[p].claimed \union Claim(p, upto),
           peer[p].settled <= e.settled,
           published' = [published EXCEPT ![p] = entries],
           DOMAIN published[p] \subseteq DOMAIN entries, DOMAIN entries \subseteq 1 .. e.settled,
           read' = [read EXCEPT ![p] = upto],
           Extends(Made, Made'),
           NEW sent, IsFiniteSet(sent), datagrams' \subseteq sent, \A d \in sent : Truthful(d, Made')
    PROVE  Crews'
<1>1. /\ peer = [q \in Players |-> peer[q]]
      /\ published = [q \in Players |-> published[q]]
      /\ read = [q \in Players |-> read[q]]
      /\ \A q \in Players : Crewed(peer[q], q) /\ Posted(q)
    BY DEF Crews
<1>2. /\ peer'[p] = e /\ \A q \in Players \ {p} : peer'[q] = peer[q]
      /\ published'[p] = entries /\ \A q \in Players \ {p} : published'[q] = published[q]
      /\ read'[p] = upto /\ \A q \in Players \ {p} : read'[q] = read[q]
    BY <1>1
<1>3. /\ peer' = [q \in Players |-> peer'[q]]
      /\ published' = [q \in Players |-> published'[q]]
      /\ read' = [q \in Players |-> read'[q]]
    BY <1>1
<1>4. \A q \in Players : DOMAIN published[q] \subseteq DOMAIN published'[q]
    BY <1>2
<1>5. \A q \in Players : Links(q) \subseteq Players
    BY DEF Links
<1>6. upto \in [Links(p) -> 0 .. MaxTick]
    BY DEF Reads
<1>7. ASSUME NEW q \in Players
      PROVE  Crewed(peer[q], q)' /\ Posted(q)'
    <2>1. \A k \in peer[q].claimed : k[2] \in Players /\ k[1] \in DOMAIN published[k[2]]
        BY <1>1, <1>5 DEF Crewed, Posted
    <2>2. CASE q = p
        <3>1. \A k \in Claim(p, upto) : k[2] \in Players /\ k[1] \in DOMAIN published[k[2]]
            BY <1>5 DEF Claim
        <3>2. \A k \in e.claimed : k[1] \in DOMAIN published'[k[2]]
            BY <1>4, <2>1, <2>2, <3>1
        <3>3. Posted(p)'
            BY <1>2, <1>6, <3>2 DEF Posted
        <3>4. Crewed(peer[p], p)'
            <4>1. \A m, r : Crewed(m, r) = Crewed(m, r)'
                BY DEF Crewed, Able, OpenLinks, Fit, NewestOf, Resting, Shaped, ChainedTo, PlayedTo, Due,
                       RowOf, IsSession, IsJournal, Links, Linked, Fields, MachineFields, RingTicks, NoTick
            <4> QED
                BY <1>2, <4>1
        <3> QED
            BY <2>2, <3>3, <3>4
    <2>3. CASE q # p
        <3>1. peer'[q] = peer[q] /\ published'[q] = published[q] /\ read'[q] = read[q]
            BY <1>2, <2>3
        <3>2. \A k \in peer[q].claimed : k[1] \in DOMAIN published'[k[2]]
            BY <1>4, <2>1
        <3>3. Posted(q)'
            BY <1>1, <3>1, <3>2 DEF Posted
        <3>4. Crewed(peer[q], q)'
            BY <1>1, <3>1
        <3> QED
            BY <3>3, <3>4
    <2> QED
        BY <2>2, <2>3
<1>8. IsFiniteSet(datagrams') /\ \A d \in datagrams' : Truthful(d, Made')
    BY FS_Subset
<1> QED
    BY <1>3, <1>7, <1>8 DEF Crews

-----------------------------------------------------------------------------
(* A frame, given the machine it leaves behind.                            *)
Ticked(p, heard, upto, v, e) ==
    /\ peer[p].sess.next <= MaxTick
    /\ ~ShouldWait(p)
    /\ peer' = [peer EXCEPT ![p] = e]
    /\ published' = [published EXCEPT ![p] = Joined(@, ToPublish(Moved(p, heard, upto, v)))]
    /\ datagrams' = Carried((datagrams \ ToSet(heard)) \union Relayed(p, heard)
                                \union Sent(p, Pressed(p, Hear(p, heard, upto), v)))
    /\ read' = [read EXCEPT ![p] = upto]
    /\ lost' = lost

Polled(p, heard, upto, e) ==
    /\ peer' = [peer EXCEPT ![p] = e]
    /\ published' = published
    /\ datagrams' = Carried((datagrams \ ToSet(heard)) \union Relayed(p, heard))
    /\ read' = [read EXCEPT ![p] = upto]
    /\ lost' = lost

LEMMA MadeNow ==
    ASSUME NEW p \in Players, peer = [q \in Players |-> peer[q]],
           NEW e, peer' = [peer EXCEPT ![p] = e]
    PROVE  /\ Made'[p] = e.mine
           /\ Made' = [Made EXCEPT ![p] = e.mine]
<1>1. peer'[p] = e /\ \A q \in Players \ {p} : peer'[q] = peer[q]
    OBVIOUS
<1>2. Made' = [q \in Players |-> peer'[q].mine] /\ Made = [q \in Players |-> peer[q].mine]
    BY DEF Made
<1>3. \A q \in Players : peer'[q].mine = IF q = p THEN e.mine ELSE Made[q]
    BY <1>1, <1>2
<1>4. [Made EXCEPT ![p] = e.mine] = [q \in Players |-> IF q = p THEN e.mine ELSE Made[q]]
    BY <1>2
<1> QED
    BY <1>2, <1>3, <1>4

LEMMA CrewsTick ==
    ASSUME Crews, NEW p \in Players, NEW heard \in Arrivals(p), NEW upto \in Reads(p),
           NEW v \in Plays(p, peer[p].sess.next), NEW e, Ticked(p, heard, upto, v, e),
           Crewed(e, p),
           LET x == Exchanged(Moved(p, heard, upto, v))
           IN  e.mine = x.mine /\ e.claimed = x.claimed /\ e.settled = x.settled
    PROVE  /\ Crews' /\ Extends(Made, Made')
           /\ peer[p].sess.next \in DOMAIN Made'[p] /\ Made'[p][peer[p].sess.next] = v
<1> DEFINE m == peer[p]
           t == m.sess.next
           ran == Moved(p, heard, upto, v)
           x == Exchanged(ran)
           y == Pressed(p, Hear(p, heard, upto), v)
           later == MadeWith(p, v)
           kept == (datagrams \ ToSet(heard)) \union Relayed(p, heard)
           entries == Joined(published[p], ToPublish(ran))
<1>1. /\ Len(heard) \in Nat /\ (\A i \in 1 .. Len(heard) : Truthful(heard[i], Made))
      /\ IsFiniteSet(kept) /\ \A d \in kept : Truthful(d, Made)
    BY CrewsRead
<1>2. /\ Making(Made) /\ Made[p] = m.mine /\ DOMAIN Made[p] = 1 .. t - 1 /\ t \in Nat \ {0}
    BY CrewsMake
<1>3. /\ t <= MaxTick
      /\ peer' = [peer EXCEPT ![p] = e]
      /\ published' = [published EXCEPT ![p] = entries]
      /\ datagrams' = Carried(kept \union Sent(p, y))
      /\ read' = [read EXCEPT ![p] = upto]
    BY DEF Ticked
<1>4. e.mine = x.mine /\ e.claimed = x.claimed /\ e.settled = x.settled
    OBVIOUS
<1>5. Crewed(m, p) /\ Posted(p)
    BY DEF Crews
<1>6. /\ x.mine = Put(m.mine, t, v)
      /\ y.mine = x.mine /\ OpenLinks(y) \subseteq Links(p)
      /\ y.sess.next = t /\ Lead(p, y.sess) \in Int
      /\ x.claimed \subseteq m.claimed \union Claim(p, upto)
      /\ m.settled <= x.settled
      /\ DOMAIN ToPublish(ran) \subseteq 1 .. x.settled
    BY <1>1, <1>2, <1>3, <1>5, TickCrewed
<1>7. /\ Making(later) /\ Extends(Made, later)
      /\ t \in DOMAIN later[p] /\ later[p][t] = v
      /\ later[p] = Put(m.mine, t, v) /\ DOMAIN later[p] = 1 .. t
    BY <1>2, <1>3, OneMoreIsMade
<1> HIDE DEF m, t, x, y, kept, entries, ran
<1>8. Made' = later
    <2>1. Made' = [Made EXCEPT ![p] = e.mine]
        BY <1>3, MadeNow DEF Crews
    <2>2. e.mine = Put(Made[p], t, v)
        BY <1>2, <1>4, <1>6
    <2> QED
        BY <2>1, <2>2, Zenon DEF MadeWith, t, m
<1> HIDE DEF later
<1>9. IsFiniteSet(Sent(p, y)) /\ \A d \in Sent(p, y) : Truthful(d, later)
    BY <1>2, <1>6, <1>7, PacketsAreTruthful
<1> DEFINE sent == kept \union Sent(p, y)
<1>10. IsFiniteSet(sent)
    BY <1>1, <1>9, FS_Union
<1>11. \A d \in sent : Truthful(d, Made')
    BY <1>1, <1>7, <1>8, <1>9, TruthfulLater
<1>12. datagrams' \subseteq sent
    BY <1>3 DEF Carried
<1> HIDE DEF sent
<1>13. DOMAIN entries = DOMAIN published[p] \union DOMAIN ToPublish(ran)
    BY DEF Joined, entries
<1>14. DOMAIN entries \subseteq 1 .. e.settled
    <2>1. DOMAIN published[p] \subseteq 1 .. m.settled /\ m.settled \in Nat
        BY <1>5 DEF Posted, Crewed, m
    <2>2. e.settled \in Nat /\ m.settled <= e.settled
        BY <1>4, <1>6 DEF Crewed
    <2> QED
        BY <1>4, <1>6, <1>13, <2>1, <2>2
<1>15. Crews'
    <2>1. peer[p].settled <= e.settled /\ e.claimed \subseteq peer[p].claimed \union Claim(p, upto)
        BY <1>4, <1>6 DEF m
    <2>2. Extends(Made, Made') /\ DOMAIN published[p] \subseteq DOMAIN entries
        BY <1>7, <1>8, <1>13
    <2> QED
        BY <1>3, <1>10, <1>11, <1>12, <1>14, <2>1, <2>2, CrewsMove
<1> QED
    BY <1>7, <1>8, <1>15 DEF t, m

LEMMA CrewsPoll ==
    ASSUME Crews, NEW p \in Players, NEW heard \in Arrivals(p), NEW upto \in Reads(p),
           NEW e, Polled(p, heard, upto, e), Crewed(e, p),
           LET x == Hear(p, heard, upto)
           IN  e.mine = x.mine /\ e.claimed = x.claimed /\ e.settled = x.settled
    PROVE  Crews' /\ Made' = Made
<1> DEFINE m == peer[p]
           x == Hear(p, heard, upto)
           kept == (datagrams \ ToSet(heard)) \union Relayed(p, heard)
<1>1. /\ Len(heard) \in Nat /\ (\A i \in 1 .. Len(heard) : Truthful(heard[i], Made))
      /\ IsFiniteSet(kept) /\ \A d \in kept : Truthful(d, Made)
    BY CrewsRead
<1>2. Making(Made) /\ Made[p] = m.mine
    BY CrewsMake
<1>3. /\ peer' = [peer EXCEPT ![p] = e]
      /\ published' = published
      /\ datagrams' = Carried(kept)
      /\ read' = [read EXCEPT ![p] = upto]
    BY DEF Polled
<1>4. e.mine = x.mine /\ e.claimed = x.claimed /\ e.settled = x.settled
    OBVIOUS
<1>5. Crewed(m, p) /\ Posted(p)
    BY DEF Crews
<1>6. Untouched(m, x) /\ x.claimed = m.claimed \union Claim(p, upto)
    BY <1>1, <1>2, <1>5, HearCrewed
<1> HIDE DEF m, x, kept
<1>7. e.mine = Made[p] /\ e.settled = m.settled /\ m.settled \in Nat
    BY <1>2, <1>4, <1>5, <1>6 DEF Untouched, Crewed
<1>8. Made' = Made
    <2>1. Made' = [Made EXCEPT ![p] = e.mine]
        BY <1>3, MadeNow DEF Crews
    <2>2. Made = [q \in Players |-> Made[q]]
        BY DEF Made
    <2> QED
        BY <1>7, <2>1, <2>2, Zenon
<1>9. Extends(Made, Made')
    BY <1>8 DEF Extends
<1>10. datagrams' \subseteq kept /\ \A d \in kept : Truthful(d, Made')
    BY <1>1, <1>3, <1>8 DEF Carried
<1> DEFINE entries == published[p]
<1>11. published' = [published EXCEPT ![p] = entries] /\ DOMAIN entries \subseteq 1 .. e.settled
    <2>1. published = [q \in Players |-> published[q]]
        BY DEF Crews
    <2>2. published' = [published EXCEPT ![p] = entries]
        BY <1>3, <2>1, Zenon
    <2> QED
        BY <1>5, <1>7, <2>2 DEF Posted, m
<1>12. DOMAIN published[p] \subseteq DOMAIN entries
    OBVIOUS
<1> HIDE DEF entries
<1>13. peer[p].settled <= e.settled /\ e.claimed \subseteq peer[p].claimed \union Claim(p, upto)
    BY <1>4, <1>6, <1>7 DEF m
<1>14. Crews'
    BY <1>1, <1>3, <1>9, <1>10, <1>11, <1>12, <1>13, CrewsMove
<1> QED
    BY <1>8, <1>14

LEMMA CrewsLose ==
    ASSUME Crews, NEW d \in datagrams, Lose(d)
    PROVE  Crews' /\ Made' = Made
<1>1. /\ datagrams' \subseteq datagrams
      /\ peer' = peer /\ published' = published /\ read' = read
    BY DEF Lose
<1>2. Made' = Made
    BY <1>1 DEF Made
<1>3. IsFiniteSet(datagrams')
    BY <1>1, FS_Subset DEF Crews
<1>4. \A p \in Players : Crewed(peer[p], p)' /\ Posted(p)'
    BY <1>1 DEF Crews, Posted
<1> QED
    BY <1>1, <1>2, <1>3, <1>4 DEF Crews

LEMMA CrewsBegin == ASSUME Init PROVE Crews /\ Honest(peer[Host].sess, Made)
<1>1. NetInv
    BY NetInvBegins
<1>2. \A p \in Players : peer[p] = NewPeer(p)
    BY DEF Init
<1>3. ASSUME NEW p \in Players
      PROVE  Crewed(peer[p], p) /\ Posted(p)
    <2> DEFINE m == peer[p]
               s == m.sess
    <2>1. /\ DOMAIN m = MachineFields
          /\ s.next <= MaxTick + 1
          /\ DOMAIN m.mine = 1 .. s.next - 1
          /\ \A t \in DOMAIN m.mine : m.mine[t] \in Plays(p, t)
          /\ m.theirLead \in [Links(p) -> Int]
          /\ Sound(s, Made)
          /\ m.claimed \subseteq (1 .. MaxTick) \X Links(p)
          /\ m.desync \in Nat \union {NoTick}
        BY <1>1 DEF NetInv, Machine
    <2>2. m.settled = 0 /\ m.claimed = {}
        <3>1. m = NewPeer(p)
            BY <1>2
        <3> HIDE DEF m
        <3> QED
            BY <3>1 DEF NewPeer
    <2> HIDE DEF m
    <2>3. \A q \in Players : NewestOf(s, q) \in Nat
        BY <1>1, <2>1, MadeIsMaking, SoundNumbers
    <2>4. s.next \in Nat \ {0}
        BY <1>1, <2>1, MadeIsMaking, SoundNumbers
    <2>5. Fit(s)
        BY <2>1, <2>3 DEF Fit, Sound
    <2>6. OpenLinks(m) = Links(p)
        BY <2>1 DEF OpenLinks
    <2>7. Crewed(m, p)
        BY <2>1, <2>2, <2>4, <2>5, <2>6 DEF Crewed, Able
    <2>8. /\ published[p] = NoEntries
          /\ read[p] = [q \in Links(p) |-> 0]
        BY DEF Init
    <2>9. DOMAIN published[p] \subseteq 1 .. m.settled
        BY <2>8 DEF NoEntries
    <2>10. read[p] \in [Links(p) -> 0 .. MaxTick]
        BY <2>8, BoundAssumption
    <2> QED
        BY <2>2, <2>7, <2>9, <2>10 DEF Posted, m
<1>4. Honest(peer[Host].sess, Made)
    BY <1>1, HostAssumption DEF NetInv, Machine, Sound, Honest
<1> QED
    BY <1>1, <1>3, <1>4 DEF Crews, NetInv

-----------------------------------------------------------------------------
(* What the host tells of those it gave up on.                             *)

(* A notice holds what its leaver made, or Nil for what the host lacks.    *)
NoticeTrue(n, made) ==
    \A t \in DOMAIN n.values :
        n.values[t] = Nil \/ (t \in DOMAIN made[n.slot] /\ n.values[t] = made[n.slot][t])

LEMMA NoticeOfIs ==
    ASSUME NEW s, Fit(s), NEW q \in Guests, q \in DOMAIN s.absent, NEW made, Honest(s, made)
    PROVE  LET n == NoticeOf(s, q)
           IN  IsNotice(n) /\ n.slot = q /\ NoticeTrue(n, made)
<1> DEFINE from == s.absent[q]
           first == IF from > LastInputs THEN Max({from - LastInputs, 1}) ELSE 1
           values == [t \in first .. from - 1 |->
                        IF t \in DOMAIN s.arrived[q] THEN s.arrived[q][t] ELSE Nil]
           n == NoticeOf(s, q)
<1>1. from \in Nat \ {0} /\ q \in Players
    BY DEF Fit, Guests
<1>2. n = [slot |-> q, from |-> from, first |-> first, values |-> values]
    BY DEF NoticeOf
<1> HIDE DEF from
<1>3. first \in Nat \ {0} /\ first <= from
    <2>1. CASE from > LastInputs
        <3> DEFINE S == {from - LastInputs, 1}
        <3>1. from - LastInputs \in Nat \ {0} /\ from - LastInputs <= from
            BY <1>1, <2>1, LastAssumption
        <3>2. S \in SUBSET Nat /\ S # {} /\ \A x \in S : x <= from
            BY <1>1, <3>1
        <3>3. Max(S) \in S
            BY <1>1, <3>2, MaxOfBoundedNats
        <3> QED
            BY <1>1, <2>1, <3>1, <3>3
    <2>2. CASE ~(from > LastInputs)
        BY <1>1, <2>2
    <2> QED
        BY <2>1, <2>2
<1> HIDE DEF first
<1>4. \A t \in DOMAIN s.arrived[q] : s.arrived[q][t] \in Input
    BY <1>1, FitNumbers DEF IsSession, IsJournal
<1>5. DOMAIN values = first .. from - 1 /\ \A t \in DOMAIN values : values[t] \in Input
    BY <1>4, NilAssumption
<1>6. \A t \in DOMAIN values :
        values[t] = Nil \/ (t \in DOMAIN made[q] /\ values[t] = made[q][t])
    BY <1>1 DEF Honest
<1> HIDE DEF n, values
<1> QED
    BY <1>1, <1>2, <1>3, <1>5, <1>6 DEF IsNotice, NoticeTrue, n

LEMMA ConcatIs ==
    ASSUME NEW a \in Nat, NEW s, s = [i \in 1 .. a |-> s[i]],
           NEW b \in Nat, NEW r, r = [i \in 1 .. b |-> r[i]]
    PROVE  s \o r = [i \in 1 .. a + b |-> IF i <= a THEN s[i] ELSE r[i - a]]
           /\ Len(s \o r) = a + b
<1> DEFINE S == {s[i] : i \in 1 .. a} \union {r[i] : i \in 1 .. b}
<1>1. s \in [1 .. a -> S] /\ r \in [1 .. b -> S]
    OBVIOUS
<1> HIDE DEF S
<1>2. s \in Seq(S) /\ r \in Seq(S) /\ Len(s) = a /\ Len(r) = b
    BY <1>1
<1>3. s \o r \in Seq(S) /\ Len(s \o r) = a + b
    BY <1>2
<1>4. \A i \in 1 .. a + b : (s \o r)[i] = IF i <= a THEN s[i] ELSE r[i - a]
    BY <1>2
<1>5. s \o r = [i \in 1 .. Len(s \o r) |-> (s \o r)[i]]
    BY <1>3
<1> QED
    BY <1>3, <1>4, <1>5

LEMMA LeaversAre ==
    ASSUME OpenLinks(peer[Host]) \subseteq Links(Host), NEW gone \in Leavers
    PROVE  /\ Len(gone) \in Nat /\ DOMAIN gone = 1 .. Len(gone)
           /\ \A i \in 1 .. Len(gone) : gone[i] \in OpenLinks(peer[Host]) /\ gone[i] \in Guests
           /\ \A i, j \in 1 .. Len(gone) : gone[i] = gone[j] => i = j
<1>1. PICK S \in SUBSET OpenLinks(peer[Host]) : gone \in SetToSeqs(S)
    BY DEF Leavers, SetToAllKPermutations
<1>2. IsFiniteSet(S)
    BY <1>1, LinksAreFinite, FS_Subset
<1>3. Cardinality(S) \in Nat
    BY <1>2, FS_CardinalityType
<1>4. /\ gone \in [1 .. Cardinality(S) -> S]
      /\ \A i, j \in 1 .. Cardinality(S) : i # j => gone[i] # gone[j]
    BY <1>1 DEF SetToSeqs
<1>5. Len(gone) = Cardinality(S) /\ DOMAIN gone = 1 .. Len(gone)
    BY <1>3, <1>4
<1>6. Links(Host) \subseteq Guests
    BY DEF Links, Linked, Guests
<1> QED
    BY <1>1, <1>3, <1>4, <1>5, <1>6

LEMMA HostFrameIs ==
    ASSUME NEW heard, NEW upto, NEW gone, HostFrame(heard, upto, gone)
    PROVE  /\ told' = told
           /\ notices' = notices \o [i \in DOMAIN gone |-> NoticeOf(peer'[Host].sess, gone[i])]
           /\ \/ \E v \in Plays(Host, peer[Host].sess.next) :
                    Ticked(Host, heard, upto, v,
                           AllDeparted(Exchanged(Moved(Host, heard, upto, v)), gone))
              \/ Polled(Host, heard, upto, AllDeparted(Hear(Host, heard, upto), gone))
BY DEF HostFrame, AdvanceThen, PollThen, Ticked, Polled, Moved

LEMMA GuestFrameIs ==
    ASSUME NEW p, NEW heard, NEW upto, NEW known, GuestFrame(p, heard, upto, known)
    PROVE  /\ told' = [told EXCEPT ![p] = known] /\ notices' = notices
           /\ \/ \E v \in Plays(p, peer[p].sess.next) :
                    Ticked(p, heard, upto, v,
                           AllNoticed(Exchanged(Moved(p, heard, upto, v)), told[p], known))
              \/ Polled(p, heard, upto, AllNoticed(Hear(p, heard, upto), told[p], known))
BY DEF GuestFrame, AdvanceThen, PollThen, Ticked, Polled, Moved

-----------------------------------------------------------------------------
(* The invariant of a match: its machines, and what each knows of those    *)
(* who left it.                                                            *)
Recorded ==
    /\ Len(notices) \in Nat
    /\ notices = [i \in 1 .. Len(notices) |-> notices[i]]
    /\ \A i \in 1 .. Len(notices) : IsNotice(notices[i]) /\ NoticeTrue(notices[i], Made)
    /\ \A i, j \in 1 .. Len(notices) : notices[i].slot = notices[j].slot => i = j

Aware ==
    /\ told \in [Guests -> Nat]
    /\ \A p \in Guests : /\ told[p] <= Len(notices)
                         /\ DOMAIN peer[p].sess.absent = Slots(told[p])
    /\ DOMAIN peer[Host].sess.absent = Slots(Len(notices))
    /\ OpenLinks(peer[Host]) \intersect Slots(Len(notices)) = {}

MatchInv ==
    /\ Crews
    /\ Honest(peer[Host].sess, Made)
    /\ Recorded
    /\ Aware
    /\ lost \in 0 .. MaxLost

LEMMA NoticeTrueLater ==
    ASSUME NEW n, IsNotice(n), NEW made, NEW later, NoticeTrue(n, made), Extends(made, later)
    PROVE  NoticeTrue(n, later)
BY DEF NoticeTrue, Extends, IsNotice, Guests

LEMMA HonestLater ==
    ASSUME NEW s, NEW made, NEW later, Honest(s, made), Extends(made, later)
    PROVE  Honest(s, later)
BY DEF Honest, Extends

(* Where the host ends its frame.                                          *)
LEMMA HostSettles ==
    ASSUME MatchInv, NEW heard \in Arrivals(Host), NEW upto \in Reads(Host), NEW gone \in Leavers,
           HostFrame(heard, upto, gone)
    PROVE  LET e == peer'[Host]
               left == {gone[i] : i \in 1 .. Len(gone)}
           IN  /\ Crews' /\ Extends(Made, Made')
               /\ Crewed(e, Host) /\ Honest(e.sess, Made')
               /\ DOMAIN e.sess.absent = DOMAIN peer[Host].sess.absent \union left
               /\ OpenLinks(e) = OpenLinks(peer[Host]) \ left
               /\ \A p \in Guests : peer'[p] = peer[p]
               /\ lost' = lost
<1> DEFINE p == Host
           m == peer[p]
           e == peer'[p]
           left == {gone[i] : i \in 1 .. Len(gone)}
<1>1. /\ Crews /\ Crewed(m, p) /\ p \in Players /\ Honest(m.sess, Made)
      /\ peer = [q \in Players |-> peer[q]]
    BY HostAssumption DEF MatchInv, Crews
<1>2. Making(Made) /\ Made[p] = m.mine
    BY <1>1, CrewsMake
<1>3. Len(heard) \in Nat /\ \A i \in 1 .. Len(heard) : Truthful(heard[i], Made)
    BY <1>1, CrewsRead
<1>4. Len(gone) \in Nat /\ \A i \in 1 .. Len(gone) : gone[i] \in Players
    BY <1>1, LeaversAre DEF Crewed, Guests
<1>5. Guests = Players \ {p}
    BY DEF Guests
<1>6. ASSUME NEW v \in Plays(p, m.sess.next),
             Ticked(p, heard, upto, v, AllDeparted(Exchanged(Moved(p, heard, upto, v)), gone))
      PROVE  /\ Crews' /\ Extends(Made, Made')
             /\ Crewed(e, p) /\ Honest(e.sess, Made')
             /\ DOMAIN e.sess.absent = DOMAIN m.sess.absent \union left
             /\ OpenLinks(e) = OpenLinks(m) \ left
             /\ \A q \in Guests : peer'[q] = peer[q]
             /\ lost' = lost
    <2> DEFINE x == Exchanged(Moved(p, heard, upto, v))
               n == AllDeparted(x, gone)
    <2>1. /\ m.sess.next <= MaxTick /\ peer' = [peer EXCEPT ![p] = n] /\ lost' = lost
        BY <1>6 DEF Ticked
    <2>2. /\ Crewed(x, p) /\ x.sess.absent = m.sess.absent /\ OpenLinks(x) = OpenLinks(m)
          /\ \A later : /\ Honest(m.sess, Made) /\ Extends(Made, later)
                        /\ m.sess.next \in DOMAIN later[p] /\ v = later[p][m.sess.next]
                        => Honest(x.sess, later)
        BY <1>1, <1>2, <1>3, <2>1, TickCrewed
    <2> HIDE DEF x, m
    <2>3. /\ Crewed(n, p) /\ Settles(x, n)
          /\ DOMAIN n.sess.absent = DOMAIN x.sess.absent \union left
          /\ OpenLinks(n) = OpenLinks(x) \ left
        BY <1>4, <2>2, AllDepartedIs
    <2>4. n.mine = x.mine /\ n.claimed = x.claimed /\ n.settled = x.settled
        BY <2>3 DEF Settles
    <2>5. Ticked(p, heard, upto, v, n)
        BY <1>6 DEF x
    <2> HIDE DEF n, left
    <2>6. /\ Crews' /\ Extends(Made, Made')
          /\ m.sess.next \in DOMAIN Made'[p] /\ Made'[p][m.sess.next] = v
        BY <1>1, <2>3, <2>4, <2>5, CrewsTick DEF x, m
    <2>7. Honest(x.sess, Made')
        BY <1>1, <2>2, <2>6
    <2>8. Honest(n.sess, Made')
        BY <2>3, <2>7 DEF Settles
    <2>9. e = n /\ \A q \in Guests : peer'[q] = peer[q]
        BY <1>1, <1>5, <2>1
    <2> HIDE DEF e
    <2> QED
        BY <2>1, <2>2, <2>3, <2>6, <2>8, <2>9
<1>7. ASSUME Polled(p, heard, upto, AllDeparted(Hear(p, heard, upto), gone))
      PROVE  /\ Crews' /\ Extends(Made, Made')
             /\ Crewed(e, p) /\ Honest(e.sess, Made')
             /\ DOMAIN e.sess.absent = DOMAIN m.sess.absent \union left
             /\ OpenLinks(e) = OpenLinks(m) \ left
             /\ \A q \in Guests : peer'[q] = peer[q]
             /\ lost' = lost
    <2> DEFINE x == Hear(p, heard, upto)
               n == AllDeparted(x, gone)
    <2>1. peer' = [peer EXCEPT ![p] = n] /\ lost' = lost
        BY <1>7 DEF Polled
    <2>2. /\ Crewed(x, p) /\ x.sess.absent = m.sess.absent /\ OpenLinks(x) = OpenLinks(m)
          /\ Honest(m.sess, Made) => Honest(x.sess, Made)
        <3>1. Crewed(peer[p], p) /\ Making(Made) /\ Len(heard) \in Nat
              /\ \A i \in 1 .. Len(heard) : Truthful(heard[i], Made)
            BY <1>1, <1>2, <1>3
        <3> HIDE DEF p
        <3> QED
            BY <3>1, HearCrewed
    <2> HIDE DEF x, m
    <2>3. /\ Crewed(n, p) /\ Settles(x, n)
          /\ DOMAIN n.sess.absent = DOMAIN x.sess.absent \union left
          /\ OpenLinks(n) = OpenLinks(x) \ left
        BY <1>4, <2>2, AllDepartedIs
    <2>4. n.mine = x.mine /\ n.claimed = x.claimed /\ n.settled = x.settled
        BY <2>3 DEF Settles
    <2>5. Polled(p, heard, upto, n)
        BY <1>7 DEF x
    <2> HIDE DEF n, left
    <2>6. Crews' /\ Made' = Made
        BY <1>1, <2>3, <2>4, <2>5, CrewsPoll DEF x
    <2>7. Extends(Made, Made')
        BY <2>6 DEF Extends
    <2>8. Honest(n.sess, Made')
        BY <1>1, <2>2, <2>3, <2>6 DEF Settles
    <2>9. e = n /\ \A q \in Guests : peer'[q] = peer[q]
        BY <1>1, <1>5, <2>1
    <2> HIDE DEF e
    <2> QED
        BY <2>1, <2>2, <2>3, <2>6, <2>7, <2>8, <2>9
<1> QED
    BY <1>6, <1>7, HostFrameIs

LEMMA MatchInvHost ==
    ASSUME MatchInv, NEW heard \in Arrivals(Host), NEW upto \in Reads(Host), NEW gone \in Leavers,
           HostFrame(heard, upto, gone)
    PROVE  MatchInv'
<1> DEFINE e == peer'[Host]
           a == Len(notices)
           b == Len(gone)
           left == {gone[i] : i \in 1 .. b}
           more == [i \in 1 .. b |-> NoticeOf(e.sess, gone[i])]
<1>1. /\ Crews' /\ Extends(Made, Made')
      /\ Crewed(e, Host) /\ Honest(e.sess, Made')
      /\ DOMAIN e.sess.absent = DOMAIN peer[Host].sess.absent \union left
      /\ OpenLinks(e) = OpenLinks(peer[Host]) \ left
      /\ \A p \in Guests : peer'[p] = peer[p]
      /\ lost' = lost
    BY HostSettles
<1>2. OpenLinks(peer[Host]) \subseteq Links(Host)
    BY HostAssumption DEF MatchInv, Crews, Crewed
<1>3. /\ b \in Nat /\ DOMAIN gone = 1 .. b
      /\ \A i \in 1 .. b : gone[i] \in OpenLinks(peer[Host]) /\ gone[i] \in Guests
      /\ \A i, j \in 1 .. b : gone[i] = gone[j] => i = j
    BY <1>2, LeaversAre
<1>4. told' = told /\ notices' = notices \o more
    <2>1. more = [i \in DOMAIN gone |-> NoticeOf(peer'[Host].sess, gone[i])]
        BY <1>3
    <2> HIDE DEF more
    <2> QED
        BY <2>1, HostFrameIs
<1>5. /\ a \in Nat /\ notices = [i \in 1 .. a |-> notices[i]]
      /\ \A i \in 1 .. a : IsNotice(notices[i]) /\ NoticeTrue(notices[i], Made)
      /\ \A i, j \in 1 .. a : notices[i].slot = notices[j].slot => i = j
    BY DEF MatchInv, Recorded
<1>6. Fit(e.sess)
    BY <1>1, CrewedNumbers
<1>7. ASSUME NEW i \in 1 .. b
      PROVE  IsNotice(more[i]) /\ more[i].slot = gone[i] /\ NoticeTrue(more[i], Made')
    <2>1. gone[i] \in Guests /\ gone[i] \in DOMAIN e.sess.absent
        BY <1>1, <1>3
    <2> DEFINE s == e.sess
               q == gone[i]
    <2>2. more[i] = NoticeOf(s, q)
        OBVIOUS
    <2>3. Fit(s) /\ q \in Guests /\ q \in DOMAIN s.absent /\ Honest(s, Made')
        BY <1>1, <1>6, <2>1
    <2> HIDE DEF s, more
    <2> QED
        BY <2>2, <2>3, NoticeOfIs
<1>8. more = [i \in 1 .. b |-> more[i]]
    OBVIOUS
<1> HIDE DEF e, a, b, more
<1>9. /\ Len(notices') = a + b
      /\ notices' = [i \in 1 .. a + b |-> IF i <= a THEN notices[i] ELSE more[i - a]]
    BY <1>3, <1>4, <1>5, <1>8, ConcatIs
<1>10. \A i \in 1 .. a : notices'[i] = notices[i]
    BY <1>3, <1>5, <1>9
<1>11. \A i \in 1 .. a + b : i \notin 1 .. a => i - a \in 1 .. b /\ notices'[i] = more[i - a]
    BY <1>3, <1>5, <1>9
<1>12. \A i \in 1 .. a : notices[i].slot \notin OpenLinks(peer[Host])
    BY DEF MatchInv, Aware, Slots, a
<1>13. Recorded'
    <2>1. \A i \in 1 .. a + b : IsNotice(notices'[i]) /\ NoticeTrue(notices'[i], Made')
        <3>1. \A i \in 1 .. a : IsNotice(notices[i]) /\ NoticeTrue(notices[i], Made')
            BY <1>1, <1>5, NoticeTrueLater
        <3> QED
            BY <1>7, <1>10, <1>11, <3>1
    <2>2. ASSUME NEW i \in 1 .. a + b, NEW j \in 1 .. a + b, notices'[i].slot = notices'[j].slot
          PROVE  i = j
        <3>1. CASE i \in 1 .. a /\ j \in 1 .. a
            BY <1>5, <1>10, <2>2, <3>1
        <3>2. CASE i \in 1 .. a /\ j \notin 1 .. a
            BY <1>3, <1>7, <1>10, <1>11, <1>12, <2>2, <3>2
        <3>3. CASE i \notin 1 .. a /\ j \in 1 .. a
            BY <1>3, <1>7, <1>10, <1>11, <1>12, <2>2, <3>3
        <3>4. CASE i \notin 1 .. a /\ j \notin 1 .. a
            <4>1. i - a \in 1 .. b /\ j - a \in 1 .. b /\ gone[i - a] = gone[j - a]
                BY <1>7, <1>11, <2>2, <3>4
            <4>2. i - a = j - a
                BY <1>3, <4>1
            <4> QED
                BY <1>5, <4>2
        <3> QED
            BY <3>1, <3>2, <3>3, <3>4
    <2>3. a + b \in Nat
        BY <1>3, <1>5
    <2>4. notices' = [i \in 1 .. Len(notices') |-> notices'[i]]
        BY <1>9
    <2>5. \A n : IsNotice(n)' <=> IsNotice(n)
        BY DEF IsNotice, Guests
    <2> QED
        BY <1>9, <2>1, <2>2, <2>3, <2>4, <2>5 DEF Recorded, IsNotice, NoticeTrue, Guests
<1>14. Aware'
    <2> DEFINE Now(n) == {notices'[i].slot : i \in 1 .. n}
    <2>1. \A n \in Nat : n <= a => Now(n) = Slots(n)
        <3> SUFFICES ASSUME NEW n \in Nat, n <= a PROVE Now(n) = Slots(n)
            OBVIOUS
        <3>1. \A i \in 1 .. n : i \in 1 .. a
            BY <1>5
        <3> QED
            BY <1>10, <3>1 DEF Slots
    <2>2. Now(a + b) = Slots(a) \union left
        <3>1. \A i \in 1 .. a + b : notices'[i].slot \in Slots(a) \union left
            <4> SUFFICES ASSUME NEW i \in 1 .. a + b
                         PROVE  notices'[i].slot \in Slots(a) \union left
                OBVIOUS
            <4>1. CASE i \in 1 .. a
                BY <1>10, <4>1 DEF Slots
            <4>2. CASE i \notin 1 .. a
                BY <1>7, <1>11, <4>2 DEF b
            <4> QED
                BY <4>1, <4>2
        <3>2. \A i \in 1 .. a : i \in 1 .. a + b
            BY <1>3, <1>5
        <3>3. \A i \in 1 .. b : a + i \in 1 .. a + b /\ a + i \notin 1 .. a /\ a + i - a = i
            BY <1>3, <1>5
        <3>4. ASSUME NEW i \in 1 .. b
              PROVE  notices'[a + i].slot = gone[i]
            <4> DEFINE j == a + i
            <4>1. j \in 1 .. a + b /\ j \notin 1 .. a /\ j - a = i
                BY <1>3, <1>5
            <4> HIDE DEF j
            <4>2. notices'[j] = more[i]
                BY <1>11, <4>1
            <4> QED
                BY <1>7, <4>2 DEF j
        <3>5. Slots(a) \subseteq Now(a + b)
            BY <1>10, <3>2 DEF Slots
        <3>6. left \subseteq Now(a + b)
            BY <3>3, <3>4 DEF b
        <3>7. Now(a + b) \subseteq Slots(a) \union left
            BY <3>1
        <3> QED
            BY <3>5, <3>6, <3>7
    <2>3. /\ told \in [Guests -> Nat]
          /\ \A p \in Guests : told[p] <= a /\ DOMAIN peer[p].sess.absent = Slots(told[p])
          /\ DOMAIN peer[Host].sess.absent = Slots(a)
          /\ OpenLinks(peer[Host]) \intersect Slots(a) = {}
        BY DEF MatchInv, Aware, a
    <2>4. \A p \in Guests : /\ told'[p] <= a + b
                            /\ DOMAIN peer'[p].sess.absent = Now(told'[p])
        <3> SUFFICES ASSUME NEW p \in Guests
                     PROVE  told'[p] <= a + b /\ DOMAIN peer'[p].sess.absent = Now(told'[p])
            OBVIOUS
        <3>1. told[p] \in Nat /\ told[p] <= a /\ told'[p] = told[p] /\ peer'[p] = peer[p]
            BY <1>1, <1>4, <2>3
        <3>2. Now(told[p]) = Slots(told[p])
            BY <2>1, <3>1
        <3> QED
            BY <1>3, <1>5, <1>4, <2>3, <3>1, <3>2
    <2>5. DOMAIN e.sess.absent = Now(a + b)
        BY <1>1, <2>2, <2>3
    <2>6. OpenLinks(e) \intersect Now(a + b) = {}
        BY <1>1, <2>2, <2>3
    <2>7. Guests' = Guests
        BY DEF Guests
    <2>8. OpenLinks(e) = OpenLinks(peer[Host])'
        BY DEF OpenLinks, e
    <2> HIDE DEF Now
    <2>9. told' \in [Guests' -> Nat]
        BY <1>4, <2>3, <2>7
    <2>10. \A p \in Guests' : /\ told'[p] <= Len(notices')
                              /\ DOMAIN peer'[p].sess.absent = Slots(told[p])'
        <3>1. \A p : Slots(told[p])' = Now(told'[p])
            BY DEF Slots, Now
        <3> QED
            BY <1>9, <2>4, <2>7, <3>1
    <2>11. DOMAIN peer'[Host].sess.absent = Slots(Len(notices))'
        <3>1. Slots(Len(notices))' = Now(Len(notices'))
            BY DEF Slots, Now
        <3> QED
            BY <1>9, <2>5, <3>1 DEF e
    <2>12. OpenLinks(peer[Host])' \intersect Slots(Len(notices))' = {}
        <3>1. Slots(Len(notices))' = Now(Len(notices'))
            BY DEF Slots, Now
        <3> QED
            BY <1>9, <2>6, <2>8, <3>1
    <2> QED
        BY <2>9, <2>10, <2>11, <2>12 DEF Aware
<1>15. lost' \in 0 .. MaxLost
    BY <1>1 DEF MatchInv
<1> QED
    BY <1>1, <1>13, <1>14, <1>15 DEF MatchInv, Honest, e

(* Where a guest ends its frame.                                           *)
LEMMA GuestSettles ==
    ASSUME MatchInv, NEW p \in Guests, NEW heard \in Arrivals(p), NEW upto \in Reads(p),
           NEW known \in told[p] .. Len(notices), GuestFrame(p, heard, upto, known)
    PROVE  /\ Crews' /\ Extends(Made, Made')
           /\ DOMAIN peer'[p].sess.absent = Slots(known)
           /\ \A q \in Players \ {p} : peer'[q] = peer[q]
           /\ lost' = lost
<1> DEFINE m == peer[p]
           e == peer'[p]
           a == told[p]
<1>1. /\ Crews /\ Crewed(m, p) /\ p \in Players
      /\ peer = [q \in Players |-> peer[q]]
    BY DEF MatchInv, Crews, Guests
<1>2. Making(Made) /\ Made[p] = m.mine
    BY <1>1, CrewsMake
<1>3. Len(heard) \in Nat /\ \A i \in 1 .. Len(heard) : Truthful(heard[i], Made)
    BY <1>1, CrewsRead
<1>4. /\ a \in Nat /\ known \in Nat /\ a <= known
      /\ \A i \in 1 .. known : IsNotice(notices[i])
      /\ DOMAIN m.sess.absent = Slots(a)
    BY DEF MatchInv, Recorded, Aware
<1>6. ASSUME NEW v \in Plays(p, m.sess.next),
             Ticked(p, heard, upto, v, AllNoticed(Exchanged(Moved(p, heard, upto, v)), a, known))
      PROVE  /\ Crews' /\ Extends(Made, Made')
             /\ DOMAIN e.sess.absent = Slots(known)
             /\ \A q \in Players \ {p} : peer'[q] = peer[q]
             /\ lost' = lost
    <2> DEFINE x == Exchanged(Moved(p, heard, upto, v))
               n == AllNoticed(x, a, known)
    <2>1. m.sess.next <= MaxTick /\ peer' = [peer EXCEPT ![p] = n] /\ lost' = lost
        BY <1>6 DEF Ticked
    <2>2. Crewed(x, p) /\ x.sess.absent = m.sess.absent
        BY <1>1, <1>2, <1>3, <2>1, TickCrewed
    <2> HIDE DEF x, m, a
    <2>3. /\ Crewed(n, p) /\ n.mine = x.mine /\ n.settled = x.settled /\ n.claimed = x.claimed
          /\ DOMAIN n.sess.absent = Slots(known)
        BY <1>4, <2>2, AllNoticedIs
    <2>4. Ticked(p, heard, upto, v, n)
        BY <1>6 DEF x
    <2> HIDE DEF n
    <2>5. Crews' /\ Extends(Made, Made')
        BY <1>1, <2>3, <2>4, CrewsTick DEF x, m
    <2>6. e = n /\ \A q \in Players \ {p} : peer'[q] = peer[q]
        BY <1>1, <2>1
    <2> HIDE DEF e
    <2> QED
        BY <2>1, <2>3, <2>5, <2>6
<1>7. ASSUME Polled(p, heard, upto, AllNoticed(Hear(p, heard, upto), a, known))
      PROVE  /\ Crews' /\ Extends(Made, Made')
             /\ DOMAIN e.sess.absent = Slots(known)
             /\ \A q \in Players \ {p} : peer'[q] = peer[q]
             /\ lost' = lost
    <2> DEFINE x == Hear(p, heard, upto)
               n == AllNoticed(x, a, known)
    <2>1. peer' = [peer EXCEPT ![p] = n] /\ lost' = lost
        BY <1>7 DEF Polled
    <2>2. Crewed(x, p) /\ x.sess.absent = m.sess.absent
        <3>1. Crewed(peer[p], p) /\ Making(Made) /\ Len(heard) \in Nat
              /\ \A i \in 1 .. Len(heard) : Truthful(heard[i], Made)
            BY <1>1, <1>2, <1>3
        <3> HIDE DEF a
        <3> QED
            BY <3>1, HearCrewed
    <2> HIDE DEF x, m, a
    <2>3. /\ Crewed(n, p) /\ n.mine = x.mine /\ n.settled = x.settled /\ n.claimed = x.claimed
          /\ DOMAIN n.sess.absent = Slots(known)
        BY <1>4, <2>2, AllNoticedIs
    <2>4. Polled(p, heard, upto, n)
        BY <1>7 DEF x
    <2> HIDE DEF n
    <2>5. Crews' /\ Made' = Made
        BY <1>1, <2>3, <2>4, CrewsPoll DEF x
    <2>6. Extends(Made, Made')
        BY <2>5 DEF Extends
    <2>7. e = n /\ \A q \in Players \ {p} : peer'[q] = peer[q]
        BY <1>1, <2>1
    <2> HIDE DEF e
    <2> QED
        BY <2>1, <2>3, <2>5, <2>6, <2>7
<1> QED
    BY <1>6, <1>7, GuestFrameIs

LEMMA MatchInvGuest ==
    ASSUME MatchInv, NEW p \in Guests, NEW heard \in Arrivals(p), NEW upto \in Reads(p),
           NEW known \in told[p] .. Len(notices), GuestFrame(p, heard, upto, known)
    PROVE  MatchInv'
<1>1. /\ Crews' /\ Extends(Made, Made')
      /\ DOMAIN peer'[p].sess.absent = Slots(known)
      /\ \A q \in Players \ {p} : peer'[q] = peer[q]
      /\ lost' = lost
    BY GuestSettles
<1>2. told' = [told EXCEPT ![p] = known] /\ notices' = notices
    BY GuestFrameIs
<1>3. p \in Players /\ Host \in Players /\ p # Host /\ Guests = Players \ {Host}
    BY HostAssumption DEF Guests
<1>4. peer'[Host] = peer[Host]
    BY <1>1, <1>3
<1>5. Honest(peer'[Host].sess, Made')
    BY <1>1, <1>4, HonestLater DEF MatchInv
<1>6. \A n : Slots(n)' = {notices[i].slot : i \in 1 .. n} /\ Slots(n) = {notices[i].slot : i \in 1 .. n}
    BY <1>2 DEF Slots
<1>7. Recorded'
    <2>1. /\ Len(notices) \in Nat
          /\ notices = [i \in 1 .. Len(notices) |-> notices[i]]
          /\ \A i \in 1 .. Len(notices) : IsNotice(notices[i]) /\ NoticeTrue(notices[i], Made)
          /\ \A i, j \in 1 .. Len(notices) : notices[i].slot = notices[j].slot => i = j
        BY DEF MatchInv, Recorded
    <2>2. \A i \in 1 .. Len(notices) : NoticeTrue(notices[i], Made')
        BY <1>1, <2>1, NoticeTrueLater
    <2> QED
        BY <1>2, <2>1, <2>2 DEF Recorded, IsNotice, NoticeTrue, Guests
<1>8. Aware'
    <2>1. /\ told \in [Guests -> Nat]
          /\ \A q \in Guests : told[q] <= Len(notices) /\ DOMAIN peer[q].sess.absent = Slots(told[q])
          /\ DOMAIN peer[Host].sess.absent = Slots(Len(notices))
          /\ OpenLinks(peer[Host]) \intersect Slots(Len(notices)) = {}
        BY DEF MatchInv, Aware
    <2>2. Len(notices) \in Nat /\ known \in Nat /\ known <= Len(notices)
        BY <2>1 DEF MatchInv, Recorded
    <2>3. told' \in [Guests -> Nat] /\ told'[p] = known
          /\ \A q \in Guests \ {p} : told'[q] = told[q]
        BY <1>2, <2>1, <2>2
    <2>4. ASSUME NEW q \in Guests
          PROVE  told'[q] <= Len(notices)
                 /\ DOMAIN peer'[q].sess.absent = {notices[i].slot : i \in 1 .. told'[q]}
        <3>1. CASE q = p
            BY <1>1, <1>6, <2>2, <2>3, <3>1
        <3>2. CASE q # p
            <4>1. peer'[q] = peer[q] /\ told'[q] = told[q]
                BY <1>1, <1>3, <2>3, <3>2
            <4> QED
                BY <1>6, <2>1, <4>1
        <3> QED
            BY <3>1, <3>2
    <2> QED
        BY <1>2, <1>4, <1>6, <2>1, <2>3, <2>4 DEF Aware, Slots, OpenLinks, Guests
<1>9. lost' \in 0 .. MaxLost
    BY <1>1 DEF MatchInv
<1> QED
    BY <1>1, <1>5, <1>7, <1>8, <1>9 DEF MatchInv, Honest

LEMMA MatchInvKept ==
    ASSUME MatchInv, [MatchNext]_matchVars
    PROVE  MatchInv'
<1>1. ASSUME NEW heard \in Arrivals(Host), NEW upto \in Reads(Host), NEW gone \in Leavers,
             HostFrame(heard, upto, gone)
      PROVE  MatchInv'
    BY <1>1, MatchInvHost
<1>2. ASSUME NEW p \in Guests, NEW heard \in Arrivals(p), NEW upto \in Reads(p),
             NEW known \in told[p] .. Len(notices), GuestFrame(p, heard, upto, known)
      PROVE  MatchInv'
    BY <1>2, MatchInvGuest
<1>3. ASSUME NEW d \in datagrams, Lose(d), UNCHANGED <<notices, told>>
      PROVE  MatchInv'
    <2>1. Crews' /\ Made' = Made
        BY <1>3, CrewsLose DEF MatchInv
    <2>2. peer' = peer /\ notices' = notices /\ told' = told
        BY <1>3 DEF Lose
    <2>3. lost' \in 0 .. MaxLost
        BY <1>3, BoundAssumption DEF MatchInv, Lose
    <2>4. Recorded' /\ Aware' /\ Honest(peer[Host].sess, Made)'
        BY <2>1, <2>2 DEF MatchInv, Recorded, Aware, Honest, NoticeTrue, IsNotice, Slots, OpenLinks, Guests
    <2> QED
        BY <2>1, <2>3, <2>4 DEF MatchInv
<1>4. CASE UNCHANGED matchVars
    <2>1. /\ peer' = peer /\ published' = published /\ read' = read /\ datagrams' = datagrams
          /\ lost' = lost /\ notices' = notices /\ told' = told
        BY <1>4 DEF matchVars, vars
    <2>2. Made' = Made
        BY <2>1 DEF Made
    <2>3. Crews'
        BY <2>1, <2>2 DEF MatchInv, Crews, Posted, Crewed, Able, OpenLinks
    <2> QED
        BY <2>1, <2>2, <2>3
            DEF MatchInv, Recorded, Aware, Honest, NoticeTrue, IsNotice, Slots, OpenLinks, Guests
<1> QED
    BY <1>1, <1>2, <1>3, <1>4 DEF MatchNext

LEMMA MatchInvBegins == MatchInit => MatchInv
<1> SUFFICES ASSUME MatchInit PROVE MatchInv
    OBVIOUS
<1>1. Init /\ notices = <<>> /\ told = [p \in Guests |-> 0] /\ lost = 0
    BY DEF MatchInit, Init
<1>2. Crews /\ Honest(peer[Host].sess, Made)
    BY <1>1, CrewsBegin
<1>3. Len(notices) = 0 /\ DOMAIN notices = {} /\ Slots(0) = {}
    BY <1>1 DEF Slots
<1>4. notices = [i \in 1 .. Len(notices) |-> notices[i]]
    BY <1>1
<1>5. Recorded
    BY <1>3, <1>4 DEF Recorded
<1>6. \A p \in Players : DOMAIN peer[p].sess.absent = {}
    BY <1>1 DEF Init, NewPeer, NewSession, NoEntries
<1>7. Aware
    <2>1. told \in [Guests -> Nat] /\ \A p \in Guests : told[p] = 0
        BY <1>1
    <2>2. \A p \in Guests : p \in Players
        BY DEF Guests
    <2>3. \A p \in Guests : told[p] <= 0 /\ DOMAIN peer[p].sess.absent = Slots(told[p])
        <3> SUFFICES ASSUME NEW p \in Guests
                     PROVE  told[p] <= 0 /\ DOMAIN peer[p].sess.absent = Slots(told[p])
            OBVIOUS
        <3>1. told[p] = 0 /\ DOMAIN peer[p].sess.absent = {}
            BY <1>6, <2>1, <2>2
        <3>2. Slots(told[p]) = {}
            BY <1>3, <3>1
        <3> QED
            BY <3>1, <3>2
    <2>4. DOMAIN peer[Host].sess.absent = Slots(0)
        BY <1>3, <1>6, HostAssumption
    <2>5. OpenLinks(peer[Host]) \intersect Slots(0) = {}
        BY <1>3
    <2>6. told \in [Guests -> Nat]
        BY <2>1
    <2> QED
        BY <1>3, <2>3, <2>4, <2>5, <2>6 DEF Aware
<1> QED
    BY <1>1, <1>2, <1>5, <1>7, BoundAssumption DEF MatchInv

LEMMA MatchAlways == MatchSpec => []MatchInv
<1> QED
    BY MatchInvBegins, MatchInvKept, PTL DEF MatchSpec

LEMMA MatchIsTyped == MatchInv => MatchTypeOK
<1> SUFFICES ASSUME MatchInv PROVE MatchTypeOK
    OBVIOUS
<1>1. ASSUME NEW p \in Players
      PROVE  /\ IsSession(peer[p].sess)
             /\ DOMAIN peer[p].mine = 1 .. peer[p].sess.next - 1
             /\ \A t \in DOMAIN peer[p].mine : peer[p].mine[t] \in Plays(p, t)
             /\ \E open \in SUBSET Links(p) : peer[p].theirLead \in [open -> Int]
             /\ peer[p].claimed \subseteq (1 .. MaxTick) \X Links(p)
             /\ \A k \in peer[p].claimed : k[1] \in DOMAIN published[k[2]]
             /\ peer[p].settled \in 0 .. MaxTick
             /\ peer[p].desync \in Nat \union {NoTick}
             /\ DOMAIN published[p] \subseteq 1 .. peer[p].settled
             /\ read[p] \in [Links(p) -> 0 .. MaxTick]
    <2>1. Crewed(peer[p], p) /\ Posted(p)
        BY DEF MatchInv, Crews
    <2>2. /\ IsSession(peer[p].sess) /\ peer[p].sess.next \in Nat \ {0}
          /\ peer[p].theirLead \in [OpenLinks(peer[p]) -> Int]
        BY <2>1, CrewedNumbers
    <2>3. peer[p].settled \in 0 .. MaxTick
        BY <2>1, <2>2, BoundAssumption DEF Crewed
    <2> QED
        BY <2>1, <2>2, <2>3 DEF Crewed, Posted
<1>2. \A d \in datagrams : Linked(d.link, d.to) /\ DOMAIN d.values = d.first .. d.tick
    BY DEF MatchInv, Crews, Truthful
<1>3. TypeOK
    BY <1>1, <1>2 DEF MatchInv, TypeOK
<1>4. /\ Len(notices) \in Nat /\ DOMAIN notices = 1 .. Len(notices)
      /\ \A i, j \in 1 .. Len(notices) : notices[i].slot = notices[j].slot => i = j
    BY DEF MatchInv, Recorded
<1>5. \A p \in Guests : told[p] \in 0 .. Len(notices)
    BY <1>4 DEF MatchInv, Aware
<1>6. \A p \in Players :
        DOMAIN peer[p].sess.absent =
            {notices[i].slot : i \in 1 .. (IF p = Host THEN Len(notices) ELSE told[p])}
    BY DEF MatchInv, Aware, Slots, Guests
<1> QED
    BY <1>3, <1>4, <1>5, <1>6 DEF MatchTypeOK

(* Every machine stays well formed while players leave (depart, settle in  *)
(* play.rs, set_absent in rollback.rs), a slot is told absent once, and    *)
(* those a machine knows to be gone are the ones it was told of.           *)
THEOREM MatchTypeCorrect == MatchSpec => []MatchTypeOK
<1>1. MatchInv => MatchTypeOK
    BY MatchIsTyped
<1> QED
    BY <1>1, MatchAlways, PTL

(* A notice names no input its leaver did not make (depart): what it holds *)
(* for a tick is the leaver's own, or Nil for one the host has no more.    *)
NothingInvented == \A i \in DOMAIN notices : NoticeTrue(notices[i], Made)

THEOREM NoticesInventNothing == MatchSpec => []NothingInvented
<1>1. MatchInv => NothingInvented
    BY DEF MatchInv, Recorded, NothingInvented
<1> QED
    BY <1>1, MatchAlways, PTL

-----------------------------------------------------------------------------
(* What the host keeps track of while players leave: hearing inputs, and   *)
(* making one, takes nothing back.                                         *)
Wider(s, r) ==
    /\ r.next = s.next /\ r.ring = s.ring /\ r.absent = s.absent
    /\ \A q \in Players : DOMAIN s.arrived[q] \subseteq DOMAIN r.arrived[q]
    /\ \A q \in Players : NewestOf(s, q) <= NewestOf(r, q)
    /\ SatOut(s, Due(s)) => SatOut(r, Due(r))

(* Newest inputs are of ticks that were played.                            *)
Known(s, made) == \A q \in Players : NewestOf(s, q) \in DOMAIN made[q] \union {0}

Learned(s, r, made) ==
    \A q \in Players :
        NewestOf(s, q) \in DOMAIN made[q] \union {0} => NewestOf(r, q) \in DOMAIN made[q] \union {0}

LEMMA WiderTwice ==
    ASSUME NEW s, NEW r, NEW x, Fit(s), Fit(r), Fit(x), Wider(s, r), Wider(r, x)
    PROVE  Wider(s, x)
<1>1. \A q \in Players : NewestOf(s, q) \in Nat /\ NewestOf(r, q) \in Nat /\ NewestOf(x, q) \in Nat
    BY DEF Fit
<1>2. \A q \in Players : NewestOf(s, q) <= NewestOf(x, q)
    BY <1>1 DEF Wider
<1> QED
    BY <1>2 DEF Wider

LEMMA WiderAtOnce ==
    ASSUME NEW s, Fit(s)
    PROVE  Wider(s, s)
<1>1. \A q \in Players : NewestOf(s, q) <= NewestOf(s, q)
    BY DEF Fit
<1> QED
    BY <1>1 DEF Wider

LEMMA SubmitNotes ==
    ASSUME NEW s, Fit(s), NEW p \in Players, NEW t \in Nat \ {0}, NEW v
    PROVE  LET r == SubmitTo(s, p, t, v)
               newest == IF p \in DOMAIN s.newest /\ t < s.newest[p] THEN s.newest[p] ELSE t
           IN  IF Refused(s, p, t) THEN r = s
               ELSE /\ r.newest = Put(s.newest, p, newest)
                    /\ r.arrived = [s.arrived EXCEPT ![p] = Put(@, t, v)]
<1> DEFINE r == SubmitTo(s, p, t, v)
           changed == t \notin DOMAIN s.used[p] \/ s.used[p][t] # v
           newest == IF p \in DOMAIN s.newest /\ t < s.newest[p] THEN s.newest[p] ELSE t
           noted == [s EXCEPT !.newest = Put(@, p, newest), !.arrived[p] = Put(@, t, v)]
<1>1. DOMAIN s = Fields
    BY FitNumbers
<1>2. /\ noted.arrived = [s.arrived EXCEPT ![p] = Put(@, t, v)] /\ DOMAIN noted = Fields
      /\ noted.newest = Put(s.newest, p, newest)
    BY <1>1 DEF Fields
<1>3. r = IF Refused(s, p, t) THEN s
          ELSE IF t < s.next /\ changed THEN MarkDirty(noted, t) ELSE noted
    BY DEF SubmitTo
<1> HIDE DEF noted, r, newest, changed
<1> QED
    BY <1>2, <1>3 DEF MarkDirty, Fields, r, newest

LEMMA SubmitWider ==
    ASSUME NEW s, Fit(s), NEW p \in Players, NEW t \in Nat \ {0}, NEW v \in Input
    PROVE  LET r == SubmitTo(s, p, t, v)
           IN  /\ Wider(s, r)
               /\ \A q \in Players \ {p} : NewestOf(r, q) = NewestOf(s, q)
               /\ NewestOf(r, p) \in {NewestOf(s, p), t}
               /\ p \notin DOMAIN s.absent /\ t <= s.next + Ahead
                    => t \in DOMAIN r.arrived[p] /\ t <= NewestOf(r, p)
<1> DEFINE r == SubmitTo(s, p, t, v)
           newest == IF p \in DOMAIN s.newest /\ t < s.newest[p] THEN s.newest[p] ELSE t
<1>1. /\ IsSession(s) /\ s.next \in Nat \ {0}
      /\ DOMAIN s.ring = RingTicks(s.next) /\ DOMAIN s.ring \subseteq Nat
      /\ s.dirty \in Nat \union {NoTick} /\ DOMAIN s.arrived = Players
      /\ \A q \in Players : NewestOf(s, q) \in Nat
    BY FitNumbers DEF IsSession, IsJournal, Fit
<1>2. /\ IsSession(r)
      /\ r.next = s.next /\ r.ring = s.ring
      /\ r.used = s.used
      /\ r.absent = s.absent
      /\ s.dirty # NoTick => r.dirty # NoTick /\ r.dirty <= s.dirty
    BY <1>1, SubmitFrame
<1>3. IF Refused(s, p, t) THEN r = s
      ELSE /\ r.newest = Put(s.newest, p, newest)
           /\ r.arrived = [s.arrived EXCEPT ![p] = Put(@, t, v)]
    BY SubmitNotes
<1> HIDE DEF r
<1>4. r.dirty \in Nat \union {NoTick}
    BY <1>2 DEF IsSession
<1>5. SatOut(s, Due(s)) => SatOut(r, Due(r))
    <2> SUFFICES ASSUME SatOut(s, Due(s)), NEW q \in DOMAIN r.absent, NEW u \in DOMAIN r.ring,
                        r.absent[q] <= u, u < Due(r)
                 PROVE  r.used[q][u] = Nil
        BY DEF SatOut
    <2>1. u \in Nat /\ u < s.next /\ u \in DOMAIN s.ring
        BY <1>1, <1>2 DEF RingTicks
    <2>2. u < Due(s)
        BY <1>1, <1>2, <1>4, <2>1, DueEarlier
    <2> QED
        BY <1>2, <2>1, <2>2 DEF SatOut
<1>6. CASE Refused(s, p, t)
    <2>1. r = s
        BY <1>3, <1>6
    <2>2. ~(p \notin DOMAIN s.absent /\ t <= s.next + Ahead)
        BY <1>1, <1>6, AheadAssumption DEF Refused, IsPresent
    <2> QED
        BY <2>1, <2>2, WiderAtOnce DEF r
<1>7. CASE ~Refused(s, p, t)
    <2>1. /\ r.newest = Put(s.newest, p, newest)
          /\ r.arrived = [s.arrived EXCEPT ![p] = Put(@, t, v)]
        BY <1>3, <1>7
    <2>2. /\ DOMAIN r.arrived[p] = DOMAIN s.arrived[p] \union {t}
          /\ \A q \in Players \ {p} : r.arrived[q] = s.arrived[q]
        BY <1>1, <2>1 DEF Put
    <2>3. p \in DOMAIN s.newest => s.newest[p] \in Nat
        BY <1>1 DEF NewestOf
    <2>4. newest \in Nat /\ NewestOf(s, p) <= newest /\ t <= newest /\ newest \in {NewestOf(s, p), t}
        BY <1>1, <2>3 DEF NewestOf
    <2> HIDE DEF newest
    <2>5. \A q \in Players : NewestOf(r, q) = IF q = p THEN newest ELSE NewestOf(s, q)
        BY <2>1 DEF NewestOf, Put
    <2>6. \A q \in Players : NewestOf(s, q) <= NewestOf(r, q)
        BY <1>1, <2>4, <2>5
    <2>7. \A q \in Players : DOMAIN s.arrived[q] \subseteq DOMAIN r.arrived[q]
        BY <2>2
    <2>8. Wider(s, r)
        BY <1>2, <1>5, <2>6, <2>7 DEF Wider
    <2> QED
        BY <2>2, <2>4, <2>5, <2>8 DEF r
<1> QED
    BY <1>6, <1>7

(* What a session made of inputs of one player, up to tick n.              *)
Fed(s, r, d, n) ==
    /\ Wider(s, r)
    /\ \A q \in Players \ {d.player} : NewestOf(r, q) = NewestOf(s, q)
    /\ NewestOf(r, d.player) \in {NewestOf(s, d.player)} \union d.first .. n

Taken1(s, r, d, n) ==
    d.player \notin DOMAIN s.absent =>
        /\ d.first .. n \subseteq DOMAIN r.arrived[d.player]
        /\ d.first <= n => n <= NewestOf(r, d.player)

LEMMA FedOnce ==
    ASSUME NEW s, Fit(s), NEW x, Fit(x), NEW d, d.player \in Players, d.first \in Nat \ {0},
           NEW t \in Nat \ {0}, d.first <= t, d.values[t] \in Input, Fed(s, x, d, t - 1)
    PROVE  LET r == SubmitTo(x, d.player, t, d.values[t])
           IN  /\ Fit(r) /\ Fed(s, r, d, t)
               /\ t <= s.next + Ahead /\ Taken1(s, x, d, t - 1) => Taken1(s, r, d, t)
<1> DEFINE q == d.player
           v == d.values[t]
           r == SubmitTo(x, q, t, v)
<1>1. q \in Players /\ v \in Input
    OBVIOUS
<1> HIDE DEF q, v
<1>2. /\ Wider(x, r)
      /\ \A y \in Players \ {q} : NewestOf(r, y) = NewestOf(x, y)
      /\ NewestOf(r, q) \in {NewestOf(x, q), t}
      /\ q \notin DOMAIN x.absent /\ t <= x.next + Ahead
            => t \in DOMAIN r.arrived[q] /\ t <= NewestOf(r, q)
    BY <1>1, SubmitWider
<1>3. Fit(r)
    BY <1>1, SubmitFit
<1> HIDE DEF r
<1>4. /\ Wider(s, x)
      /\ \A y \in Players \ {q} : NewestOf(x, y) = NewestOf(s, y)
      /\ NewestOf(x, q) \in {NewestOf(s, q)} \union d.first .. t - 1
    BY DEF Fed, q
<1>5. Wider(s, r)
    BY <1>2, <1>3, <1>4, WiderTwice
<1>6. NewestOf(r, q) \in {NewestOf(s, q)} \union d.first .. t
    <2>1. \A u \in d.first .. t - 1 : u \in d.first .. t
        OBVIOUS
    <2>2. t \in d.first .. t
        OBVIOUS
    <2> QED
        BY <1>2, <1>4, <2>1, <2>2
<1>7. Fed(s, r, d, t)
    BY <1>2, <1>4, <1>5, <1>6 DEF Fed, q
<1>8. ASSUME t <= s.next + Ahead, Taken1(s, x, d, t - 1)
      PROVE  Taken1(s, r, d, t)
    <2> SUFFICES ASSUME q \notin DOMAIN s.absent
                 PROVE  d.first .. t \subseteq DOMAIN r.arrived[q] /\ t <= NewestOf(r, q)
        BY DEF Taken1, q
    <2>1. q \notin DOMAIN x.absent /\ x.next = s.next
        BY <1>4 DEF Wider
    <2>2. t \in DOMAIN r.arrived[q] /\ t <= NewestOf(r, q)
        BY <1>2, <1>8, <2>1
    <2>3. d.first .. t - 1 \subseteq DOMAIN r.arrived[q]
        BY <1>1, <1>2, <1>8 DEF Taken1, Wider, q
    <2>4. \A u \in d.first .. t : u = t \/ u \in d.first .. t - 1
        OBVIOUS
    <2> QED
        BY <2>2, <2>3, <2>4
<1> QED
    BY <1>3, <1>7, <1>8 DEF r, q, v

LEMMA FedWider ==
    ASSUME NEW s, Fit(s), NEW d, d.player \in Players, d.first \in Nat \ {0},
           NEW n \in Nat, d.first <= n,
           \A t \in d.first .. n : d.values[t] \in Input,
           NEW f, Feeding(f, s, d, n)
    PROVE  /\ Fit(f[n]) /\ Fed(s, f[n], d, n)
           /\ n <= s.next + Ahead => Taken1(s, f[n], d, n)
<1> DEFINE a == d.first - 1
           Good(t) == /\ Fit(f[t]) /\ Fed(s, f[t], d, t)
                      /\ n <= s.next + Ahead => Taken1(s, f[t], d, t)
           P == {i \in 0 .. n - a : Good(a + i)}
<1>1. a \in Nat /\ d.first = a + 1 /\ n - a \in Nat /\ s.next \in Nat /\ Ahead \in Nat
    BY FitNumbers, AheadAssumption
<1>2. \A t \in a .. n : f[t] = IF t = a THEN s ELSE SubmitTo(f[t - 1], d.player, t, d.values[t])
    BY DEF Feeding
<1>3. 0 \in P
    <2>1. a \in a .. n /\ a + 0 = a /\ 0 \in 0 .. n - a
        BY <1>1
    <2>2. f[a] = s
        BY <1>2, <2>1
    <2>3. Fed(s, s, d, a)
        BY WiderAtOnce DEF Fed
    <2>4. Taken1(s, s, d, a)
        BY <1>1 DEF Taken1
    <2> QED
        BY <2>1, <2>2, <2>3, <2>4
<1>4. ASSUME NEW i \in 0 .. n - a - 1, i \in P
      PROVE  i + 1 \in P
    <2> DEFINE t == a + i + 1
    <2>1. /\ t \in a .. n /\ t # a /\ t - 1 = a + i /\ t \in Nat \ {0} /\ t \in d.first .. n
          /\ a + (i + 1) = t /\ i + 1 \in 0 .. n - a /\ d.first <= t
          /\ n <= s.next + Ahead => t <= s.next + Ahead
        BY <1>1
    <2>2. Good(t - 1)
        BY <1>4, <2>1
    <2> HIDE DEF t, a
    <2> DEFINE x == f[t - 1]
    <2>3. f[t] = SubmitTo(x, d.player, t, d.values[t]) /\ d.values[t] \in Input
        BY <1>2, <2>1
    <2>4. Fit(x) /\ Fed(s, x, d, t - 1) /\ (n <= s.next + Ahead => Taken1(s, x, d, t - 1))
        BY <2>2
    <2> HIDE DEF x
    <2>5. /\ Fit(f[t]) /\ Fed(s, f[t], d, t)
          /\ t <= s.next + Ahead /\ Taken1(s, x, d, t - 1) => Taken1(s, f[t], d, t)
        BY <2>1, <2>3, <2>4, FedOnce
    <2>6. Good(t)
        BY <2>1, <2>4, <2>5
    <2> QED
        BY <2>1, <2>6
<1> HIDE DEF P
<1>5. 0 .. n - a \subseteq P
    <2> DEFINE k == n - a
    <2> HIDE DEF k, a
    <2>1. k \in Nat /\ 0 \in P /\ \A i \in 0 .. k - 1 : i \in P => i + 1 \in P
        BY <1>1, <1>3, <1>4 DEF k
    <2> QED
        BY <2>1, StepByStep DEF k
<1>6. n - a \in P /\ a + (n - a) = n
    BY <1>1, <1>5
<1> HIDE DEF a
<1>7. Good(n)
    BY <1>6 DEF P
<1> QED
    BY <1>7

(* A datagram a session takes whole: its player is still playing, and it   *)
(* reaches back to the newest input heard.                                 *)
Heeded(s, d) == d.player \notin DOMAIN s.absent /\ d.tick <= s.next + Ahead /\ Covered(s, d)

Gone(s, r) == \A q \in DOMAIN s.absent : NewestOf(r, q) = NewestOf(s, q)

LEMMA HeededLater ==
    ASSUME NEW s, NEW r, Fit(s), Fit(r), Wider(s, r), NEW made, NEW d, Truthful(d, made), Heeded(s, d)
    PROVE  Heeded(r, d)
<1>1. d.player \in Players /\ d.first \in Nat
    BY DEF Truthful
<1>2. NewestOf(s, d.player) \in Nat /\ NewestOf(r, d.player) \in Nat
      /\ NewestOf(s, d.player) <= NewestOf(r, d.player)
    BY <1>1 DEF Fit, Wider
<1>3. d.first <= NewestOf(r, d.player) + 1
    BY <1>1, <1>2 DEF Heeded, Covered
<1> QED
    BY <1>3 DEF Heeded, Covered, Wider

LEMMA DatagramWider ==
    ASSUME NEW m, Able(m), NEW made, Making(made), NEW d, Truthful(d, made)
    PROVE  LET s == m.sess
               r == HearDatagram(m, d).sess
           IN  /\ Fit(r) /\ Wider(s, r)
               /\ Learned(s, r, made)
               /\ Heeded(s, d) => Gone(s, r)
               /\ Heeded(s, d) /\ Gapless(s) => Gapless(r)
<1> DEFINE s == m.sess
           r == HearDatagram(m, d).sess
           q == d.player
           b == d.tick
<1>1. Fit(s) /\ DOMAIN m = MachineFields
    BY DEF Able
<1>2. /\ q \in Players /\ d.first \in Nat \ {0} /\ b \in Nat /\ d.first <= b /\ d.first - 1 <= b
      /\ \A t \in d.first .. b : t \in DOMAIN made[q] /\ d.values[t] = made[q][t]
    BY DEF Truthful
<1>3. \A t \in d.first .. b : d.values[t] \in Input
    BY <1>2 DEF Making
<1>4. PICK f : Feeding(f, s, d, b) /\ r = f[b]
    BY <1>1, <1>2, DatagramFeeds
<1> HIDE DEF s, r
<1>5. Fit(r) /\ Fed(s, r, d, b) /\ (b <= s.next + Ahead => Taken1(s, r, d, b))
    BY <1>1, <1>2, <1>3, <1>4, FedWider
<1>6. /\ Wider(s, r)
      /\ \A x \in Players \ {q} : NewestOf(r, x) = NewestOf(s, x)
      /\ NewestOf(r, q) \in {NewestOf(s, q)} \union d.first .. b
    BY <1>5 DEF Fed
<1>7. \A x \in Players : NewestOf(s, x) \in Nat /\ NewestOf(r, x) \in Nat
    BY <1>1, <1>5 DEF Fit
<1>8. DOMAIN s.absent \subseteq Players
    BY <1>1, FitNumbers
<1>9. Learned(s, r, made)
    BY <1>2, <1>6 DEF Learned
<1>10. ASSUME Heeded(s, d)
       PROVE  /\ q \notin DOMAIN s.absent /\ d.first <= NewestOf(s, q) + 1
              /\ d.first .. b \subseteq DOMAIN r.arrived[q]
    BY <1>2, <1>5, <1>10 DEF Heeded, Covered, Taken1
<1>11. ASSUME Heeded(s, d)
       PROVE  Gone(s, r)
    BY <1>6, <1>8, <1>10, <1>11 DEF Gone
<1>12. ASSUME Heeded(s, d), Gapless(s)
       PROVE  Gapless(r)
    <2> SUFFICES ASSUME NEW x \in Players, NEW t \in 1 .. NewestOf(r, x)
                 PROVE  BelowRing(r, t) \/ t \in DOMAIN r.arrived[x]
        BY DEF Gapless
    <2>1. BelowRing(r, t) <=> BelowRing(s, t)
        BY <1>6 DEF Wider, BelowRing
    <2>2. CASE t \in 1 .. NewestOf(s, x)
        BY <1>6, <1>12, <2>1, <2>2 DEF Gapless, Wider
    <2>3. CASE t \notin 1 .. NewestOf(s, x)
        <3>1. x = q
            BY <1>6, <2>3
        <3>2. NewestOf(r, q) \in d.first .. b
            BY <1>6, <2>3, <3>1
        <3>3. t \in d.first .. b
            BY <1>2, <1>7, <1>10, <1>12, <2>3, <3>1, <3>2
        <3> QED
            BY <1>10, <1>12, <3>1, <3>3
    <2> QED
        BY <2>2, <2>3
<1> QED
    BY <1>5, <1>6, <1>9, <1>11, <1>12 DEF r, s

LEMMA DatagramsWider ==
    ASSUME NEW m, Able(m), NEW made, Making(made), NEW heard, Len(heard) \in Nat,
           \A i \in 1 .. Len(heard) : Truthful(heard[i], made)
    PROVE  LET s == m.sess
               r == HearDatagrams(m, heard).sess
               all == \A i \in 1 .. Len(heard) : Heeded(s, heard[i])
           IN  /\ Fit(r) /\ Wider(s, r)
               /\ Learned(s, r, made)
               /\ all => Gone(s, r)
               /\ all /\ Gapless(s) => Gapless(r)
<1> DEFINE last == Len(heard)
           s == m.sess
           all == \A i \in 1 .. Len(heard) : Heeded(s, heard[i])
<1>1. PICK f : Stepping(f, m, heard, last) /\ HearDatagrams(m, heard) = f[last]
    BY DatagramsStep
<1> DEFINE Good(i) == /\ Able(f[i]) /\ Wider(s, f[i].sess)
                      /\ Learned(s, f[i].sess, made)
                      /\ all => Gone(s, f[i].sess)
                      /\ all /\ Gapless(s) => Gapless(f[i].sess)
           P == {i \in 0 .. last : Good(i)}
<1>2. \A i \in 0 .. last : f[i] = IF i = 0 THEN m ELSE HearDatagram(f[i - 1], heard[i])
    BY <1>1 DEF Stepping
<1>9. Fit(s)
    BY DEF Able
<1>3. 0 \in P
    <2>1. 0 \in 0 .. last /\ f[0] = m
        BY <1>2
    <2>2. Wider(s, s) /\ Gone(s, s) /\ Learned(s, s, made)
        BY <1>9, WiderAtOnce DEF Gone, Learned
    <2> QED
        BY <2>1, <2>2
<1>4. ASSUME NEW i \in 0 .. last - 1, i \in P
      PROVE  i + 1 \in P
    <2>1. /\ i + 1 \in 0 .. last /\ i + 1 # 0 /\ i + 1 - 1 = i /\ i + 1 \in 1 .. last
        OBVIOUS
    <2>2. Good(i) /\ f[i + 1] = HearDatagram(f[i], heard[i + 1])
        BY <1>2, <1>4, <2>1
    <2>3. Truthful(heard[i + 1], made) /\ (all => Heeded(s, heard[i + 1]))
        BY <2>1
    <2> DEFINE x == f[i]
               d == heard[i + 1]
               y == f[i + 1]
    <2>4. Able(x) /\ Truthful(d, made) /\ y = HearDatagram(x, d)
        BY <2>2, <2>3
    <2>8. /\ Wider(s, x.sess)
          /\ Learned(s, x.sess, made)
          /\ all => Gone(s, x.sess)
          /\ all /\ Gapless(s) => Gapless(x.sess)
          /\ all => Heeded(s, d)
        BY <2>2, <2>3
    <2> HIDE DEF x, d, y, s, all
    <2>5. /\ Fit(y.sess) /\ Wider(x.sess, y.sess)
          /\ Learned(x.sess, y.sess, made)
          /\ Heeded(x.sess, d) => Gone(x.sess, y.sess)
          /\ Heeded(x.sess, d) /\ Gapless(x.sess) => Gapless(y.sess)
        BY <2>4, DatagramWider
    <2>9. Able(y) /\ Fit(x.sess)
        BY <2>4, DatagramFit DEF Able
    <2>6. all => Heeded(x.sess, d)
        BY <1>9, <2>4, <2>8, <2>9, HeededLater
    <2>7. Wider(s, y.sess)
        BY <1>9, <2>5, <2>8, <2>9, WiderTwice
    <2>10. all => Gone(s, y.sess)
        BY <2>5, <2>6, <2>8 DEF Gone, Wider
    <2>12. Learned(s, y.sess, made)
        BY <2>5, <2>8 DEF Learned
    <2>11. Good(i + 1)
        BY <2>5, <2>6, <2>7, <2>8, <2>9, <2>10, <2>12 DEF y
    <2> QED
        BY <2>1, <2>11
<1> HIDE DEF P
<1>5. 0 .. last \subseteq P
    <2> HIDE DEF last
    <2>1. last \in Nat
        BY DEF last
    <2> QED
        BY <1>3, <1>4, <2>1, StepByStep
<1>6. Good(last)
    BY <1>5 DEF P
<1>7. Fit(f[last].sess)
    BY <1>6 DEF Able
<1> QED
    BY <1>1, <1>6, <1>7

LEMMA HearWider ==
    ASSUME NEW p, Able(peer[p]), NEW made, Making(made), NEW heard, Len(heard) \in Nat,
           \A i \in 1 .. Len(heard) : Truthful(heard[i], made), NEW upto
    PROVE  LET s == peer[p].sess
               n == Hear(p, heard, upto)
               r == n.sess
               all == \A i \in 1 .. Len(heard) : Heeded(s, heard[i])
           IN  /\ Able(n) /\ Fit(r) /\ Wider(s, r)
               /\ Learned(s, r, made)
               /\ all => Gone(s, r)
               /\ all /\ Gapless(s) => Gapless(r)
<1> DEFINE m == peer[p]
           x == HearDatagrams(m, heard)
           n == Hear(p, heard, upto)
<1>1. Able(x)
    BY DatagramsFit
<1>2. n = HearDigests(x, p, upto)
    BY DEF Hear
<1> HIDE DEF x, n
<1>3. n.sess = x.sess
    BY <1>1, <1>2 DEF HearDigests, Able, MachineFields
<1>4. Able(n)
    BY HearFit DEF n
<1> HIDE DEF m
<1>5. LET s == m.sess
          r == x.sess
          all == \A i \in 1 .. Len(heard) : Heeded(s, heard[i])
      IN  /\ Fit(r) /\ Wider(s, r)
          /\ Learned(s, r, made)
          /\ all => Gone(s, r)
          /\ all /\ Gapless(s) => Gapless(r)
    <2>1. Able(m)
        BY DEF m
    <2> QED
        BY <2>1, DatagramsWider DEF x
<1> QED
    BY <1>3, <1>4, <1>5 DEF m, n

LEMMA PressedWider ==
    ASSUME NEW m, Able(m), NEW p \in Players, NEW v \in Input, p \notin DOMAIN m.sess.absent
    PROVE  LET s == m.sess
               n == m.sess.next
               r == Pressed(p, m, v).sess
           IN  /\ Fit(r) /\ Wider(s, r) /\ n \in Nat \ {0}
               /\ \A q \in Players \ {p} : NewestOf(r, q) = NewestOf(s, q)
               /\ NewestOf(r, p) \in {NewestOf(s, p), n} /\ n <= NewestOf(r, p)
               /\ n \in DOMAIN r.arrived[p]
               /\ NewestOf(s, p) = n - 1 /\ Gapless(s) => Gapless(r)
<1> DEFINE s == m.sess
           n == m.sess.next
           r == SubmitTo(s, p, n, v)
<1>1. DOMAIN m = MachineFields /\ Fit(s)
    BY DEF Able
<1>2. Pressed(p, m, v).sess = r
    <2> HIDE DEF r
    <2>1. Pressed(p, m, v) = [m EXCEPT !.mine = Put(@, n, v), !.sess = r]
        BY DEF Pressed, r
    <2> QED
        BY <1>1, <2>1 DEF MachineFields
<1> HIDE DEF s
<1>3. n \in Nat \ {0} /\ n = s.next
    BY <1>1, FitNumbers DEF s
<1> HIDE DEF n
<1>4. /\ Wider(s, r)
      /\ \A q \in Players \ {p} : NewestOf(r, q) = NewestOf(s, q)
      /\ NewestOf(r, p) \in {NewestOf(s, p), n}
      /\ p \notin DOMAIN s.absent /\ n <= s.next + Ahead
            => n \in DOMAIN r.arrived[p] /\ n <= NewestOf(r, p)
    BY <1>1, <1>3, SubmitWider
<1>5. Fit(r)
    BY <1>1, <1>3, SubmitFit
<1> HIDE DEF r
<1>6. n \in DOMAIN r.arrived[p] /\ n <= NewestOf(r, p)
    BY <1>3, <1>4, AheadAssumption DEF s
<1>7. ASSUME NewestOf(s, p) = n - 1, Gapless(s)
      PROVE  Gapless(r)
    <2> SUFFICES ASSUME NEW x \in Players, NEW t \in 1 .. NewestOf(r, x)
                 PROVE  BelowRing(r, t) \/ t \in DOMAIN r.arrived[x]
        BY DEF Gapless
    <2>1. BelowRing(r, t) <=> BelowRing(s, t)
        BY <1>4 DEF Wider, BelowRing
    <2>2. CASE t \in 1 .. NewestOf(s, x)
        BY <1>4, <1>7, <2>1, <2>2 DEF Gapless, Wider
    <2>3. CASE t \notin 1 .. NewestOf(s, x)
        <3>1. x = p /\ t = n
            BY <1>3, <1>4, <1>7, <2>3
        <3> QED
            BY <1>6, <3>1
    <2> QED
        BY <2>2, <2>3
<1> QED
    BY <1>2, <1>3, <1>4, <1>5, <1>6, <1>7 DEF s, n

LEMMA RunIs ==
    ASSUME NEW p, NEW heard, NEW upto, NEW v,
           DOMAIN Pressed(p, Hear(p, heard, upto), v) = MachineFields
    PROVE  Exchanged(Moved(p, heard, upto, v)).sess =
               AdvanceOf(Pressed(p, Hear(p, heard, upto), v).sess)
<1> DEFINE x == Pressed(p, Hear(p, heard, upto), v)
           r == AdvanceOf(x.sess)
           ran == Moved(p, heard, upto, v)
           y == [ran EXCEPT !.settled = SettledUpTo(ran)]
<1>1. ran = [x EXCEPT !.sess = r]
    BY DEF Moved
<1> HIDE DEF r, x, ran
<1>2. DOMAIN ran = MachineFields /\ ran.sess = r
    BY <1>1 DEF MachineFields, x
<1>3. DOMAIN y = MachineFields /\ y.sess = r
    BY <1>2 DEF MachineFields
<1> HIDE DEF y
<1>4. CompareClaims(y).sess = y.sess
    BY <1>3 DEF CompareClaims, MachineFields
<1>5. Exchanged(ran) = IF ran.sess.next <= Lag THEN ran ELSE CompareClaims(y)
    BY DEF Exchanged, y
<1> QED
    BY <1>2, <1>3, <1>4, <1>5 DEF r, x, ran

(* What a machine knows as it runs its next tick.                          *)
LEMMA RunWider ==
    ASSUME NEW p \in Players, Able(peer[p]), NEW made, Making(made), NEW heard, Len(heard) \in Nat,
           \A i \in 1 .. Len(heard) : Truthful(heard[i], made), NEW upto, NEW v \in Input,
           NEW later, Extends(made, later), peer[p].sess.next \in DOMAIN later[p],
           DOMAIN made[p] = 1 .. peer[p].sess.next - 1,
           Known(peer[p].sess, made), NewestOf(peer[p].sess, p) = peer[p].sess.next - 1,
           p \notin DOMAIN peer[p].sess.absent
    PROVE  LET s == peer[p].sess
               x == Pressed(p, Hear(p, heard, upto), v).sess
               all == \A i \in 1 .. Len(heard) : Heeded(s, heard[i])
           IN  /\ Fit(x) /\ Wider(s, x)
               /\ Exchanged(Moved(p, heard, upto, v)).sess = AdvanceOf(x)
               /\ Known(x, later) /\ NewestOf(x, p) = s.next
               /\ all => Gone(s, x)
               /\ all /\ Gapless(s) => Gapless(x)
<1> DEFINE s == peer[p].sess
           h == Hear(p, heard, upto)
           r == h.sess
           x == Pressed(p, h, v).sess
           all == \A i \in 1 .. Len(heard) : Heeded(s, heard[i])
<1>1. /\ Able(h) /\ Fit(r) /\ Wider(s, r)
      /\ Learned(s, r, made)
      /\ all => Gone(s, r)
      /\ all /\ Gapless(s) => Gapless(r)
    BY HearWider
<1>13. Known(r, made)
    BY <1>1 DEF Known, Learned
<1>2. /\ DOMAIN made[p] = 1 .. s.next - 1 /\ Fit(s) /\ s.next \in Nat \ {0}
      /\ NewestOf(s, p) = s.next - 1 /\ s.next \in DOMAIN later[p]
    BY FitNumbers DEF Able
<1>3. r.next = s.next /\ r.absent = s.absent /\ p \notin DOMAIN r.absent
    BY <1>1 DEF Wider
<1> HIDE DEF h
<1>4. /\ Fit(x) /\ Wider(r, x)
      /\ \A q \in Players \ {p} : NewestOf(x, q) = NewestOf(r, q)
      /\ NewestOf(x, p) \in {NewestOf(r, p), r.next} /\ r.next <= NewestOf(x, p)
      /\ NewestOf(r, p) = r.next - 1 /\ Gapless(r) => Gapless(x)
    BY <1>1, <1>3, PressedWider
<1>5. DOMAIN Pressed(p, h, v) = MachineFields
    BY <1>1, PressedFit DEF Able
<1>6. Exchanged(Moved(p, heard, upto, v)).sess = AdvanceOf(x)
    BY <1>5, RunIs DEF h
<1> HIDE DEF s, r, x, all
<1>7. NewestOf(r, p) = s.next - 1
    <2>1. NewestOf(s, p) <= NewestOf(r, p) /\ NewestOf(r, p) \in Nat
        BY <1>1 DEF Wider, Fit
    <2>2. NewestOf(r, p) \in (1 .. s.next - 1) \union {0}
        BY <1>2, <1>13 DEF Known
    <2> QED
        BY <1>2, <2>1, <2>2
<1>8. NewestOf(x, p) = s.next
    BY <1>2, <1>3, <1>4, <1>7
<1>9. Known(x, later)
    <2>1. \A q \in Players : DOMAIN made[q] \subseteq DOMAIN later[q]
        BY DEF Extends
    <2> QED
        BY <1>2, <1>4, <1>8, <1>13, <2>1 DEF Known
<1>10. Wider(s, x)
    BY <1>1, <1>2, <1>4, WiderTwice
<1>11. all => Gone(s, x)
    <2>1. DOMAIN s.absent \subseteq Players
        BY <1>2, FitNumbers
    <2> QED
        BY <1>1, <1>3, <1>4, <2>1 DEF Gone
<1>12. all /\ Gapless(s) => Gapless(x)
    BY <1>1, <1>3, <1>4, <1>7
<1> QED
    BY <1>4, <1>6, <1>8, <1>9, <1>10, <1>11, <1>12 DEF s, x, all, h

LEMMA AdvanceWide ==
    ASSUME NEW s, Fit(s)
    PROVE  LET r == AdvanceOf(s)
           IN  /\ Fit(r) /\ r.next = s.next + 1 /\ r.absent = s.absent
               /\ \A q \in Players : NewestOf(r, q) = NewestOf(s, q)
               /\ Gapless(s) => Gapless(r)
               /\ SatOut(s, Due(s)) => SatOut(r, Due(r))
<1> DEFINE r == AdvanceOf(s)
<1>1. /\ Resting(r)
      /\ s.next \in Nat \ {0} /\ r.next = s.next + 1
      /\ r.absent = s.absent /\ r.newest = s.newest
      /\ SatOut(s, Due(s)) => SatOut(r, Due(r))
      /\ DOMAIN r.ring \subseteq DOMAIN s.ring \union {s.next}
      /\ \A p \in Players : \A t \in DOMAIN s.arrived[p] : t \in DOMAIN r.arrived[p] \/ BelowRing(r, t)
    BY AdvanceKeeps DEF Fit
<1>2. Fit(r)
    BY AdvanceFit
<1> HIDE DEF r
<1>3. \A q \in Players : NewestOf(r, q) = NewestOf(s, q)
    BY <1>1 DEF NewestOf
<1>4. DOMAIN r.ring = RingTicks(s.next + 1) /\ DOMAIN s.ring = RingTicks(s.next)
    BY <1>1, <1>2, FitNumbers
<1>5. ASSUME NEW t \in Nat, BelowRing(s, t)
      PROVE  BelowRing(r, t)
    <2>1. PICK e \in DOMAIN s.ring : t < e
        BY <1>5 DEF BelowRing
    <2>2. t < s.next
        BY <1>1, <1>4, <2>1 DEF RingTicks
    <2>3. s.next \in DOMAIN r.ring
        BY <1>1, <1>4, DepthAssumption DEF RingTicks
    <2> QED
        BY <1>1, <1>5, <2>2, <2>3 DEF BelowRing
<1>6. Gapless(s) => Gapless(r)
    <2> SUFFICES ASSUME Gapless(s), NEW x \in Players, NEW t \in 1 .. NewestOf(s, x)
                 PROVE  BelowRing(r, t) \/ t \in DOMAIN r.arrived[x]
        BY <1>3 DEF Gapless
    <2>1. t \in Nat /\ (BelowRing(s, t) \/ t \in DOMAIN s.arrived[x])
        BY DEF Gapless
    <2> QED
        BY <1>1, <1>5, <2>1
<1> QED
    BY <1>1, <1>2, <1>3, <1>6 DEF r

(* Pacing keeps the first input missing of a player where the ring can     *)
(* still answer for it.                                                    *)
Within(s, q) == s.next > 1 => s.next <= NewestOf(s, q) + Leeway + 1

LEMMA WithinTheRing ==
    ASSUME NEW s, Fit(s), NEW q \in Players, Within(s, q)
    PROVE  ~BelowRing(s, NewestOf(s, q) + 1)
<1> DEFINE from == NewestOf(s, q) + 1
<1>1. s.next \in Nat \ {0} /\ DOMAIN s.ring = RingTicks(s.next) /\ from \in Nat \ {0}
      /\ NewestOf(s, q) \in Nat
    BY FitNumbers DEF Fit
<1>2. Leeway \in Int /\ Leeway < Depth /\ Depth \in Nat \ {0}
    BY DepthAssumption, PacingAssumption DEF Leeway
<1>3. s.next > 1 => s.next <= from + Leeway
    BY <1>1, <1>2 DEF Within
<1> HIDE DEF from
<1>4. CASE s.next = 1
    BY <1>1, <1>4 DEF BelowRing, RingTicks
<1>5. CASE s.next > 1 /\ from >= s.next - 1
    <2>1. s.next - 1 \in DOMAIN s.ring
        BY <1>1, <1>2, <1>5 DEF RingTicks
    <2> QED
        BY <1>1, <1>5, <2>1 DEF BelowRing, from
<1>6. CASE s.next > 1 /\ from < s.next - 1
    <2>1. from \in DOMAIN s.ring
        BY <1>1, <1>2, <1>3, <1>6 DEF RingTicks
    <2> QED
        BY <1>1, <2>1 DEF BelowRing, from
<1> QED
    BY <1>1, <1>4, <1>5, <1>6

LEMMA SetAbsentWide ==
    ASSUME NEW s, Fit(s), NEW q \in Players, Within(s, q), NEW from \in Nat, from = NewestOf(s, q) + 1
    PROVE  LET r == SetAbsentOn(s, q, from)
           IN  /\ Fit(r) /\ r.next = s.next /\ r.ring = s.ring
               /\ r.absent = Put(s.absent, q, from)
               /\ \A x \in Players : NewestOf(r, x) = NewestOf(s, x)
               /\ Gapless(s) => Gapless(r)
               /\ SatOut(s, Due(s)) => SatOut(r, Due(r))
<1> DEFINE r == SetAbsentOn(s, q, from)
           left == [s EXCEPT !.absent = Put(@, q, from),
                             !.arrived[q] = Restrict(@, {t \in DOMAIN @ : t < from})]
           wrong == {t \in DOMAIN s.used[q] : t >= from /\ s.used[q][t] # Nil}
<1>1. /\ IsSession(s) /\ s.next \in Nat \ {0} /\ DOMAIN s = Fields
      /\ DOMAIN s.ring = RingTicks(s.next) /\ DOMAIN s.ring \subseteq Nat
      /\ s.dirty \in Nat \union {NoTick} /\ DOMAIN s.arrived = Players
      /\ \A x \in Players : NewestOf(s, x) \in Nat
      /\ DOMAIN s.used[q] \subseteq Nat /\ RingTicks(s.next) \subseteq DOMAIN s.used[q]
    BY FitNumbers DEF IsSession, IsJournal, Fit, Resting, Shaped
<1>2. from \in Nat \ {0} /\ from \in Nat
    BY <1>1
<1>3. /\ IsSession(r)
      /\ r.next = s.next /\ r.ring = s.ring /\ r.used = s.used
      /\ r.absent = Put(s.absent, q, from)
      /\ s.dirty # NoTick => r.dirty # NoTick /\ r.dirty <= s.dirty
    BY <1>1, <1>2, SetAbsentFrame
<1>4. Fit(r)
    BY <1>2, SetAbsentFit
<1>5. ~BelowRing(s, from)
    BY WithinTheRing
<1>6. /\ left.newest = s.newest /\ DOMAIN left = Fields /\ left.ring = s.ring
      /\ left.dirty = s.dirty
      /\ left.arrived = [s.arrived EXCEPT ![q] = Restrict(@, {t \in DOMAIN @ : t < from})]
    BY <1>1 DEF Fields
<1>7. r = IF wrong = {} THEN left ELSE MarkDirty(left, Min(wrong))
    BY DEF SetAbsentOn
<1> HIDE DEF left, r
<1>8. r.newest = s.newest /\ r.arrived = left.arrived
    <2> HIDE DEF wrong
    <2> QED
        BY <1>6, <1>7 DEF MarkDirty, Fields
<1>9. \A x \in Players : NewestOf(r, x) = NewestOf(s, x)
    BY <1>8 DEF NewestOf
<1>10. wrong # {} => /\ Min(wrong) \in wrong /\ \A x \in wrong : Min(wrong) <= x
    <2>1. wrong \in SUBSET Nat
        BY <1>1
    <2> HIDE DEF wrong
    <2> QED
        BY <2>1, MinOfNats
<1>11. wrong # {} => r.dirty \in Nat /\ r.dirty <= Min(wrong)
    <2> SUFFICES ASSUME wrong # {}
                 PROVE  r.dirty \in Nat /\ r.dirty <= Min(wrong)
        OBVIOUS
    <2> DEFINE lo == Min(wrong)
    <2>1. lo \in Nat /\ lo >= from
        BY <1>1, <1>10
    <2>2. r = MarkDirty(left, lo)
        BY <1>7
    <2> HIDE DEF lo, wrong
    <2>3. ~BelowRing(left, lo)
        <3>1. DOMAIN s.ring # {} => \E e \in DOMAIN s.ring : ~(from < e)
            BY <1>5 DEF BelowRing
        <3>2. DOMAIN s.ring # {} => \E e \in DOMAIN left.ring : ~(lo < e)
            BY <1>1, <1>2, <1>6, <2>1, <3>1
        <3> QED
            BY <1>6, <3>2 DEF BelowRing
    <2>4. r.dirty = IF left.dirty = NoTick \/ lo < left.dirty THEN lo ELSE left.dirty
        BY <1>6, <2>2, <2>3 DEF MarkDirty, Fields
    <2> QED
        BY <1>1, <1>6, <2>1, <2>4 DEF lo
<1>12. Gapless(s) => Gapless(r)
    <2> SUFFICES ASSUME Gapless(s), NEW x \in Players, NEW t \in 1 .. NewestOf(s, x)
                 PROVE  BelowRing(r, t) \/ t \in DOMAIN r.arrived[x]
        BY <1>9 DEF Gapless
    <2>1. BelowRing(s, t) \/ t \in DOMAIN s.arrived[x]
        BY DEF Gapless
    <2>2. CASE BelowRing(s, t)
        BY <1>3, <2>2 DEF BelowRing
    <2>3. CASE t \in DOMAIN s.arrived[x] /\ x # q
        BY <1>1, <1>6, <1>8, <2>3
    <2>4. CASE t \in DOMAIN s.arrived[x] /\ x = q
        <3>1. t < from
            BY <1>1, <2>4
        <3>2. r.arrived[q] = Restrict(s.arrived[q], {u \in DOMAIN s.arrived[q] : u < from})
            BY <1>1, <1>6, <1>8
        <3> QED
            BY <2>4, <3>1, <3>2 DEF Restrict
    <2> QED
        BY <2>1, <2>2, <2>3, <2>4
<1>13. SatOut(s, Due(s)) => SatOut(r, Due(r))
    <2> SUFFICES ASSUME SatOut(s, Due(s)), NEW x \in DOMAIN r.absent, NEW u \in DOMAIN r.ring,
                        r.absent[x] <= u, u < Due(r)
                 PROVE  r.used[x][u] = Nil
        BY DEF SatOut
    <2>1. u \in Nat /\ u < s.next /\ u \in DOMAIN s.ring
        BY <1>1, <1>3 DEF RingTicks
    <2>2. u < Due(s)
        <3>1. r.dirty \in Nat \union {NoTick}
            BY <1>3 DEF IsSession
        <3> QED
            BY <1>1, <1>3, <2>1, <3>1, DueEarlier
    <2>3. CASE x # q
        <3>1. x \in DOMAIN s.absent /\ r.absent[x] = s.absent[x]
            BY <1>3, <2>3 DEF Put
        <3> QED
            BY <1>3, <2>1, <2>2, <3>1 DEF SatOut
    <2>4. CASE x = q
        <3>1. u >= from /\ u \in DOMAIN s.used[q]
            BY <1>1, <1>2, <1>3, <2>1, <2>4 DEF Put
        <3>2. ASSUME s.used[q][u] # Nil
              PROVE  FALSE
            <4>1. u \in wrong
                BY <3>1, <3>2
            <4>2. Min(wrong) \in wrong /\ Min(wrong) <= u /\ r.dirty \in Nat /\ r.dirty <= Min(wrong)
                BY <1>10, <1>11, <4>1
            <4>3. Min(wrong) \in Nat
                BY <1>1, <4>2
            <4>4. r.dirty <= u
                BY <2>1, <4>2, <4>3
            <4> QED
                BY <2>1, <4>2, <4>4 DEF Due, NoTick
        <3> QED
            BY <1>3, <2>4, <3>2
    <2> QED
        BY <2>3, <2>4
<1> QED
    BY <1>3, <1>4, <1>9, <1>12, <1>13 DEF r

(* A session once those of a set are given up on.                          *)
Parted(s, r, left) ==
    /\ r.next = s.next /\ r.ring = s.ring
    /\ \A q \in Players : NewestOf(r, q) = NewestOf(s, q)
    /\ DOMAIN r.absent = DOMAIN s.absent \union left
    /\ \A q \in left : r.absent[q] = NewestOf(s, q) + 1
    /\ \A q \in DOMAIN s.absent \ left : r.absent[q] = s.absent[q]
    /\ Gapless(s) => Gapless(r)
    /\ SatOut(s, Due(s)) => SatOut(r, Due(r))

LEMMA DepartedWide ==
    ASSUME NEW m, NEW p, Crewed(m, p), NEW q \in Players, Within(m.sess, q)
    PROVE  Parted(m.sess, Departed(m, q).sess, {q})
<1> DEFINE s == m.sess
           from == FirstMissing(s, q)
           r == SetAbsentOn(s, q, from)
<1>1. Fit(s) /\ DOMAIN m = MachineFields
    BY CrewedNumbers
<1>2. from = NewestOf(s, q) + 1
    BY DEF FirstMissing
<1> HIDE DEF from, r
<1>3. Departed(m, q).sess = r
    BY <1>1 DEF Departed, MachineFields, r, from
<1> HIDE DEF s
<1>4. /\ r.next = s.next /\ r.ring = s.ring
      /\ r.absent = Put(s.absent, q, from)
      /\ \A x \in Players : NewestOf(r, x) = NewestOf(s, x)
      /\ Gapless(s) => Gapless(r)
      /\ SatOut(s, Due(s)) => SatOut(r, Due(r))
    <2>1. Within(s, q)
        BY DEF s
    <2>2. from \in Nat
        BY <1>1, <1>2 DEF Fit
    <2> QED
        BY <1>1, <1>2, <2>1, <2>2, SetAbsentWide DEF r
<1>5. /\ DOMAIN r.absent = DOMAIN s.absent \union {q} /\ r.absent[q] = from
      /\ \A x \in DOMAIN s.absent \ {q} : r.absent[x] = s.absent[x]
    BY <1>4 DEF Put
<1> QED
    BY <1>2, <1>3, <1>4, <1>5 DEF Parted, s

LEMMA AllDepartedWide ==
    ASSUME NEW m, NEW p, Crewed(m, p), NEW gone, Len(gone) \in Nat,
           \A i \in 1 .. Len(gone) : gone[i] \in Players /\ Within(m.sess, gone[i])
    PROVE  Parted(m.sess, AllDeparted(m, gone).sess, {gone[i] : i \in 1 .. Len(gone)})
<1> DEFINE last == Len(gone)
           s == m.sess
           Left(i) == {gone[j] : j \in 1 .. i}
<1>1. PICK f : Parting(f, m, gone, last) /\ AllDeparted(m, gone) = f[last]
    BY DepartedPart
<1> DEFINE Good(i) == Crewed(f[i], p) /\ Parted(s, f[i].sess, Left(i))
           P == {i \in 0 .. last : Good(i)}
<1>2. \A i \in 0 .. last : f[i] = IF i = 0 THEN m ELSE Departed(f[i - 1], gone[i])
    BY <1>1 DEF Parting
<1>3. 0 \in P
    <2>1. 0 \in 0 .. last /\ f[0] = m /\ Left(0) = {}
        BY <1>2
    <2>2. Parted(s, s, {})
        BY DEF Parted
    <2> QED
        BY <2>1, <2>2
<1>4. ASSUME NEW i \in 0 .. last - 1, i \in P
      PROVE  i + 1 \in P
    <2>1. i + 1 \in 0 .. last /\ i + 1 # 0 /\ i + 1 - 1 = i /\ i + 1 \in 1 .. last
        OBVIOUS
    <2>2. Good(i) /\ f[i + 1] = Departed(f[i], gone[i + 1])
        BY <1>2, <1>4, <2>1
    <2>3. gone[i + 1] \in Players /\ Within(s, gone[i + 1])
        BY <2>1
    <2>4. Left(i + 1) = Left(i) \union {gone[i + 1]}
        <3>1. \A j \in 1 .. i + 1 : j \in 1 .. i \/ j = i + 1
            OBVIOUS
        <3>2. \A j \in 1 .. i : j \in 1 .. i + 1
            OBVIOUS
        <3> QED
            BY <2>1, <3>1, <3>2
    <2>5. Left(i) \subseteq Players
        BY <2>1
    <2> DEFINE x == f[i]
               q == gone[i + 1]
               y == f[i + 1]
               S == Left(i)
    <2>6. Crewed(x, p) /\ q \in Players /\ y = Departed(x, q) /\ Parted(s, x.sess, S)
        BY <2>2, <2>3
    <2> HIDE DEF x, q, y, S, Left, s
    <2>7. Within(x.sess, q)
        BY <2>3, <2>6 DEF Parted, Within, q
    <2>8. Parted(x.sess, y.sess, {q})
        BY <2>6, <2>7, DepartedWide
    <2>9. Crewed(y, p)
        BY <2>6, DepartedIs
    <2>10. Parted(s, y.sess, S \union {q})
        <3> DEFINE z == x.sess
                   r == y.sess
        <3>1. Parted(s, z, S) /\ Parted(z, r, {q}) /\ q \in Players
            BY <2>6, <2>8
        <3> HIDE DEF z, r
        <3>2. /\ DOMAIN r.absent = DOMAIN s.absent \union (S \union {q})
              /\ r.absent[q] = NewestOf(s, q) + 1
            BY <3>1 DEF Parted
        <3>3. \A u \in S \ {q} : r.absent[u] = NewestOf(s, u) + 1
            BY <3>1 DEF Parted
        <3>4. \A u \in DOMAIN s.absent \ (S \union {q}) : r.absent[u] = s.absent[u]
            BY <3>1 DEF Parted
        <3>5. /\ r.next = s.next /\ r.ring = s.ring
              /\ \A u \in Players : NewestOf(r, u) = NewestOf(s, u)
              /\ Gapless(s) => Gapless(r)
              /\ SatOut(s, Due(s)) => SatOut(r, Due(r))
            BY <3>1 DEF Parted
        <3>6. Parted(s, r, S \union {q})
            BY <3>2, <3>3, <3>4, <3>5 DEF Parted
        <3> QED
            BY <3>6 DEF r
    <2>11. Good(i + 1)
        BY <2>4, <2>9, <2>10 DEF y, S, q
    <2> QED
        BY <2>1, <2>11
<1> HIDE DEF P
<1>5. 0 .. last \subseteq P
    <2> HIDE DEF last
    <2>1. last \in Nat
        BY DEF last
    <2> QED
        BY <1>3, <1>4, <2>1, StepByStep
<1>6. Good(last)
    <2> HIDE DEF Good, last
    <2>1. last \in 0 .. last
        BY DEF last
    <2> QED
        BY <1>5, <2>1 DEF P
<1> QED
    BY <1>1, <1>6

(* What a guest is told of others leaves what it heard of the host.        *)
SameOfHost(s, r) == r.next = s.next /\ NewestOf(r, Host) = NewestOf(s, Host)

LEMMA SetAbsentNewest ==
    ASSUME NEW s, Fit(s), NEW q \in Players, NEW from \in Nat
    PROVE  LET r == SetAbsentOn(s, q, from)
           IN  r.next = s.next /\ r.newest = s.newest
<1> DEFINE r == SetAbsentOn(s, q, from)
           left == [s EXCEPT !.absent = Put(@, q, from),
                             !.arrived[q] = Restrict(@, {t \in DOMAIN @ : t < from})]
<1>1. DOMAIN s = Fields
    BY FitNumbers
<1>2. left.newest = s.newest /\ left.next = s.next /\ DOMAIN left = Fields
    BY <1>1 DEF Fields
<1>3. \E t : r = left \/ r = MarkDirty(left, t)
    BY DEF SetAbsentOn
<1> HIDE DEF left, r
<1> QED
    BY <1>2, <1>3 DEF MarkDirty, Fields, r

LEMMA NoticedWide ==
    ASSUME NEW m, NEW p, Crewed(m, p), NEW notice, IsNotice(notice)
    PROVE  SameOfHost(m.sess, Noticed(m, notice).sess)
<1> DEFINE s == m.sess
           d == [player |-> notice.slot, first |-> notice.first, values |-> notice.values]
           b == notice.from - 1
           q == notice.slot
           from == notice.from
           F(f) == f = [t \in notice.first - 1 .. notice.from - 1 |->
                          IF t = notice.first - 1 THEN m.sess
                          ELSE Bind(f[t - 1], LAMBDA x : SubmitTo(x, notice.slot, t, notice.values[t]))]
           passed == CHOOSE f : F(f)
           n == Noticed(m, notice)
<1>1. /\ q \in Players /\ q # Host /\ from \in Nat \ {0} /\ b \in Nat
      /\ d.player = q
      /\ d.first \in Nat \ {0} /\ d.first - 1 <= b
      /\ \A t \in d.first .. b : d.values[t] \in Input
    BY DEF IsNotice, Guests
<1>2. Fit(s) /\ DOMAIN m = MachineFields
    BY CrewedNumbers
<1>3. \A x, t : (CHOOSE y \in {SubmitTo(z, notice.slot, t, notice.values[t]) : z \in {x}} : TRUE)
                  = SubmitTo(x, notice.slot, t, notice.values[t])
    OBVIOUS
<1>4. \A f : F(f) <=> Feeding(f, s, d, b)
    BY <1>3 DEF Feeding, Bind
<1>5. n = [m EXCEPT !.sess = SetAbsentOn(passed[b], q, from)]
    BY DEF Noticed, Bind
<1> HIDE DEF F, n, s, d, b, q, from
<1>6. \E f : Feeding(f, s, d, b)
    BY <1>1, FeedingExists
<1>7. F(passed)
    BY <1>4, <1>6
<1>8. Feeding(passed, s, d, b)
    BY <1>4, <1>7
<1> HIDE DEF passed
<1> DEFINE x == passed[b]
           r == SetAbsentOn(x, q, from)
<1>9. Fit(x) /\ SameOfHost(s, x)
    <2>1. CASE d.first <= b
        <3>1. Fit(x) /\ Fed(s, x, d, b)
            BY <1>1, <1>2, <1>8, <2>1, FedWider
        <3>2. Host \in Players \ {d.player}
            BY <1>1, HostAssumption
        <3> QED
            BY <3>1, <3>2 DEF Fed, Wider, SameOfHost
    <2>2. CASE ~(d.first <= b)
        <3>1. b \in d.first - 1 .. b /\ b = d.first - 1
            BY <1>1, <2>2
        <3>2. x = s
            BY <1>8, <3>1 DEF Feeding
        <3> QED
            BY <1>2, <3>2 DEF SameOfHost
    <2> QED
        BY <2>1, <2>2
<1> HIDE DEF x
<1>10. r.next = x.next /\ r.newest = x.newest
    BY <1>1, <1>9, SetAbsentNewest
<1>11. n = [m EXCEPT !.sess = r]
    BY <1>5 DEF x
<1> HIDE DEF r
<1>12. n.sess = r
    BY <1>2, <1>11 DEF MachineFields
<1>13. SameOfHost(s, r)
    BY <1>9, <1>10 DEF SameOfHost, NewestOf
<1> QED
    BY <1>12, <1>13 DEF n, s

LEMMA AllNoticedWide ==
    ASSUME NEW m, NEW p, Crewed(m, p), NEW a \in Nat, NEW n \in Nat, a <= n,
           \A i \in 1 .. n : IsNotice(notices[i])
    PROVE  SameOfHost(m.sess, AllNoticed(m, a, n).sess)
<1> DEFINE s == m.sess
<1>1. PICK f : Noticing(f, m, a, n) /\ AllNoticed(m, a, n) = f[n]
    BY NoticedPass
<1> DEFINE Good(i) == Crewed(f[i], p) /\ SameOfHost(s, f[i].sess)
           P == {k \in 0 .. n - a : Good(a + k)}
           c == n - a
<1>2. \A i \in a .. n : f[i] = IF i = a THEN m ELSE Noticed(f[i - 1], notices[i])
    BY <1>1 DEF Noticing
<1>3. 0 \in P
    <2>1. 0 \in 0 .. n - a /\ f[a] = m /\ a + 0 = a
        BY <1>2
    <2>2. SameOfHost(s, s)
        BY DEF SameOfHost
    <2> QED
        BY <2>1, <2>2
<1>4. ASSUME NEW k \in 0 .. c - 1, k \in P
      PROVE  k + 1 \in P
    <2> DEFINE i == a + k
    <2>1. /\ i + 1 \in a .. n /\ i + 1 # a /\ i + 1 - 1 = i /\ i + 1 \in 1 .. n
          /\ k + 1 \in 0 .. n - a /\ a + (k + 1) = i + 1 /\ i \in Nat
        OBVIOUS
    <2>2. Good(i)
        BY <1>4
    <2> HIDE DEF i
    <2>3. f[i + 1] = Noticed(f[i], notices[i + 1]) /\ IsNotice(notices[i + 1])
        BY <1>2, <2>1
    <2> DEFINE x == f[i]
               d == notices[i + 1]
               y == f[i + 1]
    <2>5. Crewed(x, p) /\ IsNotice(d) /\ y = Noticed(x, d)
        BY <2>2, <2>3
    <2> HIDE DEF x, d, y
    <2>6. Crewed(y, p) /\ SameOfHost(x.sess, y.sess)
        BY <2>5, NoticedIs, NoticedWide
    <2>7. Good(i + 1)
        BY <2>2, <2>6 DEF x, y, SameOfHost
    <2> QED
        BY <2>1, <2>7
<1> HIDE DEF P
<1>5. c \in Nat /\ a + c = n
    OBVIOUS
<1> HIDE DEF c
<1>6. 0 .. c \subseteq P
    BY <1>3, <1>4, <1>5, StepByStep
<1>7. c \in P
    BY <1>5, <1>6
<1> HIDE DEF Good
<1>8. Good(n)
    BY <1>5, <1>7 DEF P
<1> QED
    BY <1>1, <1>8 DEF Good

(* What pacing grants the tick about to run, of those still playing.       *)
LEMMA LeadOfPresent ==
    ASSUME NEW p \in Players, NEW s, Fit(s), NEW q \in Players \ {p}, q \notin DOMAIN s.absent
    PROVE  Lead(p, s) \in Int /\ s.next - NewestOf(s, q) <= Lead(p, s)
<1> DEFINE others == {x \in Players \ {p} : IsPresent(s, x, s.next)}
           S == {NewestOf(s, x) : x \in others}
           lo == Min(S)
<1>1. q \in others
    BY DEF IsPresent
<1>2. S \in SUBSET Nat /\ s.next \in Nat /\ NewestOf(s, q) \in S
    BY <1>1, FitNumbers DEF Fit
<1>3. Lead(p, s) = s.next - lo
    BY <1>1 DEF Lead
<1> HIDE DEF S
<1>4. lo \in S /\ \A x \in S : lo <= x
    BY <1>2, MinOfNats
<1> HIDE DEF lo
<1>5. lo \in Nat /\ lo <= NewestOf(s, q) /\ NewestOf(s, q) \in Nat
    BY <1>2, <1>4
<1> QED
    BY <1>2, <1>3, <1>5

LEMMA GoesOnWithinLeeway ==
    ASSUME NEW p \in Players, Fit(peer[p].sess), ~ShouldWait(p), NEW q \in Players \ {p},
           q \notin DOMAIN peer[p].sess.absent
    PROVE  peer[p].sess.next <= NewestOf(peer[p].sess, q) + Leeway
<1> DEFINE s == peer[p].sess
<1>1. s.next \in Nat \ {0} /\ NewestOf(s, q) \in Nat
    BY FitNumbers DEF Fit
<1>2. ~(Lead(p, s) >= Depth - Slack)
    BY DEF ShouldWait
<1> HIDE DEF s
<1>3. Lead(p, s) \in Int /\ s.next - NewestOf(s, q) <= Lead(p, s)
    BY LeadOfPresent DEF s
<1>4. s.next <= NewestOf(s, q) + Leeway
    BY <1>1, <1>2, <1>3, DepthAssumption, PacingAssumption DEF Leeway
<1> QED
    BY <1>4 DEF s

-----------------------------------------------------------------------------
(* The world after some ticks, from the rows of inputs they are played     *)
(* with.                                                                   *)
Chain(f, rows, t) ==
    f = [u \in 1 .. t |-> IF u = 1 THEN Start ELSE Step(f[u - 1], rows[u - 1])]

WorldFrom(rows, t) == (CHOOSE f : Chain(f, rows, t))[t]

LEMMA ChainExists ==
    ASSUME NEW rows, NEW n \in Nat
    PROVE  \E f : Chain(f, rows, n + 1)
<1> DEFINE Next1(f, u) == IF u = 1 THEN Start ELSE Step(f[u - 1], rows[u - 1])
           P == {k \in 0 .. n : \E f : Chain(f, rows, k + 1)}
<1>1. 0 \in P
    <2> DEFINE f == [u \in 1 .. 0 + 1 |-> Start]
    <2>1. f = [u \in 1 .. 0 + 1 |-> Next1(f, u)]
        OBVIOUS
    <2>2. Chain(f, rows, 0 + 1)
        BY <2>1 DEF Chain
    <2> HIDE DEF f
    <2> QED
        BY <2>2
<1>2. ASSUME NEW k \in 0 .. n - 1, k \in P
      PROVE  k + 1 \in P
    <2>1. PICK g : Chain(g, rows, k + 1)
        BY <1>2
    <2> DEFINE b == k + 1
               last == Step(g[b], rows[b])
               f == [u \in 1 .. b + 1 |-> IF u = b + 1 THEN last ELSE g[u]]
    <2>2. \A u \in 1 .. b : g[u] = Next1(g, u)
        BY <2>1 DEF Chain
    <2>3. b \in Nat \ {0}
        OBVIOUS
    <2>4. f[b + 1] = last /\ f[b + 1 - 1] = g[b] /\ b + 1 # 1 /\ b + 1 - 1 = b
        OBVIOUS
    <2>5. ASSUME NEW u \in 1 .. b
          PROVE  f[u] = Next1(f, u)
        <3>1. f[u] = g[u] /\ (u # 1 => f[u - 1] = g[u - 1])
            OBVIOUS
        <3> HIDE DEF f, b
        <3> QED
            BY <2>2, <2>5, <3>1
    <2>6. \A u \in 1 .. b + 1 : u = b + 1 \/ u \in 1 .. b
        OBVIOUS
    <2>7. f = [u \in 1 .. b + 1 |-> f[u]]
        OBVIOUS
    <2>8. k + 1 \in 0 .. n
        OBVIOUS
    <2> HIDE DEF f, b
    <2>9. f[b + 1] = Next1(f, b + 1)
        BY <2>3, <2>4 DEF last
    <2>10. \A u \in 1 .. b + 1 : f[u] = Next1(f, u)
        <3> HIDE DEF Next1
        <3> QED
            BY <2>5, <2>6, <2>9
    <2>11. Chain(f, rows, b + 1)
        BY <2>7, <2>10 DEF Chain
    <2> QED
        BY <2>8, <2>11 DEF b
<1> HIDE DEF P
<1>3. 0 .. n \subseteq P
    BY <1>1, <1>2, StepByStep
<1> QED
    BY <1>3 DEF P

(* Where the rows agree, so do the worlds.                                 *)
Agree(rows, others, t) == \A u \in 1 .. t - 1 : rows[u] = others[u]

LEMMA ChainsAgree ==
    ASSUME NEW rows, NEW others, NEW a \in Nat \ {0}, NEW c \in Nat \ {0}, a <= c,
           Agree(rows, others, a),
           NEW f, Chain(f, rows, a), NEW g, Chain(g, others, c)
    PROVE  f[a] = g[a]
<1> DEFINE n == a - 1
           m == c - 1
           P == {k \in 0 .. n : f[k + 1] = g[k + 1]}
<1>5. /\ n \in Nat /\ m \in Nat /\ n <= m /\ n + 1 = a /\ m + 1 = c
      /\ \A u \in 1 .. n : rows[u] = others[u]
    BY DEF Agree
<1>1. /\ \A u \in 1 .. n + 1 : f[u] = IF u = 1 THEN Start ELSE Step(f[u - 1], rows[u - 1])
      /\ \A u \in 1 .. m + 1 : g[u] = IF u = 1 THEN Start ELSE Step(g[u - 1], others[u - 1])
    <2>1. Chain(f, rows, n + 1) /\ Chain(g, others, m + 1)
        BY <1>5
    <2> HIDE DEF n, m
    <2> QED
        BY <2>1 DEF Chain
<1> HIDE DEF n, m
<1>2. 0 \in P
    BY <1>1, <1>5
<1>3. ASSUME NEW k \in 0 .. n - 1, k \in P
      PROVE  k + 1 \in P
    <2> DEFINE u == k + 2
    <2>1. u \in 1 .. n + 1 /\ u \in 1 .. m + 1 /\ u # 1 /\ u - 1 = k + 1 /\ k + 1 \in 1 .. n
          /\ k + 1 + 1 = u /\ k + 1 \in 0 .. n
        BY <1>5
    <2>2. f[k + 1] = g[k + 1]
        BY <1>3
    <2> HIDE DEF u
    <2>3. f[u] = g[u]
        BY <1>1, <1>5, <2>1, <2>2
    <2> QED
        BY <2>1, <2>3
<1> HIDE DEF P
<1>4. 0 .. n \subseteq P
    BY <1>2, <1>3, <1>5, StepByStep
<1> QED
    BY <1>4, <1>5 DEF P

LEMMA WorldFromIs ==
    ASSUME NEW rows, NEW t \in Nat \ {0}
    PROVE  \E f : Chain(f, rows, t) /\ WorldFrom(rows, t) = f[t]
<1>1. t - 1 \in Nat /\ t - 1 + 1 = t
    OBVIOUS
<1>2. \E f : Chain(f, rows, t - 1 + 1)
    BY <1>1, ChainExists
<1>3. \E f : Chain(f, rows, t)
    BY <1>1, <1>2
<1>4. Chain(CHOOSE f : Chain(f, rows, t), rows, t)
    BY <1>3
<1> QED
    BY <1>4 DEF WorldFrom

LEMMA WorldFromSteps ==
    ASSUME NEW rows
    PROVE  /\ WorldFrom(rows, 1) = Start
           /\ \A t \in Nat \ {0} : WorldFrom(rows, t + 1) = Step(WorldFrom(rows, t), rows[t])
<1>1. WorldFrom(rows, 1) = Start
    <2>1. PICK f : Chain(f, rows, 1) /\ WorldFrom(rows, 1) = f[1]
        BY WorldFromIs
    <2> QED
        BY <2>1 DEF Chain
<1>2. ASSUME NEW t \in Nat \ {0}
      PROVE  WorldFrom(rows, t + 1) = Step(WorldFrom(rows, t), rows[t])
    <2>1. PICK f : Chain(f, rows, t) /\ WorldFrom(rows, t) = f[t]
        BY WorldFromIs
    <2>2. PICK g : Chain(g, rows, t + 1) /\ WorldFrom(rows, t + 1) = g[t + 1]
        BY WorldFromIs
    <2>3. Agree(rows, rows, t) /\ t + 1 \in Nat \ {0} /\ t <= t + 1
        BY DEF Agree
    <2>4. f[t] = g[t]
        BY <2>1, <2>2, <2>3, ChainsAgree
    <2>5. t + 1 \in 1 .. t + 1 /\ t + 1 # 1 /\ t + 1 - 1 = t
        OBVIOUS
    <2>6. g[t + 1] = Step(g[t], rows[t])
        BY <2>2, <2>5 DEF Chain
    <2> QED
        BY <2>1, <2>2, <2>4, <2>6
<1> QED
    BY <1>1, <1>2

LEMMA WorldFromSame ==
    ASSUME NEW rows, NEW others, NEW t \in Nat \ {0}, Agree(rows, others, t)
    PROVE  WorldFrom(rows, t) = WorldFrom(others, t)
<1>1. PICK f : Chain(f, rows, t) /\ WorldFrom(rows, t) = f[t]
    BY WorldFromIs
<1>2. PICK g : Chain(g, others, t) /\ WorldFrom(others, t) = g[t]
    BY WorldFromIs
<1> QED
    BY <1>1, <1>2, ChainsAgree

(* The rows of the match are what MatchWorld steps through.                *)
Rows == [t \in Nat |-> [q \in Players |-> Played(q, t)]]

LEMMA MatchWorldIs ==
    ASSUME NEW t \in Nat \ {0}
    PROVE  MatchWorld(t) = WorldFrom(Rows, t)
<1> DEFINE F(f) == f = [u \in 1 .. t |-> IF u = 1 THEN Start
                         ELSE Step(f[u - 1], [q \in Players |-> Played(q, u - 1)])]
           world == CHOOSE f : F(f)
<1>1. MatchWorld(t) = world[t]
    BY DEF MatchWorld
<1>2. \A u \in 1 .. t : u # 1 => Rows[u - 1] = [q \in Players |-> Played(q, u - 1)]
    BY DEF Rows
<1>3. \A f : F(f) <=> Chain(f, Rows, t)
    BY <1>2 DEF Chain
<1> HIDE DEF F
<1>4. PICK f : Chain(f, Rows, t) /\ WorldFrom(Rows, t) = f[t]
    BY WorldFromIs
<1>5. F(world)
    BY <1>3, <1>4
<1>6. Chain(world, Rows, t)
    BY <1>3, <1>5
<1> HIDE DEF world
<1>7. Agree(Rows, Rows, t)
    BY DEF Agree
<1>8. world[t] = f[t]
    BY <1>4, <1>6, <1>7, ChainsAgree
<1> QED
    BY <1>1, <1>4, <1>8

-----------------------------------------------------------------------------
(* A session that runs its next tick: the oldest world it can go back to   *)
(* is the same one, or the next, with the inputs that arrived for it.      *)
LEMMA OldestRuns ==
    ASSUME NEW x, Fit(x), SatOut(x, Due(x)), Gapless(x),
           \A q \in Players : q \notin DOMAIN x.absent => x.next < NewestOf(x, q) + Depth,
           \A q \in DOMAIN x.absent : x.absent[q] = NewestOf(x, q) + 1
    PROVE  LET r == AdvanceOf(x)
               o == OldestTick(x)
           IN  \/ OldestTick(r) = o /\ OldestWorld(r) = OldestWorld(x)
               \/ /\ OldestTick(r) = o + 1 /\ o \in Nat \ {0} /\ Confirmed(x, o)
                  /\ \A q \in Players : IsPresent(x, q, o) => o <= NewestOf(x, q)
                  /\ OldestWorld(r) = Step(OldestWorld(x), ArrivedRow(x, o))
<1> DEFINE r == AdvanceOf(x)
           n == x.next
           o == OldestTick(x)
           Stays == OldestTick(r) = o /\ OldestWorld(r) = OldestWorld(x)
           Settles1 == /\ OldestTick(r) = o + 1 /\ o \in Nat \ {0} /\ Confirmed(x, o)
                       /\ \A q \in Players : IsPresent(x, q, o) => o <= NewestOf(x, q)
                       /\ OldestWorld(r) = Step(OldestWorld(x), ArrivedRow(x, o))
<1>1. n \in Nat \ {0} /\ r.next = n + 1 /\ Fit(r) /\ Resting(x)
    BY AdvanceFit, FitNumbers DEF Fit
<1>2. DOMAIN x.ring = RingTicks(n) /\ DOMAIN r.ring = RingTicks(n + 1)
    BY <1>1, FitNumbers
<1>3. /\ \A t \in DOMAIN r.ring : t < Due(x) => t \in DOMAIN x.ring /\ r.ring[t] = x.ring[t]
      /\ \A t \in DOMAIN r.ring \intersect DOMAIN x.ring : t = Due(x) => r.ring[t] = x.ring[t]
      /\ x.next = 1 => r.ring[1] = Start
    BY <1>1, AdvanceKeeps
<1>4. Due(x) \in DOMAIN x.ring \/ Due(x) = n
    BY <1>1 DEF Resting, Due
<1>5. Depth \in Nat \ {0} /\ \A q \in Players : NewestOf(x, q) \in Nat
    BY DepthAssumption DEF Fit
<1>6. DOMAIN x.absent \subseteq Players
    BY FitNumbers
<1> HIDE DEF r, n, o
<1>14. /\ n > Depth => o = n - Depth
       /\ n <= Depth => o = 1
       /\ n > 1 => o \in DOMAIN x.ring /\ OldestWorld(x) = x.ring[o]
       /\ n = 1 => OldestWorld(x) = Start
    <2>1. x.next \in Nat \ {0} /\ DOMAIN x.ring = RingTicks(x.next)
        BY <1>1, <1>2 DEF n
    <2> QED
        BY <2>1, OldestIs DEF n, o
<1>15. /\ n + 1 > Depth => OldestTick(r) = n + 1 - Depth
       /\ n + 1 <= Depth => OldestTick(r) = 1
       /\ OldestTick(r) \in DOMAIN r.ring /\ OldestWorld(r) = r.ring[OldestTick(r)]
    <2>1. r.next \in Nat \ {0} /\ r.next > 1 /\ DOMAIN r.ring = RingTicks(r.next)
        BY <1>1, <1>2
    <2>2. /\ r.next > Depth => OldestTick(r) = r.next - Depth
          /\ r.next <= Depth => OldestTick(r) = 1
          /\ OldestTick(r) \in DOMAIN r.ring /\ OldestWorld(r) = r.ring[OldestTick(r)]
        BY <2>1, OldestIs
    <2> QED
        BY <1>1, <2>2, DepthAssumption
<1>16. ASSUME n = 1
       PROVE  Stays
    <2>1. o = 1 /\ OldestTick(r) = 1
        BY <1>5, <1>14, <1>15, <1>16
    <2>2. r.ring[1] = Start
        BY <1>3, <1>16 DEF n
    <2> QED
        BY <1>14, <1>15, <1>16, <2>1, <2>2
<1>17. ASSUME n > 1, n <= Depth
       PROVE  Stays
    <2>1. o = 1 /\ OldestTick(r) = 1
        BY <1>1, <1>5, <1>14, <1>15, <1>17
    <2>2. 1 < Due(x) \/ 1 = Due(x)
        BY <1>1, <1>2, <1>4, <1>17 DEF RingTicks
    <2>3. r.ring[1] = x.ring[1]
        BY <1>3, <1>14, <1>15, <1>17, <2>1, <2>2
    <2> QED
        BY <1>14, <1>15, <1>17, <2>1, <2>3
<1>18. ASSUME n > Depth
       PROVE  Settles1
    <2>1. /\ o = n - Depth /\ OldestTick(r) = o + 1 /\ n > 1
          /\ o \in Nat \ {0} /\ o < n
        BY <1>1, <1>5, <1>14, <1>15, <1>18
    <2>2. o \in DOMAIN x.ring /\ o <= Due(x) /\ o + 1 \in DOMAIN r.ring
        <3>1. o \in DOMAIN x.ring /\ o + 1 \in DOMAIN r.ring
            BY <1>14, <1>15, <2>1
        <3>2. \A t \in RingTicks(n) : o <= t
            BY <1>1, <1>5, <2>1 DEF RingTicks
        <3>3. CASE Due(x) = n
            BY <1>1, <2>1, <3>1, <3>3
        <3>4. CASE Due(x) \in DOMAIN x.ring
            BY <1>2, <3>1, <3>2, <3>4
        <3> QED
            BY <1>4, <3>1, <3>3, <3>4
    <2>3. ASSUME NEW q \in Players, IsPresent(x, q, o)
          PROVE  o \in DOMAIN x.arrived[q] /\ o <= NewestOf(x, q)
        <3>1. o \in 1 .. NewestOf(x, q)
            <4>1. CASE q \in DOMAIN x.absent
                <5>1. o < NewestOf(x, q) + 1
                    BY <2>3, <4>1 DEF IsPresent
                <5> QED
                    BY <1>5, <2>1, <5>1
            <4>2. CASE q \notin DOMAIN x.absent
                <5>1. n < NewestOf(x, q) + Depth
                    BY <4>2 DEF n
                <5> QED
                    BY <1>1, <1>5, <2>1, <5>1
            <4> QED
                BY <4>1, <4>2
        <3>2. ~BelowRing(x, o)
            BY <2>1, <2>2 DEF BelowRing
        <3>3. o \in DOMAIN x.arrived[q]
            BY <3>1, <3>2 DEF Gapless
        <3> QED
            BY <1>5, <3>1, <3>3
    <2>4. Confirmed(x, o)
        BY <2>3 DEF Confirmed
    <2>5. r.ring[o + 1] = Step(x.ring[o], ArrivedRow(x, o))
        BY <1>1, <2>2, <2>4, AdvanceSteps DEF r
    <2> QED
        BY <1>14, <1>15, <2>1, <2>3, <2>4, <2>5
<1> QED
    BY <1>1, <1>5, <1>16, <1>17, <1>18 DEF r, o

-----------------------------------------------------------------------------
(* The host's session while guests leave: it knows its own inputs, no      *)
(* guest it still plays with is further behind than pacing lets it be, and *)
(* those who left are absent from the first tick they made no input for.   *)
Steady(s, made) ==
    /\ Known(s, made) /\ NewestOf(s, Host) = s.next - 1
    /\ Host \notin DOMAIN s.absent
    /\ \A q \in Guests : q \notin DOMAIN s.absent => Within(s, q)
    /\ \A q \in DOMAIN s.absent : s.absent[q] = NewestOf(s, q) + 1
    /\ Gapless(s) /\ SatOut(s, Due(s))

(* What is made of each tick is made in order.                             *)
InTurn(made) == \A q \in Players : \E n \in Nat : DOMAIN made[q] = 1 .. n

(* The inputs of the match, as the host has it.                            *)
RowsOf(s, made) ==
    [t \in Nat |-> [q \in Players |-> IF IsPresent(s, q, t) THEN made[q][t] ELSE Nil]]

TrueWorld(s, made) == OldestWorld(s) = WorldFrom(RowsOf(s, made), OldestTick(s))

(* The first tick a player still in the match may be given up on.          *)
OldestIsHeard(s) ==
    \A q \in Players : \A u \in 1 .. OldestTick(s) - 1 : IsPresent(s, q, u) => u <= NewestOf(s, q)

LEMMA LeewayIsLess ==
    Leeway \in Int /\ Leeway + 1 <= Depth /\ Depth \in Nat \ {0}
BY DepthAssumption, PacingAssumption DEF Leeway

LEMMA SteadyHears ==
    ASSUME NEW s, NEW made, Fit(s), Steady(s, made)
    PROVE  OldestIsHeard(s)
<1> SUFFICES ASSUME NEW q \in Players, NEW u \in 1 .. OldestTick(s) - 1, IsPresent(s, q, u)
             PROVE  u <= NewestOf(s, q)
    BY DEF OldestIsHeard
<1> DEFINE n == s.next
           o == OldestTick(s)
           k == NewestOf(s, q)
<1>1. n \in Nat \ {0} /\ k \in Nat /\ DOMAIN s.ring = RingTicks(n)
    BY FitNumbers DEF Fit
<1>2. /\ n > Depth => o = n - Depth
      /\ n <= Depth => o = 1
      /\ o \in Nat \ {0}
    BY <1>1, OldestIs
<1>3. Depth \in Nat \ {0} /\ Leeway \in Int /\ Leeway + 1 <= Depth
    BY LeewayIsLess
<1>4. CASE q \in DOMAIN s.absent
    <2>1. u < s.absent[q] /\ s.absent[q] = k + 1
        BY <1>4 DEF IsPresent, Steady
    <2> HIDE DEF k, o
    <2> QED
        BY <1>1, <1>2, <2>1 DEF k, o
<1>5. CASE q \notin DOMAIN s.absent
    <2>1. q = Host => k = n - 1
        BY DEF Steady
    <2>2. q # Host /\ n > 1 => n <= k + Leeway + 1
        BY <1>5 DEF Steady, Within, Guests
    <2>3. u \in 1 .. o - 1
        OBVIOUS
    <2> HIDE DEF k, o, n
    <2>4. n > Depth /\ u < n - Depth
        BY <1>1, <1>2, <1>3, <2>3
    <2>5. u <= k
        BY <1>1, <1>2, <1>3, <2>1, <2>2, <2>3, <2>4
    <2> QED
        BY <2>5 DEF k
<1> QED
    BY <1>4, <1>5

(* Nothing later changes the inputs of the ticks that are over: an input   *)
(* made stays, and who leaves now is absent from a later tick.             *)
Leaving(s, e) ==
    /\ \A q \in DOMAIN s.absent : q \in DOMAIN e.absent /\ e.absent[q] = s.absent[q]
    /\ \A q \in DOMAIN e.absent \ DOMAIN s.absent :
        e.absent[q] \in Nat /\ e.absent[q] > NewestOf(s, q)
    /\ DOMAIN e.absent \subseteq Players

LEMMA LeavingPresent ==
    ASSUME NEW s, NEW e, Fit(s), Leaving(s, e), NEW q \in Players, NEW u \in Nat,
           IsPresent(s, q, u) => u <= NewestOf(s, q)
    PROVE  IsPresent(e, q, u) <=> IsPresent(s, q, u)
<1>1. NewestOf(s, q) \in Nat
    BY DEF Fit
<1>2. CASE q \in DOMAIN s.absent
    BY <1>2 DEF Leaving, IsPresent
<1>3. CASE q \notin DOMAIN s.absent
    <2>1. IsPresent(s, q, u) /\ u <= NewestOf(s, q)
        BY <1>3 DEF IsPresent
    <2>2. ASSUME q \in DOMAIN e.absent
          PROVE  u < e.absent[q]
        <3>1. e.absent[q] \in Nat /\ e.absent[q] > NewestOf(s, q)
            BY <1>3, <2>2 DEF Leaving
        <3> QED
            BY <1>1, <2>1, <3>1
    <2> QED
        BY <2>1, <2>2 DEF IsPresent
<1> QED
    BY <1>2, <1>3

LEMMA RowsAgree ==
    ASSUME NEW s, NEW e, Fit(s), Leaving(s, e), NEW made, InTurn(made), Known(s, made),
           NEW later, Extends(made, later), OldestIsHeard(s)
    PROVE  Agree(RowsOf(s, made), RowsOf(e, later), OldestTick(s))
<1> DEFINE o == OldestTick(s)
<1>1. s.next \in Nat \ {0} /\ DOMAIN s.ring = RingTicks(s.next)
    BY FitNumbers
<1>2. o \in Nat \ {0}
    BY <1>1, OldestIs
<1>3. ASSUME NEW u \in 1 .. o - 1, NEW q \in Players
      PROVE  (IF IsPresent(s, q, u) THEN made[q][u] ELSE Nil)
             = (IF IsPresent(e, q, u) THEN later[q][u] ELSE Nil)
    <2>1. u \in Nat \ {0} /\ (IsPresent(s, q, u) => u <= NewestOf(s, q))
        BY <1>2, <1>3 DEF OldestIsHeard
    <2>2. IsPresent(e, q, u) <=> IsPresent(s, q, u)
        BY <2>1, LeavingPresent
    <2>3. ASSUME IsPresent(s, q, u)
          PROVE  later[q][u] = made[q][u]
        <3>1. PICK n \in Nat : DOMAIN made[q] = 1 .. n
            BY DEF InTurn
        <3>2. NewestOf(s, q) \in Nat /\ NewestOf(s, q) \in (1 .. n) \union {0}
            BY <3>1 DEF Known, Fit
        <3>3. u \in DOMAIN made[q]
            BY <2>1, <2>3, <3>1, <3>2
        <3> QED
            BY <3>3 DEF Extends
    <2> QED
        BY <2>2, <2>3
<1>4. \A u \in 1 .. o - 1 : u \in Nat
    BY <1>2
<1> HIDE DEF o
<1>5. ASSUME NEW u \in 1 .. o - 1
      PROVE  RowsOf(s, made)[u] = RowsOf(e, later)[u]
    BY <1>3, <1>4 DEF RowsOf
<1> QED
    BY <1>5 DEF Agree, o

-----------------------------------------------------------------------------
(* A frame of the host: what it knows as it ends, once those it gives up   *)
(* on are absent.                                                          *)
LEMMA PartedLeaves ==
    ASSUME NEW s, Fit(s), NEW y, Fit(y), y.absent = s.absent,
           \A q \in Players : NewestOf(s, q) <= NewestOf(y, q),
           NEW left \in SUBSET Guests, left \intersect DOMAIN s.absent = {},
           NEW e, Parted(y, e, left)
    PROVE  Leaving(s, e)
<1>1. DOMAIN s.absent \subseteq Players /\ Guests \subseteq Players
    BY FitNumbers DEF Guests
<1>2. /\ DOMAIN e.absent = DOMAIN s.absent \union left
      /\ \A q \in left : e.absent[q] = NewestOf(y, q) + 1
      /\ \A q \in DOMAIN s.absent \ left : e.absent[q] = s.absent[q]
    BY DEF Parted
<1>3. \A q \in Players : NewestOf(y, q) \in Nat /\ NewestOf(s, q) \in Nat
    BY DEF Fit
<1>4. ASSUME NEW q \in left
      PROVE  e.absent[q] \in Nat /\ e.absent[q] > NewestOf(s, q)
    <2>1. q \in Players /\ e.absent[q] = NewestOf(y, q) + 1
        BY <1>1, <1>2
    <2> QED
        BY <1>3, <2>1
<1>5. \A q \in DOMAIN s.absent : q \notin left /\ q \in DOMAIN e.absent
    BY <1>2
<1>6. \A q \in DOMAIN e.absent \ DOMAIN s.absent : q \in left
    BY <1>2
<1> QED
    BY <1>1, <1>2, <1>4, <1>5, <1>6 DEF Leaving

LEMMA SteadyParted ==
    ASSUME NEW y, Fit(y), NEW later, Known(y, later), NewestOf(y, Host) = y.next - 1,
           Host \notin DOMAIN y.absent,
           \A q \in Guests : q \notin DOMAIN y.absent => Within(y, q),
           \A q \in DOMAIN y.absent : y.absent[q] = NewestOf(y, q) + 1,
           Gapless(y), SatOut(y, Due(y)),
           NEW left \in SUBSET Guests, left \intersect DOMAIN y.absent = {},
           NEW e, Parted(y, e, left)
    PROVE  Steady(e, later)
<1>1. /\ e.next = y.next
      /\ \A q \in Players : NewestOf(e, q) = NewestOf(y, q)
      /\ DOMAIN e.absent = DOMAIN y.absent \union left
      /\ \A q \in left : e.absent[q] = NewestOf(y, q) + 1
      /\ \A q \in DOMAIN y.absent \ left : e.absent[q] = y.absent[q]
      /\ Gapless(e) /\ SatOut(e, Due(e))
    BY DEF Parted
<1>2. DOMAIN y.absent \subseteq Players /\ Guests \subseteq Players /\ Host \in Players /\ Host \notin Guests
    BY FitNumbers, HostAssumption DEF Guests
<1>3. Known(e, later) /\ NewestOf(e, Host) = e.next - 1
    BY <1>1, <1>2 DEF Known
<1>4. Host \notin DOMAIN e.absent
    BY <1>1, <1>2
<1>5. \A q \in Guests : q \notin DOMAIN e.absent => Within(e, q)
    BY <1>1, <1>2 DEF Within
<1>6. \A q \in DOMAIN e.absent : e.absent[q] = NewestOf(e, q) + 1
    BY <1>1, <1>2
<1> QED
    BY <1>1, <1>3, <1>4, <1>5, <1>6 DEF Steady

LEMMA OldestOfRing ==
    ASSUME NEW s, NEW e, e.ring = s.ring
    PROVE  OldestTick(e) = OldestTick(s) /\ OldestWorld(e) = OldestWorld(s)
BY DEF OldestTick, OldestWorld

LEMMA TrueStays ==
    ASSUME NEW s, NEW e, Fit(s), Leaving(s, e), NEW made, InTurn(made), Steady(s, made),
           NEW later, Extends(made, later), TrueWorld(s, made),
           OldestTick(e) = OldestTick(s), OldestWorld(e) = OldestWorld(s)
    PROVE  TrueWorld(e, later)
<1>1. Agree(RowsOf(s, made), RowsOf(e, later), OldestTick(s))
    BY SteadyHears, RowsAgree DEF Steady
<1>2. OldestTick(s) \in Nat \ {0}
    BY FitNumbers, OldestIs
<1>3. WorldFrom(RowsOf(s, made), OldestTick(s)) = WorldFrom(RowsOf(e, later), OldestTick(s))
    BY <1>1, <1>2, WorldFromSame
<1> QED
    BY <1>3 DEF TrueWorld

(* A frame that only reads.                                                *)
LEMMA SteadyPolls ==
    ASSUME NEW s, Fit(s), NEW made, InTurn(made), Steady(s, made), TrueWorld(s, made),
           NEW y, Fit(y), Wider(s, y), Known(y, made), NewestOf(y, Host) = s.next - 1,
           Gone(s, y), Gapless(y),
           NEW left \in SUBSET Guests, left \intersect DOMAIN s.absent = {},
           NEW e, Parted(y, e, left)
    PROVE  Steady(e, made) /\ TrueWorld(e, made) /\ Leaving(s, e)
<1>1. /\ y.next = s.next /\ y.ring = s.ring /\ y.absent = s.absent
      /\ \A q \in Players : NewestOf(s, q) <= NewestOf(y, q)
      /\ SatOut(y, Due(y))
    BY DEF Wider, Steady
<1>2. /\ Host \notin DOMAIN y.absent
      /\ \A q \in DOMAIN y.absent : y.absent[q] = NewestOf(y, q) + 1
    BY <1>1 DEF Steady, Gone
<1>3. ASSUME NEW q \in Guests, q \notin DOMAIN y.absent
      PROVE  Within(y, q)
    <2>1. Within(s, q)
        BY <1>1, <1>3 DEF Steady
    <2>2. /\ NewestOf(s, q) \in Nat /\ NewestOf(y, q) \in Nat /\ NewestOf(s, q) <= NewestOf(y, q)
          /\ s.next \in Nat
        BY <1>1, FitNumbers DEF Fit, Guests
    <2> QED
        BY <1>1, <2>1, <2>2, LeewayIsLess DEF Within
<1>4. Steady(e, made)
    <2>1. NewestOf(y, Host) = y.next - 1 /\ left \intersect DOMAIN y.absent = {}
        BY <1>1
    <2> QED
        BY <1>1, <1>2, <1>3, <2>1, SteadyParted
<1>5. Leaving(s, e)
    BY <1>1, PartedLeaves
<1>6. e.ring = s.ring
    BY <1>1 DEF Parted
<1>7. Extends(made, made)
    BY DEF Extends
<1> QED
    BY <1>4, <1>5, <1>6, <1>7, OldestOfRing, TrueStays

(* A frame that runs a tick.                                               *)
LEMMA SteadyTicks ==
    ASSUME NEW s, Fit(s), NEW made, InTurn(made), Steady(s, made), TrueWorld(s, made),
           NEW later, Extends(made, later),
           \A q \in Guests : q \notin DOMAIN s.absent => s.next <= NewestOf(s, q) + Leeway,
           NEW x, Fit(x), Wider(s, x), Known(x, later), NewestOf(x, Host) = s.next,
           Gone(s, x), Gapless(x), Honest(x, later),
           NEW left \in SUBSET Guests, left \intersect DOMAIN s.absent = {},
           NEW e, Parted(AdvanceOf(x), e, left)
    PROVE  Steady(e, later) /\ TrueWorld(e, later) /\ Leaving(s, e)
<1> DEFINE y == AdvanceOf(x)
           o == OldestTick(s)
<1>1. /\ x.next = s.next /\ x.ring = s.ring /\ x.absent = s.absent
      /\ \A q \in Players : NewestOf(s, q) <= NewestOf(x, q)
      /\ SatOut(x, Due(x))
    BY DEF Wider, Steady
<1>2. /\ Fit(y) /\ y.next = s.next + 1 /\ y.absent = s.absent
      /\ \A q \in Players : NewestOf(y, q) = NewestOf(x, q)
      /\ Gapless(y) /\ SatOut(y, Due(y))
    BY <1>1, AdvanceWide
<1>3. /\ s.next \in Nat \ {0}
      /\ \A q \in Players : NewestOf(s, q) \in Nat /\ NewestOf(x, q) \in Nat
      /\ DOMAIN s.absent \subseteq Players
    BY FitNumbers DEF Fit
<1>4. Leeway \in Int /\ Leeway + 1 <= Depth /\ Depth \in Nat \ {0}
    BY LeewayIsLess
<1>5. Host \in Players /\ Guests = Players \ {Host}
    BY HostAssumption DEF Guests
<1>6. \A q \in DOMAIN s.absent : s.absent[q] = NewestOf(x, q) + 1
    BY DEF Steady, Gone
<1>7. ASSUME NEW q \in Players, q \notin DOMAIN x.absent
      PROVE  x.next < NewestOf(x, q) + Depth
    <2>1. CASE q = Host
        BY <1>1, <1>3, <1>4, <2>1
    <2>2. CASE q # Host
        <3>1. s.next <= NewestOf(s, q) + Leeway
            BY <1>1, <1>5, <1>7, <2>2
        <3> QED
            BY <1>1, <1>3, <1>4, <3>1
    <2> QED
        BY <2>1, <2>2
<1>8. \/ OldestTick(y) = o /\ OldestWorld(y) = OldestWorld(s)
      \/ /\ OldestTick(y) = o + 1 /\ o \in Nat \ {0} /\ Confirmed(x, o)
         /\ \A q \in Players : IsPresent(x, q, o) => o <= NewestOf(x, q)
         /\ OldestWorld(y) = Step(OldestWorld(s), ArrivedRow(x, o))
    <2>1. OldestTick(x) = o /\ OldestWorld(x) = OldestWorld(s)
        BY <1>1, OldestOfRing
    <2>2. \A q \in DOMAIN x.absent : x.absent[q] = NewestOf(x, q) + 1
        BY <1>1, <1>6
    <2>3. LET z == AdvanceOf(x)
              b == OldestTick(x)
          IN  \/ OldestTick(z) = b /\ OldestWorld(z) = OldestWorld(x)
              \/ /\ OldestTick(z) = b + 1 /\ b \in Nat \ {0} /\ Confirmed(x, b)
                 /\ \A q \in Players : IsPresent(x, q, b) => b <= NewestOf(x, q)
                 /\ OldestWorld(z) = Step(OldestWorld(x), ArrivedRow(x, b))
        BY <1>1, <1>7, <2>2, OldestRuns
    <2> HIDE DEF o
    <2> QED
        BY <2>1, <2>3
<1> HIDE DEF y, o
<1>9. /\ OldestTick(e) = OldestTick(y) /\ OldestWorld(e) = OldestWorld(y)
    BY OldestOfRing DEF Parted, y
<1>10. Parted(y, e, left)
    BY DEF y
<1>11. Leaving(s, e) /\ Leaving(x, e)
    <2>1. \A q \in Players : NewestOf(s, q) <= NewestOf(y, q) /\ NewestOf(x, q) <= NewestOf(y, q)
        BY <1>1, <1>2, <1>3
    <2>2. y.absent = x.absent /\ left \intersect DOMAIN x.absent = {}
        BY <1>1, <1>2
    <2> QED
        BY <1>2, <1>10, <2>1, <2>2, PartedLeaves
<1>12. Steady(e, later)
    <2>1. Known(y, later) /\ NewestOf(y, Host) = y.next - 1
        BY <1>2, <1>3, <1>5 DEF Known
    <2>2. Host \notin DOMAIN y.absent /\ left \intersect DOMAIN y.absent = {}
        BY <1>2 DEF Steady
    <2>3. \A q \in DOMAIN y.absent : y.absent[q] = NewestOf(y, q) + 1
        BY <1>2, <1>3, <1>6
    <2>4. ASSUME NEW q \in Guests, q \notin DOMAIN y.absent
          PROVE  Within(y, q)
        <3>1. q \in Players /\ s.next <= NewestOf(s, q) + Leeway /\ NewestOf(s, q) <= NewestOf(x, q)
            BY <1>1, <1>2, <1>5, <2>4
        <3>2. y.next <= NewestOf(y, q) + Leeway + 1
            BY <1>2, <1>3, <1>4, <3>1
        <3> QED
            BY <3>2 DEF Within
    <2> QED
        BY <1>2, <1>10, <2>1, <2>2, <2>3, <2>4, SteadyParted
<1>13. CASE OldestTick(y) = o /\ OldestWorld(y) = OldestWorld(s)
    <2>1. OldestTick(e) = OldestTick(s) /\ OldestWorld(e) = OldestWorld(s)
        BY <1>9, <1>13 DEF o
    <2> QED
        BY <1>11, <1>12, <2>1, TrueStays
<1>14. CASE /\ OldestTick(y) = o + 1 /\ o \in Nat \ {0} /\ Confirmed(x, o)
            /\ \A q \in Players : IsPresent(x, q, o) => o <= NewestOf(x, q)
            /\ OldestWorld(y) = Step(OldestWorld(s), ArrivedRow(x, o))
    <2> DEFINE rows == RowsOf(e, later)
    <2>1. Agree(RowsOf(s, made), rows, o)
        BY <1>11, SteadyHears, RowsAgree DEF o, Steady
    <2>2. WorldFrom(RowsOf(s, made), o) = WorldFrom(rows, o)
        BY <1>14, <2>1, WorldFromSame
    <2>3. OldestWorld(s) = WorldFrom(rows, o)
        BY <2>2 DEF TrueWorld, o
    <2>4. ASSUME NEW q \in Players
          PROVE  (IF IsPresent(x, q, o) THEN x.arrived[q][o] ELSE Nil)
                 = (IF IsPresent(e, q, o) THEN later[q][o] ELSE Nil)
        <3>1. IsPresent(e, q, o) <=> IsPresent(x, q, o)
            BY <1>11, <1>14, LeavingPresent
        <3>2. IsPresent(x, q, o) => x.arrived[q][o] = later[q][o]
            BY <1>14 DEF Confirmed, Honest
        <3> QED
            BY <3>1, <3>2
    <2>5. rows[o] = ArrivedRow(x, o)
        BY <1>14, <2>4 DEF RowsOf, ArrivedRow
    <2> HIDE DEF rows
    <2>6. WorldFrom(rows, o + 1) = Step(WorldFrom(rows, o), rows[o])
        BY <1>14, WorldFromSteps
    <2>7. OldestWorld(e) = WorldFrom(rows, OldestTick(e))
        BY <1>9, <1>14, <2>3, <2>5, <2>6
    <2> QED
        BY <1>11, <1>12, <2>7 DEF TrueWorld, rows
<1> QED
    BY <1>8, <1>13, <1>14

-----------------------------------------------------------------------------
(* What of the guests the host counts on: none runs far past what it heard *)
(* of the host, and a datagram from one holds its own inputs.              *)
Tracking(p) ==
    LET s == peer[p].sess
    IN  NewestOf(s, Host) \in DOMAIN Made[Host] \union {0} /\ Within(s, Host)

Addressed(sent) == \A d \in sent : d.link # Host => d.player = d.link

HostInv ==
    /\ MatchInv
    /\ Steady(peer[Host].sess, Made) /\ TrueWorld(peer[Host].sess, Made)
    /\ \A p \in Guests : Tracking(p)
    /\ Addressed(datagrams)

(* Every datagram to the host reaches back to the newest input it has of   *)
(* that player.                                                            *)
HostInTime == \A d \in datagrams : d.to = Host => Covered(peer[Host].sess, d)

(* Nobody is forgotten.                                                    *)
Further(s, e) == \A q \in Players : NewestOf(s, q) <= NewestOf(e, q)

(* The host takes whole what it reads.                                     *)
LEMMA HostHeeds ==
    ASSUME HostInTime, HostInv, NEW heard \in Arrivals(Host), NEW i \in 1 .. Len(heard)
    PROVE  Heeded(peer[Host].sess, heard[i])
<1> DEFINE s == peer[Host].sess
           d == heard[i]
           a == d.player
           g == peer[a].sess
           mine == s.next
           theirs == g.next
           newest == NewestOf(s, a)
           back == NewestOf(g, Host)
<1>1. Crews /\ Steady(s, Made) /\ Addressed(datagrams)
    BY DEF HostInv, MatchInv
<1>2. d \in datagrams /\ d \in Inbox(Host)
    <2>1. /\ \A j \in 1 .. Len(heard) : heard[j] \in datagrams
          /\ ToSet(heard) \subseteq Inbox(Host) /\ Len(heard) \in Nat
        BY <1>1, InboxesAreFinite DEF Crews
    <2>2. PICK S \in SUBSET Inbox(Host) : heard \in SetToSeqs(S)
        BY DEF Arrivals, SetToAllKPermutations
    <2>3. heard \in [1 .. Cardinality(S) -> S] /\ IsFiniteSet(S)
        <3>1. Inbox(Host) \subseteq datagrams
            BY DEF Inbox
        <3> QED
            BY <1>1, <2>2, <3>1, FS_Subset DEF SetToSeqs, Crews
    <2>4. Cardinality(S) \in Nat
        BY <2>3, FS_CardinalityType
    <2>5. Len(heard) = Cardinality(S)
        BY <2>3, <2>4
    <2> QED
        BY <2>1, <2>3, <2>5
<1>3. Truthful(d, Made) /\ d.to = Host /\ d.link \in OpenLinks(peer[Host])
    BY <1>1, <1>2 DEF Crews, Inbox
<1> HIDE DEF d
<1>4. d.link # Host /\ a = d.link /\ a \in Players /\ a # Host /\ a \in Guests
    <2>1. d.link # Host
        BY <1>3 DEF Truthful, Linked
    <2>2. a = d.link
        BY <1>1, <1>2, <2>1 DEF Addressed
    <2> QED
        BY <1>3, <2>1, <2>2 DEF Truthful, Guests
<1>5. a \notin DOMAIN s.absent
    BY <1>3, <1>4 DEF HostInv, MatchInv, Aware
<1>6. /\ d.first \in Nat \ {0} /\ d.tick \in Nat /\ d.first <= d.tick
      /\ d.first = 1 \/ d.first + Window = d.tick + 1
    BY <1>3 DEF Truthful
<1>7. d.tick <= theirs - 1 /\ theirs \in Nat \ {0}
    <2>1. d.tick \in d.first .. d.tick
        BY <1>6
    <2>2. d.tick \in DOMAIN Made[a]
        BY <1>3, <2>1 DEF Truthful
    <2>3. DOMAIN Made[a] = 1 .. theirs - 1 /\ theirs \in Nat \ {0}
        BY <1>1, <1>4, CrewsMake
    <2> HIDE DEF theirs
    <2> QED
        BY <1>6, <2>2, <2>3
<1>8. mine \in Nat \ {0} /\ DOMAIN Made[Host] = 1 .. mine - 1
    BY <1>1, HostAssumption, CrewsMake
<1>9. newest \in Nat
    <2>1. Fit(s)
        BY <1>1, HostAssumption, CrewedNumbers DEF Crews
    <2> QED
        BY <1>4, <2>1 DEF Fit
<1>10. back \in Nat /\ back <= mine - 1 /\ (theirs > 1 => theirs <= back + Leeway + 1)
    <2>1. Tracking(a)
        BY <1>4 DEF HostInv
    <2>2. back \in (1 .. mine - 1) \union {0}
        BY <1>8, <2>1 DEF Tracking
    <2> HIDE DEF mine
    <2>3. back \in Nat /\ back <= mine - 1
        BY <1>8, <2>2
    <2> QED
        BY <2>1, <2>3 DEF Tracking, Within
<1>11. /\ Leeway \in Int /\ Leeway < Depth /\ Depth <= Ahead /\ Depth \in Nat /\ Ahead \in Nat
    BY DepthAssumption, AheadAssumption, PacingAssumption DEF Leeway
<1>14. Covered(s, d)
    BY <1>2, <1>3 DEF HostInTime
<1> HIDE DEF mine, theirs, newest, back
<1>12. theirs > 1 /\ theirs <= mine + Leeway
    BY <1>6, <1>7, <1>8, <1>10, <1>11
<1>13. d.tick <= mine + Ahead
    BY <1>6, <1>7, <1>8, <1>11, <1>12
<1> QED
    BY <1>5, <1>13, <1>14 DEF Heeded, mine, s, d

-----------------------------------------------------------------------------
(* The host's frames.                                                      *)
LEMMA WithinHeard ==
    ASSUME NEW s, Fit(s), NEW y, Fit(y), Wider(s, y), NEW q \in Players, Within(s, q)
    PROVE  Within(y, q)
<1>1. /\ NewestOf(s, q) \in Nat /\ NewestOf(y, q) \in Nat /\ NewestOf(s, q) <= NewestOf(y, q)
      /\ s.next \in Nat /\ y.next = s.next
    BY FitNumbers DEF Fit, Wider
<1> QED
    BY <1>1, LeewayIsLess DEF Within

LEMMA WithinRun ==
    ASSUME NEW s, Fit(s), NEW x, Fit(x), Wider(s, x), NEW q \in Players,
           s.next <= NewestOf(s, q) + Leeway
    PROVE  Within(AdvanceOf(x), q)
<1> DEFINE y == AdvanceOf(x)
<1>1. y.next = x.next + 1 /\ NewestOf(y, q) = NewestOf(x, q)
    BY AdvanceWide
<1> HIDE DEF y
<1>2. /\ NewestOf(s, q) \in Nat /\ NewestOf(x, q) \in Nat /\ NewestOf(s, q) <= NewestOf(x, q)
      /\ s.next \in Nat /\ x.next = s.next
    BY FitNumbers DEF Fit, Wider
<1>3. y.next <= NewestOf(y, q) + Leeway + 1
    BY <1>1, <1>2, LeewayIsLess
<1> QED
    BY <1>3 DEF Within, y

LEMMA MadeInTurn ==
    ASSUME Crews
    PROVE  InTurn(Made)
<1> SUFFICES ASSUME NEW q \in Players
             PROVE  \E n \in Nat : DOMAIN Made[q] = 1 .. n
    BY DEF InTurn
<1>1. DOMAIN Made[q] = 1 .. peer[q].sess.next - 1 /\ peer[q].sess.next - 1 \in Nat
    BY CrewsMake
<1> QED
    BY <1>1

LEMMA PlaysAreInputs ==
    ASSUME NEW p \in Players, NEW t \in Nat \ {0}, t <= MaxTick, NEW v \in Plays(p, t)
    PROVE  v \in Input
BY BoundAssumption, PlaysAssumption

LEMMA HostReads ==
    ASSUME HostInTime, HostInv, NEW heard \in Arrivals(Host), NEW gone \in Leavers
    PROVE  LET s == peer[Host].sess
               left == {gone[i] : i \in 1 .. Len(gone)}
           IN  /\ Crewed(peer[Host], Host) /\ Host \in Players /\ Able(peer[Host]) /\ Fit(s)
               /\ Making(Made) /\ InTurn(Made)
               /\ DOMAIN Made[Host] = 1 .. s.next - 1 /\ s.next \in Nat \ {0}
               /\ Len(heard) \in Nat
               /\ \A i \in 1 .. Len(heard) : Truthful(heard[i], Made) /\ Heeded(s, heard[i])
               /\ Steady(s, Made) /\ TrueWorld(s, Made) /\ Honest(s, Made)
               /\ Len(gone) \in Nat
               /\ \A i \in 1 .. Len(gone) : gone[i] \in Guests /\ gone[i] \notin DOMAIN s.absent
               /\ left \in SUBSET Guests /\ left \intersect DOMAIN s.absent = {}
<1>1. /\ Crews /\ Host \in Players /\ Crewed(peer[Host], Host)
      /\ Honest(peer[Host].sess, Made)
    BY HostAssumption DEF HostInv, MatchInv, Crews
<1>2. Able(peer[Host]) /\ Fit(peer[Host].sess)
    BY <1>1 DEF Crewed, Able
<1>3. /\ Making(Made) /\ InTurn(Made)
      /\ DOMAIN Made[Host] = 1 .. peer[Host].sess.next - 1 /\ peer[Host].sess.next \in Nat \ {0}
    BY <1>1, CrewsMake, MadeInTurn
<1>4. Len(heard) \in Nat /\ \A i \in 1 .. Len(heard) : Truthful(heard[i], Made)
    BY <1>1, CrewsRead
<1>5. \A i \in 1 .. Len(heard) : Heeded(peer[Host].sess, heard[i])
    BY HostHeeds
<1>6. /\ Len(gone) \in Nat
      /\ \A i \in 1 .. Len(gone) : gone[i] \in OpenLinks(peer[Host]) /\ gone[i] \in Guests
    BY <1>1, LeaversAre DEF Crewed
<1>7. OpenLinks(peer[Host]) \intersect DOMAIN peer[Host].sess.absent = {}
    BY DEF HostInv, MatchInv, Aware
<1>8. \A i \in 1 .. Len(gone) : gone[i] \in Guests /\ gone[i] \notin DOMAIN peer[Host].sess.absent
    BY <1>6, <1>7
<1>9. LET left == {gone[i] : i \in 1 .. Len(gone)}
      IN  left \in SUBSET Guests /\ left \intersect DOMAIN peer[Host].sess.absent = {}
    BY <1>8
<1>10. Steady(peer[Host].sess, Made) /\ TrueWorld(peer[Host].sess, Made)
    BY DEF HostInv
<1> QED
    BY <1>1, <1>2, <1>3, <1>4, <1>5, <1>6, <1>8, <1>9, <1>10

LEMMA HostPolls ==
    ASSUME HostInTime, HostInv, NEW heard \in Arrivals(Host), NEW upto, NEW gone \in Leavers
    PROVE  LET s == peer[Host].sess
               e == AllDeparted(Hear(Host, heard, upto), gone).sess
           IN  Steady(e, Made) /\ TrueWorld(e, Made) /\ Leaving(s, e) /\ Further(s, e)
<1> DEFINE s == peer[Host].sess
           h == Hear(Host, heard, upto)
           y == h.sess
           left == {gone[i] : i \in 1 .. Len(gone)}
           all == \A i \in 1 .. Len(heard) : Heeded(s, heard[i])
           e == AllDeparted(h, gone).sess
<1>1. /\ Crewed(peer[Host], Host) /\ Host \in Players /\ Able(peer[Host]) /\ Fit(s)
      /\ Making(Made) /\ InTurn(Made)
      /\ DOMAIN Made[Host] = 1 .. s.next - 1 /\ s.next \in Nat \ {0}
      /\ Len(heard) \in Nat
      /\ (\A i \in 1 .. Len(heard) : Truthful(heard[i], Made) /\ Heeded(s, heard[i]))
      /\ Steady(s, Made) /\ TrueWorld(s, Made) /\ Honest(s, Made)
      /\ Len(gone) \in Nat
      /\ (\A i \in 1 .. Len(gone) : gone[i] \in Guests /\ gone[i] \notin DOMAIN s.absent)
      /\ left \in SUBSET Guests /\ left \intersect DOMAIN s.absent = {}
    BY HostReads
<1>2. all
    BY <1>1
<1>3. \A i \in 1 .. Len(heard) : Truthful(heard[i], Made)
    BY <1>1
<1>4. /\ Fit(y) /\ Wider(s, y) /\ Learned(s, y, Made)
      /\ all => Gone(s, y)
      /\ all /\ Gapless(s) => Gapless(y)
    BY <1>1, <1>3, HearWider
<1>5. Crewed(h, Host)
    BY <1>1, <1>3, HearCrewed
<1> HIDE DEF all, h, left
<1>6. Known(y, Made) /\ NewestOf(y, Host) = s.next - 1
    <2>1. Known(y, Made)
        BY <1>1, <1>4 DEF Steady, Known, Learned
    <2>2. NewestOf(y, Host) \in (1 .. s.next - 1) \union {0}
        BY <1>1, <2>1 DEF Known
    <2>3. NewestOf(s, Host) <= NewestOf(y, Host) /\ NewestOf(s, Host) = s.next - 1
        BY <1>1, <1>4 DEF Wider, Steady
    <2> HIDE DEF s, y
    <2> QED
        BY <1>1, <2>1, <2>2, <2>3
<1>7. Gone(s, y) /\ Gapless(y)
    BY <1>1, <1>2, <1>4 DEF Steady
<1>8. ASSUME NEW i \in 1 .. Len(gone)
      PROVE  gone[i] \in Players /\ Within(h.sess, gone[i])
    <2>1. gone[i] \in Guests /\ gone[i] \in Players /\ gone[i] \notin DOMAIN s.absent
        BY <1>1 DEF Guests
    <2>2. Within(s, gone[i])
        BY <1>1, <2>1 DEF Steady
    <2> HIDE DEF s
    <2> QED
        BY <1>1, <1>4, <2>1, <2>2, WithinHeard
<1>9. Parted(y, e, left)
    BY <1>1, <1>5, <1>8, AllDepartedWide DEF left
<1> HIDE DEF s, y, e
<1>10. Steady(e, Made) /\ TrueWorld(e, Made) /\ Leaving(s, e)
    BY <1>1, <1>4, <1>6, <1>7, <1>9, SteadyPolls
<1>11. Further(s, e)
    BY <1>4, <1>9 DEF Wider, Parted, Further
<1> QED
    BY <1>10, <1>11 DEF s, e, h

LEMMA HostTicks ==
    ASSUME HostInTime, HostInv, NEW heard \in Arrivals(Host), NEW upto, NEW gone \in Leavers,
           peer[Host].sess.next <= MaxTick, ~ShouldWait(Host),
           NEW v \in Plays(Host, peer[Host].sess.next),
           NEW later, Extends(Made, later), peer[Host].sess.next \in DOMAIN later[Host],
           later[Host][peer[Host].sess.next] = v
    PROVE  LET s == peer[Host].sess
               e == AllDeparted(Exchanged(Moved(Host, heard, upto, v)), gone).sess
           IN  Steady(e, later) /\ TrueWorld(e, later) /\ Leaving(s, e) /\ Further(s, e)
<1> DEFINE s == peer[Host].sess
           h == Hear(Host, heard, upto)
           x == Pressed(Host, h, v).sess
           m == Exchanged(Moved(Host, heard, upto, v))
           left == {gone[i] : i \in 1 .. Len(gone)}
           all == \A i \in 1 .. Len(heard) : Heeded(s, heard[i])
           e == AllDeparted(m, gone).sess
<1>1. /\ Crewed(peer[Host], Host) /\ Host \in Players /\ Able(peer[Host]) /\ Fit(s)
      /\ Making(Made) /\ InTurn(Made)
      /\ DOMAIN Made[Host] = 1 .. s.next - 1 /\ s.next \in Nat \ {0}
      /\ Len(heard) \in Nat
      /\ (\A i \in 1 .. Len(heard) : Truthful(heard[i], Made) /\ Heeded(s, heard[i]))
      /\ Steady(s, Made) /\ TrueWorld(s, Made) /\ Honest(s, Made)
      /\ Len(gone) \in Nat
      /\ (\A i \in 1 .. Len(gone) : gone[i] \in Guests /\ gone[i] \notin DOMAIN s.absent)
      /\ left \in SUBSET Guests /\ left \intersect DOMAIN s.absent = {}
    BY HostReads
<1>2. all
    BY <1>1
<1>3. \A i \in 1 .. Len(heard) : Truthful(heard[i], Made)
    BY <1>1
<1>4. v \in Input
    BY <1>1, PlaysAreInputs
<1>5. Known(s, Made) /\ NewestOf(s, Host) = s.next - 1 /\ Host \notin DOMAIN s.absent /\ Gapless(s)
    BY <1>1 DEF Steady
<1>6. /\ Fit(x) /\ Wider(s, x)
      /\ m.sess = AdvanceOf(x)
      /\ Known(x, later) /\ NewestOf(x, Host) = s.next
      /\ all => Gone(s, x)
      /\ all /\ Gapless(s) => Gapless(x)
    BY <1>1, <1>3, <1>4, <1>5, RunWider
<1>7. Crewed(m, Host)
    BY <1>1, <1>3, TickCrewed
<1>8. Honest(x, later)
    <2>1. /\ Able(h) /\ h.sess.next = s.next /\ Honest(h.sess, Made)
        BY <1>1, <1>3, HearFit DEF Untouched
    <2> HIDE DEF h
    <2>2. Honest(h.sess, later)
        BY <2>1, HonestLater
    <2>3. \A made : /\ Honest(h.sess, made)
                    /\ h.sess.next \in DOMAIN made[Host] /\ v = made[Host][h.sess.next]
                    => Honest(x, made)
        BY <1>1, <1>4, <2>1, PressedFit
    <2> HIDE DEF x
    <2> QED
        BY <2>1, <2>2, <2>3
<1>9. \A q \in Guests : q \notin DOMAIN s.absent => s.next <= NewestOf(s, q) + Leeway
    BY <1>1, GoesOnWithinLeeway DEF Guests
<1> HIDE DEF all, h, m, left, x
<1>10. Gone(s, x) /\ Gapless(x)
    BY <1>2, <1>5, <1>6
<1>11. ASSUME NEW i \in 1 .. Len(gone)
      PROVE  gone[i] \in Players /\ Within(m.sess, gone[i])
    <2>1. gone[i] \in Players /\ s.next <= NewestOf(s, gone[i]) + Leeway
        BY <1>1, <1>9 DEF Guests
    <2> HIDE DEF s
    <2> QED
        BY <1>1, <1>6, <2>1, WithinRun
<1>12. Parted(AdvanceOf(x), e, left)
    <2>1. Parted(m.sess, e, left)
        BY <1>1, <1>7, <1>11, AllDepartedWide DEF left
    <2> QED
        BY <1>6, <2>1
<1> HIDE DEF s, e
<1>13. Steady(e, later) /\ TrueWorld(e, later) /\ Leaving(s, e)
    BY <1>1, <1>6, <1>8, <1>9, <1>10, <1>12, SteadyTicks
<1>14. Further(s, e)
    <2>1. \A q \in Players : NewestOf(AdvanceOf(x), q) = NewestOf(x, q)
        BY <1>6, AdvanceWide
    <2> QED
        BY <1>6, <1>12, <2>1 DEF Wider, Parted, Further
<1> QED
    BY <1>13, <1>14 DEF s, e, m

-----------------------------------------------------------------------------
(* The guests' frames.                                                     *)
LEMMA GuestReads ==
    ASSUME HostInv, NEW p \in Guests, NEW heard \in Arrivals(p),
           NEW known \in told[p] .. Len(notices), InMatch(p)
    PROVE  /\ p \in Players /\ Host \in Players \ {p}
           /\ Crewed(peer[p], p) /\ Able(peer[p]) /\ Fit(peer[p].sess)
           /\ Making(Made) /\ Len(heard) \in Nat
           /\ \A i \in 1 .. Len(heard) : Truthful(heard[i], Made)
           /\ Tracking(p)
           /\ p \notin DOMAIN peer[p].sess.absent /\ Host \notin DOMAIN peer[p].sess.absent
           /\ told[p] \in Nat /\ known \in Nat /\ told[p] <= known
           /\ \A i \in 1 .. known : IsNotice(notices[i])
<1>1. p \in Players /\ Host \in Players \ {p} /\ p # Host
    BY HostAssumption DEF Guests
<1>2. Crews /\ Crewed(peer[p], p) /\ Able(peer[p]) /\ Fit(peer[p].sess)
    BY <1>1 DEF HostInv, MatchInv, Crews, Crewed, Able
<1>3. Making(Made) /\ Len(heard) \in Nat /\ \A i \in 1 .. Len(heard) : Truthful(heard[i], Made)
    BY <1>1, <1>2, CrewsMake, CrewsRead
<1>4. Tracking(p)
    BY DEF HostInv
<1>5. /\ told[p] \in Nat /\ known \in Nat /\ told[p] <= known /\ known <= Len(notices)
      /\ Len(notices) \in Nat
      /\ DOMAIN peer[p].sess.absent = Slots(told[p])
      /\ \A i \in 1 .. Len(notices) : IsNotice(notices[i])
    BY DEF HostInv, MatchInv, Recorded, Aware
<1>6. \A i \in 1 .. told[p] : i \in 1 .. Len(notices)
    BY <1>5
<1>7. p \notin Slots(Len(notices))
    BY <1>1 DEF InMatch, HostInv, MatchInv, Aware
<1>8. p \notin Slots(told[p])
    BY <1>6, <1>7 DEF Slots
<1>9. Host \notin Slots(told[p])
    BY <1>5, <1>6 DEF Slots, IsNotice, Guests
<1>10. \A i \in 1 .. known : i \in 1 .. Len(notices)
    BY <1>5
<1>11. \A i \in 1 .. known : IsNotice(notices[i])
    BY <1>5, <1>10
<1> QED
    BY <1>1, <1>2, <1>3, <1>4, <1>5, <1>8, <1>9, <1>11

LEMMA GuestPolls ==
    ASSUME HostInv, NEW p \in Guests, NEW heard \in Arrivals(p), NEW upto,
           NEW known \in told[p] .. Len(notices), InMatch(p)
    PROVE  LET e == AllNoticed(Hear(p, heard, upto), told[p], known).sess
           IN  NewestOf(e, Host) \in DOMAIN Made[Host] \union {0} /\ Within(e, Host)
<1> DEFINE s == peer[p].sess
           h == Hear(p, heard, upto)
           y == h.sess
           e == AllNoticed(h, told[p], known).sess
<1>1. /\ p \in Players /\ Host \in Players \ {p}
      /\ Crewed(peer[p], p) /\ Able(peer[p]) /\ Fit(s)
      /\ Making(Made) /\ Len(heard) \in Nat
      /\ \A i \in 1 .. Len(heard) : Truthful(heard[i], Made)
      /\ Tracking(p)
      /\ told[p] \in Nat /\ known \in Nat /\ told[p] <= known
      /\ \A i \in 1 .. known : IsNotice(notices[i])
    BY GuestReads
<1>2. Fit(y) /\ Wider(s, y) /\ Learned(s, y, Made)
    BY <1>1, HearWider
<1>3. Crewed(h, p)
    BY <1>1, HearCrewed
<1>4. NewestOf(s, Host) \in DOMAIN Made[Host] \union {0} /\ Within(s, Host)
    BY <1>1 DEF Tracking
<1> HIDE DEF h, s
<1>5. SameOfHost(y, e)
    BY <1>1, <1>3, AllNoticedWide
<1> HIDE DEF y, e
<1>6. NewestOf(y, Host) \in DOMAIN Made[Host] \union {0} /\ Within(y, Host)
    BY <1>1, <1>2, <1>4, WithinHeard DEF Learned
<1>7. NewestOf(e, Host) \in DOMAIN Made[Host] \union {0} /\ Within(e, Host)
    BY <1>5, <1>6 DEF SameOfHost, Within
<1> QED
    BY <1>7 DEF e, h

LEMMA GuestTicks ==
    ASSUME HostInv, NEW p \in Guests, NEW heard \in Arrivals(p), NEW upto,
           NEW known \in told[p] .. Len(notices), InMatch(p),
           peer[p].sess.next <= MaxTick, ~ShouldWait(p), NEW v \in Plays(p, peer[p].sess.next)
    PROVE  LET e == AllNoticed(Exchanged(Moved(p, heard, upto, v)), told[p], known).sess
           IN  NewestOf(e, Host) \in DOMAIN Made[Host] \union {0} /\ Within(e, Host)
<1> DEFINE s == peer[p].sess
           h == Hear(p, heard, upto)
           x == Pressed(p, h, v).sess
           m == Exchanged(Moved(p, heard, upto, v))
           e == AllNoticed(m, told[p], known).sess
<1>1. /\ p \in Players /\ Host \in Players \ {p}
      /\ Crewed(peer[p], p) /\ Able(peer[p]) /\ Fit(s)
      /\ Making(Made) /\ Len(heard) \in Nat
      /\ (\A i \in 1 .. Len(heard) : Truthful(heard[i], Made))
      /\ Tracking(p)
      /\ p \notin DOMAIN s.absent /\ Host \notin DOMAIN s.absent
      /\ told[p] \in Nat /\ known \in Nat /\ told[p] <= known
      /\ (\A i \in 1 .. known : IsNotice(notices[i]))
    BY GuestReads
<1>2. s.next \in Nat \ {0} /\ v \in Input
    BY <1>1, FitNumbers, PlaysAreInputs
<1>3. Able(h) /\ Fit(h.sess) /\ Wider(s, h.sess) /\ Learned(s, h.sess, Made)
    BY <1>1, HearWider
<1>4. Crewed(m, p)
    BY <1>1, TickCrewed
<1>5. s.next <= NewestOf(s, Host) + Leeway
    BY <1>1, GoesOnWithinLeeway
<1>6. NewestOf(s, Host) \in DOMAIN Made[Host] \union {0}
    BY <1>1 DEF Tracking
<1>7. DOMAIN Pressed(p, h, v) = MachineFields
    <2> HIDE DEF h
    <2> QED
        BY <1>1, <1>2, <1>3, PressedFit DEF Able
<1>8. m.sess = AdvanceOf(x)
    BY <1>7, RunIs
<1> HIDE DEF h, m
<1>9. p \notin DOMAIN h.sess.absent
    BY <1>1, <1>3 DEF Wider
<1>10. /\ Fit(x) /\ Wider(h.sess, x)
       /\ \A q \in Players \ {p} : NewestOf(x, q) = NewestOf(h.sess, q)
    BY <1>1, <1>2, <1>3, <1>9, PressedWider
<1> HIDE DEF x, s
<1>11. Wider(s, x)
    BY <1>1, <1>3, <1>10, WiderTwice
<1>12. Within(AdvanceOf(x), Host)
    BY <1>1, <1>5, <1>10, <1>11, WithinRun
<1>13. NewestOf(x, Host) \in DOMAIN Made[Host] \union {0}
    BY <1>1, <1>3, <1>6, <1>10 DEF Learned
<1>14. NewestOf(AdvanceOf(x), Host) = NewestOf(x, Host)
    BY <1>1, <1>10, AdvanceWide
<1>15. SameOfHost(m.sess, e)
    BY <1>1, <1>4, AllNoticedWide
<1> HIDE DEF e
<1>16. NewestOf(e, Host) \in DOMAIN Made[Host] \union {0} /\ Within(e, Host)
    BY <1>8, <1>12, <1>13, <1>14, <1>15 DEF SameOfHost, Within
<1> QED
    BY <1>16 DEF e, m

(* What is sent, and passed on, says whose inputs it holds.                *)
LEMMA RelayedAddressed ==
    ASSUME Crews, Addressed(datagrams), NEW p \in Players, NEW heard \in Arrivals(p)
    PROVE  Addressed((datagrams \ ToSet(heard)) \union Relayed(p, heard))
<1>1. ASSUME NEW d \in Relayed(p, heard)
      PROVE  d.link = Host
    <2>1. PICK h \in ToSet(heard) \X OpenLinks(peer[p]) :
            d = [h[1] EXCEPT !.link = Host, !.to = h[2]]
        BY <1>1 DEF Relayed
    <2>2. h[1] \in datagrams
        BY InboxesAreFinite DEF Crews
    <2>3. DOMAIN h[1] = DatagramFields
        BY <2>2 DEF Crews, Truthful
    <2> DEFINE c == h[1]
               b == h[2]
    <2>4. d = [c EXCEPT !.link = Host, !.to = b] /\ DOMAIN c = DatagramFields
        BY <2>1, <2>3
    <2> HIDE DEF c, b
    <2> QED
        BY <2>4 DEF DatagramFields
<1> QED
    BY <1>1 DEF Addressed

LEMMA SentAddressed ==
    ASSUME NEW p, NEW m
    PROVE  Addressed(Sent(p, m))
BY DEF Addressed, Sent

LEMMA TickAddressed ==
    ASSUME Crews, Addressed(datagrams), NEW p \in Players, NEW heard \in Arrivals(p), NEW upto,
           NEW v, NEW e, Ticked(p, heard, upto, v, e)
    PROVE  Addressed(datagrams')
<1>1. Addressed((datagrams \ ToSet(heard)) \union Relayed(p, heard))
    BY RelayedAddressed
<1>2. Addressed(Sent(p, Pressed(p, Hear(p, heard, upto), v)))
    BY SentAddressed
<1>3. datagrams' \subseteq (datagrams \ ToSet(heard)) \union Relayed(p, heard)
                           \union Sent(p, Pressed(p, Hear(p, heard, upto), v))
    BY DEF Ticked, Carried
<1> QED
    BY <1>1, <1>2, <1>3, Zenon DEF Addressed

LEMMA PollAddressed ==
    ASSUME Crews, Addressed(datagrams), NEW p \in Players, NEW heard \in Arrivals(p), NEW upto,
           NEW e, Polled(p, heard, upto, e)
    PROVE  Addressed(datagrams')
<1>1. Addressed((datagrams \ ToSet(heard)) \union Relayed(p, heard))
    BY RelayedAddressed
<1>2. datagrams' \subseteq (datagrams \ ToSet(heard)) \union Relayed(p, heard)
    BY DEF Polled, Carried
<1> QED
    BY <1>1, <1>2 DEF Addressed

-----------------------------------------------------------------------------
(* Every frame keeps what the host counts on.                              *)
LEMMA SteadyPrimed ==
    \A s, made : (Steady(s, made) => Steady(s, made)') /\ (TrueWorld(s, made) => TrueWorld(s, made)')
<1>1. \A s, made : Steady(s, made) => Steady(s, made)'
    BY DEF Steady, Known, NewestOf, Guests, Within, Leeway, Gapless, BelowRing, SatOut, Due, NoTick
<1>2. \A s, made : TrueWorld(s, made) => TrueWorld(s, made)'
    BY DEF TrueWorld, OldestWorld, OldestTick, WorldFrom, Chain, RowsOf, IsPresent
<1> QED
    BY <1>1, <1>2

LEMMA TrackingLater ==
    ASSUME NEW p \in Guests, Tracking(p), peer'[p] = peer[p], Extends(Made, Made')
    PROVE  Tracking(p)'
<1>1. Host \in Players
    BY HostAssumption
<1>2. NewestOf(peer[p].sess, Host) \in DOMAIN Made[Host] \union {0} /\ Within(peer[p].sess, Host)
    BY DEF Tracking
<1>3. NewestOf(peer[p].sess, Host) \in DOMAIN Made'[Host] \union {0}
    BY <1>1, <1>2 DEF Extends
<1> QED
    BY <1>2, <1>3 DEF Tracking, Within, NewestOf, Leeway

LEMMA TrackingNow ==
    ASSUME NEW p \in Guests, NEW e, peer'[p].sess = e,
           NewestOf(e, Host) \in DOMAIN Made[Host] \union {0}, Within(e, Host), Extends(Made, Made')
    PROVE  Tracking(p)'
<1>1. Host \in Players
    BY HostAssumption
<1>2. NewestOf(e, Host) \in DOMAIN Made'[Host] \union {0}
    BY <1>1 DEF Extends
<1> QED
    BY <1>2 DEF Tracking, Within, NewestOf, Leeway

LEMMA HostMoves ==
    ASSUME HostInTime, HostInv, NEW heard \in Arrivals(Host), NEW upto \in Reads(Host),
           NEW gone \in Leavers, HostFrame(heard, upto, gone)
    PROVE  LET e == peer'[Host].sess
           IN  /\ Steady(e, Made') /\ TrueWorld(e, Made') /\ Leaving(peer[Host].sess, e)
               /\ Further(peer[Host].sess, e)
               /\ Addressed(datagrams')
<1> DEFINE e == peer'[Host].sess
           s == peer[Host].sess
<1>1. /\ Crews /\ Host \in Players /\ peer = [q \in Players |-> peer[q]]
      /\ Crewed(peer[Host], Host) /\ Addressed(datagrams)
    BY HostAssumption DEF HostInv, MatchInv, Crews
<1>2. Extends(Made, Made')
    BY HostSettles DEF HostInv
<1>3. ASSUME NEW v \in Plays(Host, s.next),
             Ticked(Host, heard, upto, v,
                    AllDeparted(Exchanged(Moved(Host, heard, upto, v)), gone))
      PROVE  /\ Steady(e, Made') /\ TrueWorld(e, Made') /\ Leaving(s, e) /\ Further(s, e)
             /\ Addressed(datagrams')
    <2> DEFINE x == Exchanged(Moved(Host, heard, upto, v))
               n == AllDeparted(x, gone)
    <2>1. /\ s.next <= MaxTick /\ ~ShouldWait(Host) /\ peer' = [peer EXCEPT ![Host] = n]
          /\ Ticked(Host, heard, upto, v, n)
        BY <1>3 DEF Ticked
    <2>2. /\ Making(Made) /\ Len(heard) \in Nat
          /\ \A i \in 1 .. Len(heard) : Truthful(heard[i], Made)
          /\ Len(gone) \in Nat /\ \A i \in 1 .. Len(gone) : gone[i] \in Players
        <3>1. Len(gone) \in Nat /\ \A i \in 1 .. Len(gone) : gone[i] \in Players
            BY <1>1, LeaversAre DEF Crewed, Guests
        <3> QED
            BY <1>1, <3>1, CrewsMake, CrewsRead
    <2>3. Crewed(x, Host) /\ x.mine = Put(peer[Host].mine, s.next, v)
        BY <1>1, <2>1, <2>2, TickCrewed
    <2> HIDE DEF x
    <2>4. n.mine = x.mine
        BY <2>2, <2>3, AllDepartedIs DEF Settles
    <2>5. Made'[Host] = n.mine
        BY <1>1, <2>1, MadeNow
    <2>6. s.next \in DOMAIN Made'[Host] /\ Made'[Host][s.next] = v
        BY <2>3, <2>4, <2>5 DEF Put
    <2> DEFINE later == Made'
    <2>7. Extends(Made, later) /\ s.next \in DOMAIN later[Host] /\ later[Host][s.next] = v
        BY <1>2, <2>6
    <2>8. e = n.sess
        BY <1>1, <2>1
    <2> HIDE DEF later, e, n
    <2>9. LET r == AllDeparted(Exchanged(Moved(Host, heard, upto, v)), gone).sess
          IN  Steady(r, later) /\ TrueWorld(r, later) /\ Leaving(s, r) /\ Further(s, r)
        BY <2>1, <2>7, HostTicks
    <2>10. Addressed(datagrams')
        BY <1>1, <2>1, TickAddressed
    <2> QED
        BY <2>8, <2>9, <2>10 DEF n, x, later
<1>4. ASSUME Polled(Host, heard, upto, AllDeparted(Hear(Host, heard, upto), gone))
      PROVE  /\ Steady(e, Made') /\ TrueWorld(e, Made') /\ Leaving(s, e) /\ Further(s, e)
             /\ Addressed(datagrams')
    <2> DEFINE x == Hear(Host, heard, upto)
               n == AllDeparted(x, gone)
    <2>1. peer' = [peer EXCEPT ![Host] = n] /\ Polled(Host, heard, upto, n)
        BY <1>4 DEF Polled
    <2>2. /\ Making(Made) /\ Len(heard) \in Nat
          /\ \A i \in 1 .. Len(heard) : Truthful(heard[i], Made)
          /\ Len(gone) \in Nat /\ \A i \in 1 .. Len(gone) : gone[i] \in Players
        <3>1. Len(gone) \in Nat /\ \A i \in 1 .. Len(gone) : gone[i] \in Players
            BY <1>1, LeaversAre DEF Crewed, Guests
        <3> QED
            BY <1>1, <3>1, CrewsMake, CrewsRead
    <2>3. Crewed(x, Host) /\ Untouched(peer[Host], x)
        BY <1>1, <2>2, HearCrewed
    <2> HIDE DEF x
    <2>4. n.mine = peer[Host].mine
        BY <2>2, <2>3, AllDepartedIs DEF Settles, Untouched
    <2>5. Made' = [Made EXCEPT ![Host] = n.mine]
        BY <1>1, <2>1, MadeNow
    <2>6. Made' = Made
        <3>1. Made = [q \in Players |-> Made[q]] /\ Made[Host] = peer[Host].mine
            BY <1>1 DEF Made
        <3> QED
            BY <2>4, <2>5, <3>1, Zenon
    <2>7. e = n.sess
        BY <1>1, <2>1
    <2> HIDE DEF e, n
    <2>8. LET r == AllDeparted(Hear(Host, heard, upto), gone).sess
          IN  Steady(r, Made) /\ TrueWorld(r, Made) /\ Leaving(s, r) /\ Further(s, r)
        BY HostPolls
    <2>9. Addressed(datagrams')
        BY <1>1, <2>1, PollAddressed
    <2> QED
        BY <2>6, <2>7, <2>8, <2>9 DEF n, x
<1> QED
    BY <1>3, <1>4, HostFrameIs

LEMMA HostInvHost ==
    ASSUME HostInTime, HostInv, NEW heard \in Arrivals(Host), NEW upto \in Reads(Host),
           NEW gone \in Leavers, HostFrame(heard, upto, gone)
    PROVE  HostInv'
<1>1. MatchInv'
    BY MatchInvHost DEF HostInv
<1>2. /\ Steady(peer'[Host].sess, Made') /\ TrueWorld(peer'[Host].sess, Made')
      /\ Addressed(datagrams')
    BY HostMoves
<1>3. Extends(Made, Made') /\ \A p \in Guests : peer'[p] = peer[p]
    BY HostSettles DEF HostInv
<1>4. \A p \in Guests : Tracking(p)'
    BY <1>3, TrackingLater DEF HostInv
<1>5. Steady(peer[Host].sess, Made)' /\ TrueWorld(peer[Host].sess, Made)'
    BY <1>2, SteadyPrimed
<1> QED
    BY <1>1, <1>2, <1>4, <1>5 DEF HostInv, Addressed, Guests

LEMMA HostInvGuest ==
    ASSUME HostInv, NEW p \in Guests, NEW heard \in Arrivals(p), NEW upto \in Reads(p),
           NEW known \in told[p] .. Len(notices), GuestFrame(p, heard, upto, known)
    PROVE  HostInv'
<1>1. MatchInv'
    BY MatchInvGuest DEF HostInv
<1>2. /\ Extends(Made, Made') /\ \A q \in Players \ {p} : peer'[q] = peer[q]
    BY GuestSettles DEF HostInv
<1>3. /\ p \in Players /\ Host \in Players \ {p} /\ InMatch(p) /\ Guests \subseteq Players
      /\ Crews /\ peer = [q \in Players |-> peer[q]] /\ Addressed(datagrams)
    BY HostAssumption DEF Guests, GuestFrame, HostInv, MatchInv, Crews
<1>4. ASSUME NEW v \in Plays(p, peer[p].sess.next),
             Ticked(p, heard, upto, v,
                    AllNoticed(Exchanged(Moved(p, heard, upto, v)), told[p], known))
      PROVE  Tracking(p)' /\ Addressed(datagrams')
    <2> DEFINE n == AllNoticed(Exchanged(Moved(p, heard, upto, v)), told[p], known)
               e == n.sess
    <2>1. /\ peer[p].sess.next <= MaxTick /\ ~ShouldWait(p) /\ peer' = [peer EXCEPT ![p] = n]
          /\ Ticked(p, heard, upto, v, n)
        BY <1>4 DEF Ticked
    <2>2. NewestOf(e, Host) \in DOMAIN Made[Host] \union {0} /\ Within(e, Host)
        BY <1>3, <2>1, GuestTicks
    <2>3. peer'[p].sess = e
        BY <1>3, <2>1
    <2> HIDE DEF n, e
    <2> QED
        BY <1>2, <1>3, <2>1, <2>2, <2>3, TrackingNow, TickAddressed
<1>5. ASSUME Polled(p, heard, upto, AllNoticed(Hear(p, heard, upto), told[p], known))
      PROVE  Tracking(p)' /\ Addressed(datagrams')
    <2> DEFINE n == AllNoticed(Hear(p, heard, upto), told[p], known)
               e == n.sess
    <2>1. /\ peer' = [peer EXCEPT ![p] = n] /\ Polled(p, heard, upto, n)
        BY <1>5 DEF Polled
    <2>2. NewestOf(e, Host) \in DOMAIN Made[Host] \union {0} /\ Within(e, Host)
        BY <1>3, GuestPolls
    <2>3. peer'[p].sess = e
        BY <1>3, <2>1
    <2> HIDE DEF n, e
    <2> QED
        BY <1>2, <1>3, <2>1, <2>2, <2>3, TrackingNow, PollAddressed
<1>6. Tracking(p)' /\ Addressed(datagrams')
    BY <1>4, <1>5, GuestFrameIs
<1>7. \A q \in Guests : Tracking(q)'
    <2>1. ASSUME NEW q \in Guests, q # p
          PROVE  Tracking(q)'
        BY <1>2, <1>3, <2>1, TrackingLater DEF HostInv
    <2> QED
        BY <1>6, <2>1
<1>8. Steady(peer[Host].sess, Made)' /\ TrueWorld(peer[Host].sess, Made)'
    <2> DEFINE s == peer[Host].sess
    <2>1. peer'[Host].sess = s /\ Steady(s, Made) /\ TrueWorld(s, Made)
        BY <1>2, <1>3 DEF HostInv
    <2>2. Fit(s) /\ InTurn(Made)
        BY <1>3, MadeInTurn, CrewedNumbers DEF Crews
    <2> HIDE DEF s
    <2>3. Steady(s, Made')
        BY <1>2, <2>1 DEF Steady, Known, Extends
    <2>4. DOMAIN s.absent \subseteq Players
        BY <2>2, FitNumbers
    <2>5. Leaving(s, s)
        BY <2>4 DEF Leaving
    <2>6. TrueWorld(s, Made')
        BY <1>2, <2>1, <2>2, <2>5, TrueStays
    <2>7. Steady(peer'[Host].sess, Made') /\ TrueWorld(peer'[Host].sess, Made')
        BY <2>1, <2>3, <2>6
    <2> QED
        BY <2>7, SteadyPrimed
<1> QED
    BY <1>1, <1>6, <1>7, <1>8 DEF HostInv, Addressed, Guests

LEMMA HostInvStays ==
    ASSUME HostInv, MatchInv', peer' = peer, datagrams' \subseteq datagrams
    PROVE  HostInv'
<1>1. Made' = Made
    BY DEF Made
<1>2. Steady(peer[Host].sess, Made)' /\ TrueWorld(peer[Host].sess, Made)'
    <2>1. Steady(peer'[Host].sess, Made') /\ TrueWorld(peer'[Host].sess, Made')
        BY <1>1 DEF HostInv
    <2> QED
        BY <2>1, SteadyPrimed
<1>3. Extends(Made, Made')
    BY <1>1 DEF Extends
<1>4. \A p \in Guests : Tracking(p)'
    BY <1>3, TrackingLater DEF HostInv
<1> QED
    BY <1>2, <1>4 DEF HostInv, Addressed, Guests

LEMMA HostInvKept ==
    ASSUME HostInTime, HostInv, [MatchNext]_matchVars
    PROVE  HostInv'
<1>1. MatchInv'
    BY MatchInvKept DEF HostInv
<1>2. ASSUME NEW heard \in Arrivals(Host), NEW upto \in Reads(Host), NEW gone \in Leavers,
             HostFrame(heard, upto, gone)
      PROVE  HostInv'
    BY <1>2, HostInvHost
<1>3. ASSUME NEW p \in Guests, NEW heard \in Arrivals(p), NEW upto \in Reads(p),
             NEW known \in told[p] .. Len(notices), GuestFrame(p, heard, upto, known)
      PROVE  HostInv'
    BY <1>3, HostInvGuest
<1>4. ASSUME NEW d \in datagrams, Lose(d), UNCHANGED <<notices, told>>
      PROVE  HostInv'
    BY <1>1, <1>4, HostInvStays DEF Lose
<1>5. CASE UNCHANGED matchVars
    BY <1>1, <1>5, HostInvStays DEF matchVars, vars
<1> QED
    BY <1>2, <1>3, <1>4, <1>5 DEF MatchNext

HostStep ==
    \A p \in Guests : InMatch(p) /\ peer'[p].sess.next # peer[p].sess.next =>
        peer[p].sess.next - NewestOf(peer[Host].sess, p) <= Window

(* What the host sends goes to others.                                     *)
LEMMA HostInTimeHost ==
    ASSUME HostInTime, HostInv, NEW heard \in Arrivals(Host), NEW upto \in Reads(Host),
           NEW gone \in Leavers, HostFrame(heard, upto, gone)
    PROVE  HostInTime'
<1>1. Crews /\ Crews' /\ Host \in Players /\ Crewed(peer'[Host], Host) /\ Crewed(peer[Host], Host)
    BY HostAssumption, HostSettles DEF HostInv, MatchInv, Crews
<1>2. Further(peer[Host].sess, peer'[Host].sess)
    BY HostMoves
<1>3. ToSet(heard) \subseteq datagrams /\ \A d \in datagrams : DOMAIN d = DatagramFields
    BY <1>1, InboxesAreFinite DEF Crews, Truthful
<1>4. \A d \in Relayed(Host, heard) : d.link = Host
    <2> SUFFICES ASSUME NEW d \in Relayed(Host, heard) PROVE d.link = Host
        OBVIOUS
    <2>1. PICK h \in ToSet(heard) \X OpenLinks(peer[Host]) :
                d = [h[1] EXCEPT !.link = Host, !.to = h[2]]
        BY DEF Relayed
    <2> QED
        BY <1>3, <2>1 DEF DatagramFields
<1>5. \A x : \A d \in Sent(Host, x) : d.link = Host
    BY DEF Sent
<1>6. \A d \in datagrams' : d \in datagrams \/ d.link = Host
    <2>1. \/ datagrams' \subseteq (datagrams \ ToSet(heard)) \union Relayed(Host, heard)
          \/ \E x : datagrams' \subseteq (datagrams \ ToSet(heard)) \union Relayed(Host, heard)
                                                               \union Sent(Host, x)
        BY HostFrameIs DEF Ticked, Polled, Carried
    <2> QED
        BY <1>4, <1>5, <2>1
<1>7. ASSUME NEW d \in datagrams', d.to = Host
      PROVE  Covered(peer'[Host].sess, d)
    <2>1. Linked(d.link, d.to) /\ d.player \in Players /\ d.first \in Nat
        BY <1>1 DEF Crews, Truthful
    <2>2. d \in datagrams
        BY <1>6, <1>7, <2>1 DEF Linked
    <2>3. Covered(peer[Host].sess, d)
        BY <1>7, <2>2 DEF HostInTime
    <2>4. /\ NewestOf(peer[Host].sess, d.player) \in Nat /\ NewestOf(peer'[Host].sess, d.player) \in Nat
          /\ NewestOf(peer[Host].sess, d.player) <= NewestOf(peer'[Host].sess, d.player)
        BY <1>1, <1>2, <2>1, CrewedNumbers DEF Further
    <2> QED
        BY <2>1, <2>3, <2>4, CoveredLater
<1> QED
    BY <1>7 DEF HostInTime, Covered

LEMMA HostInTimeGuest ==
    ASSUME HostInTime, HostInv, HostStep,
           NEW p \in Guests, NEW heard \in Arrivals(p), NEW upto \in Reads(p),
           NEW known \in told[p] .. Len(notices), GuestFrame(p, heard, upto, known)
    PROVE  HostInTime'
<1>1. /\ Crews /\ Crews' /\ p \in Players /\ Host \in Players /\ p # Host /\ InMatch(p)
      /\ Crewed(peer[p], p) /\ Crewed(peer[Host], Host)
      /\ peer = [q \in Players |-> peer[q]]
      /\ \A q \in Players \ {p} : peer'[q] = peer[q]
    BY HostAssumption, GuestSettles DEF HostInv, MatchInv, Crews, Guests, GuestFrame
<1>2. /\ Making(Made) /\ Made[p] = peer[p].mine
      /\ Len(heard) \in Nat /\ \A i \in 1 .. Len(heard) : Truthful(heard[i], Made)
    BY <1>1, CrewsMake, CrewsRead
<1>3. /\ told[p] \in Nat /\ known \in Nat /\ told[p] <= known
      /\ \A i \in 1 .. known : IsNotice(notices[i])
      /\ DOMAIN peer[p].sess.absent = Slots(told[p])
    BY DEF HostInv, MatchInv, Recorded, Aware
<1>4. peer'[Host] = peer[Host]
    BY <1>1
<1>5. Relayed(p, heard) = {}
    BY <1>1 DEF Relayed
<1>6. ASSUME NEW v \in Plays(p, peer[p].sess.next),
             Ticked(p, heard, upto, v,
                    AllNoticed(Exchanged(Moved(p, heard, upto, v)), told[p], known))
      PROVE  HostInTime'
    <2> DEFINE x == Pressed(p, Hear(p, heard, upto), v)
               m == Exchanged(Moved(p, heard, upto, v))
               e == AllNoticed(m, told[p], known)
               n == peer[p].sess.next
    <2>1. n <= MaxTick /\ peer' = [peer EXCEPT ![p] = e]
        BY <1>6 DEF Ticked
    <2>2. datagrams' \subseteq datagrams \union Sent(p, x)
        BY <1>5, <1>6 DEF Ticked, Carried
    <2>3. /\ Crewed(m, p) /\ m.mine = Put(peer[p].mine, n, v)
          /\ x.sess.next = n /\ m.sess.absent = peer[p].sess.absent
        BY <1>1, <1>2, <2>1, TickCrewed
    <2> HIDE DEF m, x
    <2>4. Crewed(e, p) /\ e.mine = m.mine
        BY <1>3, <2>3, AllNoticedIs
    <2>5. peer'[p] = e
        BY <1>1, <2>1
    <2> HIDE DEF e
    <2>6. n \in Nat /\ peer'[p].sess.next # n
        <3>1. n \in DOMAIN e.mine
            BY <2>3, <2>4 DEF Put
        <3>2. n \in 1 .. e.sess.next - 1
            BY <2>4, <3>1 DEF Crewed
        <3>3. n \in Nat
            BY <1>1, CrewsMake
        <3>4. e.sess.next \in Nat
            BY <2>4, CrewedNumbers
        <3> HIDE DEF n
        <3>5. e.sess.next # n
            BY <3>2, <3>3, <3>4
        <3> QED
            BY <2>5, <3>3, <3>5
    <2>7. n - NewestOf(peer[Host].sess, p) <= Window
        BY <1>1, <2>6 DEF HostStep
    <2> DEFINE b == NewestOf(peer[Host].sess, p)
    <2>8. b \in Nat
        BY <1>1, CrewedNumbers
    <2>9. ASSUME NEW d \in datagrams', d.to = Host
          PROVE  Covered(peer'[Host].sess, d)
        <3>1. CASE d \in datagrams
            BY <1>4, <2>9, <3>1 DEF HostInTime
        <3>2. CASE d \in Sent(p, x)
            <4>1. d.player = p /\ (d.first = 1 \/ d.first = n - Window + 1)
                BY <2>3, <2>6, <3>2, SentReachesBack
            <4>2. n \in Nat /\ n - b <= Window
                BY <2>6, <2>7
            <4> HIDE DEF n, b
            <4>3. d.first <= b + 1
                BY <2>8, <4>1, <4>2, PacingAssumption
            <4> QED
                BY <1>4, <4>1, <4>3 DEF Covered, b
        <3> QED
            BY <2>2, <3>1, <3>2
    <2> QED
        BY <2>9 DEF HostInTime, Covered
<1>7. ASSUME Polled(p, heard, upto, AllNoticed(Hear(p, heard, upto), told[p], known))
      PROVE  HostInTime'
    <2>1. datagrams' \subseteq datagrams
        BY <1>5, <1>7 DEF Polled, Carried
    <2> QED
        BY <1>4, <2>1 DEF HostInTime, Covered
<1> QED
    BY <1>6, <1>7, GuestFrameIs

LEMMA HostInTimeKept ==
    ASSUME HostInTime, HostInv, [MatchNext]_matchVars, [HostStep]_matchVars
    PROVE  HostInTime'
<1>1. CASE UNCHANGED matchVars
    BY <1>1 DEF matchVars, vars, HostInTime, Covered
<1>2. ASSUME NEW heard \in Arrivals(Host), NEW upto \in Reads(Host), NEW gone \in Leavers,
             HostFrame(heard, upto, gone)
      PROVE  HostInTime'
    BY <1>2, HostInTimeHost
<1>3. ASSUME NEW p \in Guests, NEW heard \in Arrivals(p), NEW upto \in Reads(p),
             NEW known \in told[p] .. Len(notices), GuestFrame(p, heard, upto, known)
      PROVE  HostInTime'
    <2>1. CASE UNCHANGED matchVars
        BY <1>1, <2>1
    <2>2. CASE HostStep
        BY <1>3, <2>2, HostInTimeGuest
    <2> QED
        BY <2>1, <2>2
<1>4. ASSUME NEW d \in datagrams, Lose(d), UNCHANGED <<notices, told>>
      PROVE  HostInTime'
    BY <1>4 DEF Lose, HostInTime, Covered
<1> QED
    BY <1>1, <1>2, <1>3, <1>4 DEF MatchNext

LEMMA HostInvBegins == MatchInit => HostInv
<1> SUFFICES ASSUME MatchInit PROVE HostInv
    OBVIOUS
<1>1. MatchInv
    BY MatchInvBegins
<1>2. Host \in Players /\ Guests \subseteq Players
    BY HostAssumption DEF Guests
<1>3. datagrams = {} /\ \A p \in Players : peer[p] = NewPeer(p)
    BY DEF MatchInit, Init
<1>4. ASSUME NEW p \in Players
      PROVE  /\ peer[p].sess.next = 1 /\ DOMAIN peer[p].sess.ring = {}
             /\ DOMAIN peer[p].sess.absent = {}
             /\ \A q \in Players : NewestOf(peer[p].sess, q) = 0
    <2> DEFINE m == peer[p]
    <2>1. m.sess = NewSession
        <3>1. m = NewPeer(p)
            BY <1>3, <1>4
        <3> HIDE DEF m
        <3> QED
            BY <3>1 DEF NewPeer
    <2> QED
        BY <2>1 DEF NewSession, NoEntries, NewestOf
<1> DEFINE s == peer[Host].sess
<1>5. /\ s.next = 1 /\ DOMAIN s.ring = {} /\ DOMAIN s.absent = {}
      /\ \A q \in Players : NewestOf(s, q) = 0
    BY <1>2, <1>4
<1> HIDE DEF s
<1>6. Steady(s, Made)
    <2>1. Known(s, Made) /\ NewestOf(s, Host) = s.next - 1
        BY <1>2, <1>5 DEF Known
    <2>2. \A q \in Players : Within(s, q)
        BY <1>5 DEF Within
    <2>3. Gapless(s)
        BY <1>5 DEF Gapless
    <2>4. SatOut(s, Due(s))
        BY <1>5 DEF SatOut
    <2> QED
        BY <1>2, <1>5, <2>1, <2>2, <2>3, <2>4 DEF Steady
<1>7. TrueWorld(s, Made)
    <2>1. OldestTick(s) = 1 /\ OldestWorld(s) = Start
        BY <1>5 DEF OldestTick, OldestWorld
    <2> QED
        BY <2>1, WorldFromSteps DEF TrueWorld
<1>8. \A p \in Guests : Tracking(p)
    <2> SUFFICES ASSUME NEW p \in Guests PROVE Tracking(p)
        OBVIOUS
    <2>1. NewestOf(peer[p].sess, Host) = 0 /\ peer[p].sess.next = 1
        BY <1>2, <1>4
    <2> QED
        BY <2>1 DEF Tracking, Within
<1>9. Addressed(datagrams)
    BY <1>3 DEF Addressed
<1> QED
    BY <1>1, <1>6, <1>7, <1>8, <1>9 DEF HostInv, s

(* A notice says from when the host plays its leaver as absent.            *)
Dated ==
    \A i \in 1 .. Len(notices) :
        /\ notices[i].slot \in DOMAIN peer[Host].sess.absent
        /\ notices[i].from = peer[Host].sess.absent[notices[i].slot]

LEMMA DatedHost ==
    ASSUME HostInTime, HostInv, Dated, NEW heard \in Arrivals(Host), NEW upto \in Reads(Host),
           NEW gone \in Leavers, HostFrame(heard, upto, gone)
    PROVE  Dated'
<1> DEFINE e == peer'[Host].sess
           s == peer[Host].sess
           a == Len(notices)
           b == Len(gone)
           left == {gone[i] : i \in 1 .. b}
           more == [i \in 1 .. b |-> NoticeOf(e, gone[i])]
<1>1. Leaving(s, e) /\ DOMAIN e.absent = DOMAIN s.absent \union left
    <2>1. DOMAIN e.absent = DOMAIN s.absent \union left
        BY HostSettles DEF HostInv
    <2> QED
        BY <2>1, HostMoves
<1>2. b \in Nat /\ DOMAIN gone = 1 .. b
    BY HostAssumption, LeaversAre DEF HostInv, MatchInv, Crews, Crewed
<1>3. notices' = notices \o more
    <2>1. more = [i \in DOMAIN gone |-> NoticeOf(peer'[Host].sess, gone[i])]
        BY <1>2
    <2> HIDE DEF more
    <2> QED
        BY <2>1, HostFrameIs
<1>4. a \in Nat /\ notices = [i \in 1 .. a |-> notices[i]]
    BY DEF HostInv, MatchInv, Recorded
<1>5. \A i \in 1 .. b : more[i].slot = gone[i] /\ more[i].from = e.absent[gone[i]]
    BY DEF NoticeOf
<1>6. more = [i \in 1 .. b |-> more[i]]
    OBVIOUS
<1>7. \A i \in 1 .. b : gone[i] \in DOMAIN e.absent
    BY <1>1
<1>8. \A i \in 1 .. a : /\ notices[i].slot \in DOMAIN s.absent
                        /\ notices[i].from = s.absent[notices[i].slot]
    BY DEF Dated
<1> HIDE DEF e, s, a, b, more, left
<1>9. /\ Len(notices') = a + b
      /\ notices' = [i \in 1 .. a + b |-> IF i <= a THEN notices[i] ELSE more[i - a]]
    BY <1>2, <1>3, <1>4, <1>6, ConcatIs
<1>10. ASSUME NEW i \in 1 .. a + b
       PROVE  notices'[i].slot \in DOMAIN e.absent /\ notices'[i].from = e.absent[notices'[i].slot]
    <2>1. CASE i \in 1 .. a
        <3>1. notices'[i] = notices[i]
            BY <1>2, <1>4, <1>9, <2>1
        <3>2. notices[i].slot \in DOMAIN s.absent /\ notices[i].from = s.absent[notices[i].slot]
            BY <1>8, <2>1
        <3> QED
            BY <1>1, <3>1, <3>2 DEF Leaving
    <2>2. CASE i \notin 1 .. a
        <3> DEFINE j == i - a
        <3>1. j \in 1 .. b /\ notices'[i] = more[j]
            BY <1>2, <1>4, <1>9, <2>2
        <3> HIDE DEF j
        <3> QED
            BY <1>5, <1>7, <3>1
    <2> QED
        BY <2>1, <2>2
<1> QED
    BY <1>9, <1>10 DEF Dated, e

LEMMA DatedKept ==
    ASSUME HostInTime, HostInv, Dated, [MatchNext]_matchVars
    PROVE  Dated'
<1>1. ASSUME NEW heard \in Arrivals(Host), NEW upto \in Reads(Host), NEW gone \in Leavers,
             HostFrame(heard, upto, gone)
      PROVE  Dated'
    BY <1>1, DatedHost
<1>2. ASSUME NEW p \in Guests, NEW heard \in Arrivals(p), NEW upto \in Reads(p),
             NEW known \in told[p] .. Len(notices), GuestFrame(p, heard, upto, known)
      PROVE  Dated'
    <2>1. \A q \in Players \ {p} : peer'[q] = peer[q]
        BY <1>2, GuestSettles DEF HostInv
    <2>2. notices' = notices
        BY <1>2, GuestFrameIs
    <2>3. peer'[Host] = peer[Host]
        BY <2>1, HostAssumption DEF Guests
    <2> QED
        BY <2>2, <2>3 DEF Dated
<1>3. ASSUME NEW d \in datagrams, Lose(d), UNCHANGED <<notices, told>>
      PROVE  Dated'
    BY <1>3 DEF Lose, Dated
<1>4. CASE UNCHANGED matchVars
    BY <1>4 DEF matchVars, vars, Dated
<1> QED
    BY <1>1, <1>2, <1>3, <1>4 DEF MatchNext

LEMMA RowsAreThese ==
    ASSUME HostInv, Dated
    PROVE  Rows = RowsOf(peer[Host].sess, Made)
<1> DEFINE s == peer[Host].sess
<1>1. /\ DOMAIN notices = 1 .. Len(notices)
      /\ DOMAIN s.absent = Slots(Len(notices))
      /\ Fit(s)
    BY HostAssumption, CrewedNumbers DEF HostInv, MatchInv, Recorded, Aware, Crews
<1>2. \A q \in DOMAIN s.absent : s.absent[q] \in Nat
    BY <1>1 DEF Fit
<1>3. \A i \in 1 .. Len(notices) :
        notices[i].slot \in DOMAIN s.absent /\ notices[i].from = s.absent[notices[i].slot]
    BY DEF Dated
<1> HIDE DEF s
<1>4. ASSUME NEW q \in Players, NEW t \in Nat
      PROVE  Played(q, t) = IF IsPresent(s, q, t) THEN Made[q][t] ELSE Nil
    <2>1. Made[q][t] = peer[q].mine[t]
        BY DEF Made
    <2>2. ASSUME NEW i \in DOMAIN notices, notices[i].slot = q, notices[i].from <= t
          PROVE  ~IsPresent(s, q, t)
        BY <1>1, <1>2, <1>3, <2>2 DEF IsPresent
    <2>3. ASSUME ~IsPresent(s, q, t)
          PROVE  \E i \in DOMAIN notices : notices[i].slot = q /\ notices[i].from <= t
        <3>1. q \in DOMAIN s.absent /\ s.absent[q] <= t
            BY <1>2, <2>3 DEF IsPresent
        <3>2. PICK i \in 1 .. Len(notices) : notices[i].slot = q
            BY <1>1, <3>1 DEF Slots
        <3> QED
            BY <1>1, <1>3, <3>1, <3>2
    <2> QED
        BY <2>1, <2>2, <2>3 DEF Played
<1> QED
    BY <1>4 DEF Rows, RowsOf, s

(* Players leave, and the host's world is still that of the inputs really  *)
(* made: the one it can no longer take back is what the match plays to,    *)
(* each leaver's own inputs up to the tick the host said it is absent from *)
(* (depart in play.rs, set_absent in rollback.rs), and Nil from there on.  *)
(* Of the network it asks that the host is not without news of a guest in  *)
(* the match for longer than the window; of the guests, nothing.           *)
HostWorldIsTrue ==
    OldestWorld(peer[Host].sess) = MatchWorld(OldestTick(peer[Host].sess))

THEOREM HostPlaysTheMatch == MatchSpec /\ HostHearsInTime => []HostWorldIsTrue
<1>1. MatchInit => HostInv /\ HostInTime /\ Dated
    <2>1. MatchInit => Len(notices) = 0
        BY DEF MatchInit
    <2>2. MatchInit => HostInTime
        BY DEF MatchInit, Init, HostInTime
    <2> QED
        BY <2>1, <2>2, HostInvBegins DEF Dated
<1>2. HostInv /\ HostInTime /\ Dated /\ [MatchNext]_matchVars /\ [HostStep]_matchVars
        => (HostInv /\ HostInTime /\ Dated)'
    BY HostInvKept, HostInTimeKept, DatedKept
<1>3. HostInv /\ Dated => HostWorldIsTrue
    <2> SUFFICES ASSUME HostInv, Dated PROVE HostWorldIsTrue
        OBVIOUS
    <2> DEFINE s == peer[Host].sess
               o == OldestTick(s)
    <2>1. Fit(s) /\ TrueWorld(s, Made)
        BY HostAssumption, CrewedNumbers DEF HostInv, MatchInv, Crews
    <2>2. o \in Nat \ {0}
        BY <2>1, FitNumbers, OldestIs
    <2> HIDE DEF o
    <2>3. MatchWorld(o) = WorldFrom(RowsOf(s, Made), o)
        BY <2>2, MatchWorldIs, RowsAreThese
    <2> QED
        BY <2>1, <2>3 DEF HostWorldIsTrue, TrueWorld, o
<1>4. HostHearsInTime <=> [][HostStep]_matchVars
    BY DEF HostHearsInTime, HostStep
<1> QED
    BY <1>1, <1>2, <1>3, <1>4, PTL DEF MatchSpec

=============================================================================
