----------------------------- MODULE LobbyProofs -----------------------------
(****************************************************************************)
(* Who is in a lobby, proved for every number of players, joins and links:  *)
(* a slot has one player, and who has read what the host sent has the       *)
(* host's roster, told of every change.                                     *)
(****************************************************************************)
EXTENDS Lobby, Stepwise, FiniteSetTheorems, SequenceTheorems

-----------------------------------------------------------------------------
(* The kinds of things.                                                     *)

Names == Players \union {Here, Bot}
Members == [slot : Slots, name : Names]
Rosters == Seq(Members)
Mails ==
    UNION {[kind : {"end", "bye", "hello", "refuse"}],
           [kind : {"welcome"}, slot : Slots, roster : Rosters],
           [kind : {"roster", "start"}, roster : Rosters],
           [kind : {"absent"}, slot : Slots]}
Queues == Seq(Mails)
Fars == {"none", "dialing", "open", "closed"}
Nears == {"none", "open", "closed"}
Wires == [far : Fars, near : Nears, up : Queues, down : Queues]
Places == [slot : Slots, link : Links]
Phases == {"hosting", "starting", "playing", "idle"}
Lines == Seq(Links)
Tables == Seq(Places)
SlotSets == SUBSET Slots
Hosts == [phase : Phases, listener : Lines, arriving : Lines, links : Tables,
          roster : Rosters, absent : SlotSets]
Stages == {"idle", "joining", "starting", "playing"}
Flags == BOOLEAN
Locals == Slots \union {NoSlot}
Joiners == [phase : Stages, tries : Nat, said : Flags, welcomed : Flags, local : Locals,
            roster : Rosters, absent : SlotSets]
Hearings == [me : Joiners, silent : Flags, over : Flags]

-----------------------------------------------------------------------------
(* The inductive invariant.                                                 *)

Ended(queue) == queue # <<>> /\ Last(queue) = End

(* What a joiner will know once it has read a queue: one that does not wait *)
(* in a lobby hears no more of rosters.                                     *)
Fresh(me) == [me |-> me, silent |-> FALSE, over |-> me.phase # "joining"]
AllTold(me, queue) == Told(Fresh(me), queue, Len(queue))

Mine(l, me) == me.phase # "idle" /\ l[2] = me.tries

(* What is on its way to a joiner, read to its end, tells it of every       *)
(* change; while the host serves its link, it ends up in the slot the host  *)
(* knows the link by, with the host's roster.                               *)
Follows(k, me, seat, roster, playing) ==
    LET then == AllTold(me, k.down)
    IN  /\ ~then.silent
        /\ k.near = "open" =>
              /\ me.welcomed => seat = {me.local}
              /\ then.me.welcomed /\ then.me.phase # "idle" => seat = {then.me.local}
              /\ k.far = "open" /\ ~Ended(k.down) =>
                    /\ seat = {} => ~then.over
                    /\ seat # {} => /\ then.me.welcomed
                                    /\ then.me.roster = roster
                                    /\ ~playing => ~then.over

SlotsApart(roster) == \A i, j \in DOMAIN roster : roster[i].slot = roster[j].slot => i = j
PlacesApart(links) ==
    \A i, j \in DOMAIN links :
        links[i].slot = links[j].slot \/ links[i].link = links[j].link => i = j

(* The members who are players are those at the end of the links, but for   *)
(* the slots whose link is gone and that are still to be vacated.           *)
Peopled(roster, links, leaving) ==
    /\ \A s \in leaving : \E m \in Range(roster) : m.slot = s
    /\ \A m \in Range(roster) : m.name \in Players /\ m.slot \notin leaving =>
            \E e \in Range(links) : e.slot = m.slot /\ e.link[1] = m.name
    /\ \A e \in Range(links) :
            e.slot \notin leaving /\ \E m \in Range(roster) : m.slot = e.slot /\ m.name = e.link[1]

(* A link the host serves is waiting to be let in or has a place.           *)
Served(k, l, waiting, links) ==
    /\ l \in waiting \union Linked(links) => k.near # "none"
    /\ k.near = "open" => l \in waiting \union Linked(links)

(* A link is dialed once, by its player's next try, who waits meanwhile.    *)
Dialing(l, k, me) ==
    /\ k.far = "none" <=> l[2] > me.tries
    /\ k.far \in {"none", "dialing"} =>
          /\ k.near = "none"
          /\ k.down = <<>> \/ (Ended(k.down) /\ k.far = "dialing")
          /\ Mine(l, me) => me.phase = "joining" /\ ~me.welcomed

Attended(l, k, me, waiting, links, roster, playing) ==
    /\ Served(k, l, waiting, links) /\ Dialing(l, k, me)
    /\ Mine(l, me) => Follows(k, me, Seat(links, l), roster, playing)

Settled(roster, links, waiting, leaving) ==
    /\ SlotsApart(roster) /\ PlacesApart(links)
    /\ Peopled(roster, links, leaving)
    /\ waiting \cap Linked(links) = {}

Kept(h, ln, joins, waiting, leaving) ==
    /\ h \in Hosts /\ ln \in [Links -> Wires]
    /\ Settled(h.roster, h.links, waiting, leaving)
    /\ \A l \in Links :
          Attended(l, ln[l], joins[l[1]], waiting, h.links, h.roster, h.phase = "playing")

Worlds == [host : Hosts, link : [Links -> Wires]]

Apart(seq) == \A i, j \in DOMAIN seq : seq[i] = seq[j] => i = j

Trying(me) == me.tries <= MaxJoins /\ (me.phase # "idle" => me.tries > 0)

Lasts(h, ln, joins) ==
    /\ Apart(h.arriving \o h.listener)
    /\ Kept(h, ln, joins, Range(h.arriving \o h.listener), {})

Sound ==
    /\ joiner \in [Players -> Joiners] /\ breaks \in Nat /\ silent = FALSE
    /\ Lasts(host, link, joiner)
    /\ \A p \in Players : Trying(joiner[p])

-----------------------------------------------------------------------------
(* Sequences.                                                               *)

(* What appending does, said of the elements.                               *)
Grown(a, b, e, n) ==
    /\ Len(b) = n /\ DOMAIN b = 1 .. n
    /\ \A i \in DOMAIN a : i \in DOMAIN b /\ b[i] = a[i]
    /\ n \in DOMAIN b /\ b[n] = e
    /\ \A i \in DOMAIN b : i \in DOMAIN a \/ i = n
    /\ Len(a) \in Nat /\ DOMAIN a = 1 .. Len(a)

LEMMA Added ==
    ASSUME NEW S, NEW a \in Seq(S), NEW e \in S
    PROVE  Append(a, e) \in Seq(S) /\ Grown(a, Append(a, e), e, Len(a) + 1)
<1>1. Append(a, e) \in Seq(S)
    OBVIOUS
<1>2. Grown(a, Append(a, e), e, Len(a) + 1)
    BY DEF Grown
<1> QED
    BY <1>1, <1>2

LEMMA AddedRange ==
    ASSUME NEW S, NEW a \in Seq(S), NEW e \in S
    PROVE  Range(Append(a, e)) = Range(a) \union {e}
<1>1. Grown(a, Append(a, e), e, Len(a) + 1)
    BY Added
<1> HIDE DEF Grown
<1>2. ASSUME NEW x \in Range(Append(a, e))
      PROVE  x \in Range(a) \union {e}
    BY <1>1, <1>2 DEF Grown, Range
<1>3. ASSUME NEW x \in Range(a) \union {e}
      PROVE  x \in Range(Append(a, e))
    <2>1. CASE x = e
        BY <1>1, <2>1 DEF Grown, Range
    <2>2. CASE x \in Range(a)
        BY <1>1, <2>2 DEF Grown, Range
    <2> QED
        BY <1>3, <2>1, <2>2
<1> QED
    BY <1>2, <1>3

(* t has the elements of s that are in A, in their order: f tells where     *)
(* each stands in s.                                                        *)
Picks(f, t, s, m, A) ==
    /\ f \in [1 .. Len(t) -> 1 .. m]
    /\ \A i \in 1 .. Len(t) : t[i] = s[f[i]] /\ t[i] \in A
    /\ \A i, j \in 1 .. Len(t) : f[i] = f[j] => i = j
    /\ \A k \in 1 .. m : s[k] \in A => \E i \in 1 .. Len(t) : f[i] = k

Chooses(h, s, A, S) ==
    /\ h[0] = <<>> /\ Only(s, A) = h[Len(s)]
    /\ \A i \in 0 .. Len(s) : h[i] \in Seq(S)
    /\ \A i \in 1 .. Len(s) : h[i] = IF s[i] \in A THEN Append(h[i - 1], s[i]) ELSE h[i - 1]

LEMMA OnlySteps ==
    ASSUME NEW S, NEW s \in Seq(S), NEW A
    PROVE  \E h : Chooses(h, s, A, S)
<1> DEFINE n == Len(s)
           Op(i, q) == IF s[i] \in A THEN Append(q, s[i]) ELSE q
           none == <<>>
           F(f) == f = [i \in 0 .. n |-> IF i = 0 THEN none ELSE Op(i, f[i - 1])]
           chosen == CHOOSE f : F(f)
<1>1. n \in Nat /\ \A i \in 1 .. n : s[i] \in S
    OBVIOUS
<1>2. none \in Seq(S)
    OBVIOUS
<1>3. ASSUME NEW i \in 1 .. n, NEW q \in Seq(S)
      PROVE  Op(i, q) \in Seq(S)
    BY <1>1
<1>4. PICK G \in [1 .. n -> [Seq(S) -> Seq(S)]] : \A i \in 1 .. n : \A q \in Seq(S) : G[i][q] = Op(i, q)
    <2> DEFINE G == [i \in 1 .. n |-> [q \in Seq(S) |-> Op(i, q)]]
    <2> HIDE DEF n, Op
    <2>1. G \in [1 .. n -> [Seq(S) -> Seq(S)]]
        BY <1>3
    <2>2. \A i \in 1 .. n : \A q \in Seq(S) : G[i][q] = Op(i, q)
        OBVIOUS
    <2> HIDE DEF G
    <2> QED
        BY <2>1, <2>2
<1>5. PICK f : Walks(f, Seq(S), none, n, G)
    <2>1. n \in Nat /\ none \in Seq(S) /\ G \in [1 .. n -> [Seq(S) -> Seq(S)]]
        BY <1>1, <1>2, <1>4
    <2> HIDE DEF n, F, none, Op, chosen
    <2> QED
        BY <2>1, WalkExists
<1>6. \A i \in 1 .. n : i \in 0 .. n /\ i - 1 \in 0 .. n /\ i # 0
    BY <1>1
<1>7. \A i \in 1 .. n : f[i] = Op(i, f[i - 1])
    BY <1>4, <1>5, <1>6 DEF Walks
<1>8. \A i \in 0 .. n : i = 0 \/ i \in 1 .. n
    BY <1>1
<1>9. Only(s, A) = chosen[n]
    BY DEF Only, n
<1> HIDE DEF n, none, Op
<1>10. F(f)
    BY <1>5, <1>7, <1>8 DEF F, Walks
<1> HIDE DEF F
<1>11. F(chosen)
    BY <1>10
<1>12. chosen = [i \in 0 .. n |-> IF i = 0 THEN none ELSE Op(i, chosen[i - 1])]
    BY <1>11 DEF F
<1> HIDE DEF chosen
<1>13. chosen[0] = none /\ \A i \in 1 .. n : chosen[i] = Op(i, chosen[i - 1])
    BY <1>1, <1>6, <1>12
<1> DEFINE P == {i \in 0 .. n : chosen[i] \in Seq(S)}
<1>14. 0 .. n \subseteq P
    <2>1. 0 \in P
        BY <1>1, <1>2, <1>13
    <2>2. ASSUME NEW i \in 0 .. n - 1, i \in P PROVE i + 1 \in P
        <3>1. i + 1 \in 1 .. n /\ i + 1 \in 0 .. n /\ i + 1 - 1 = i
            BY <1>1
        <3> QED
            BY <1>3, <1>13, <2>2, <3>1
    <2> HIDE DEF P
    <2> QED
        BY <1>1, <2>1, <2>2, StepByStep
<1>15. \A i \in 0 .. n : chosen[i] \in Seq(S)
    BY <1>14
<1> QED
    BY <1>9, <1>13, <1>15 DEF Op, n, none, Chooses

LEMMA OnlyPicks ==
    ASSUME NEW S, NEW s \in Seq(S), NEW A
    PROVE  /\ Only(s, A) \in Seq(S)
           /\ \E f : Picks(f, Only(s, A), s, Len(s), A)
<1>1. PICK h : Chooses(h, s, A, S)
    BY OnlySteps
<1> DEFINE n == Len(s)
           P == {i \in 0 .. n : \E f : Picks(f, h[i], s, i, A)}
<1>2. n \in Nat /\ \A i \in 1 .. n : s[i] \in S
    OBVIOUS
<1>3. 0 \in P
    <2> DEFINE f == [i \in 1 .. 0 |-> 0]
    <2>1. Picks(f, h[0], s, 0, A)
        BY <1>1 DEF Picks, Chooses
    <2> HIDE DEF f
    <2> QED
        BY <1>2, <2>1
<1>4. ASSUME NEW i \in 0 .. n - 1, i \in P
      PROVE  i + 1 \in P
    <2>1. PICK f : Picks(f, h[i], s, i, A)
        BY <1>4
    <2>2. i + 1 \in 1 .. n /\ i + 1 \in 0 .. n /\ i \in 0 .. n /\ i + 1 - 1 = i
        BY <1>2
    <2> DEFINE k == i + 1
               m == Len(h[i]) + 1
    <2>3. h[i] \in Seq(S) /\ h[k] = IF s[k] \in A THEN Append(h[i], s[k]) ELSE h[i]
        BY <1>1, <2>2 DEF Chooses
    <2>4. CASE s[k] \notin A
        <3>1. h[k] = h[i]
            BY <2>3, <2>4
        <3>2. f \in [1 .. Len(h[k]) -> 1 .. k]
            <4>1. 1 .. i \subseteq 1 .. k
                BY <1>2
            <4> HIDE DEF k
            <4> QED
                BY <2>1, <3>1, <4>1 DEF Picks
        <3>3. \A j \in 1 .. k : j = k \/ j \in 1 .. i
            BY <1>2
        <3> HIDE DEF k
        <3>4. Picks(f, h[k], s, k, A)
            BY <2>1, <2>4, <3>1, <3>2, <3>3 DEF Picks
        <3> QED
            BY <2>2, <3>4 DEF k
    <2>5. CASE s[k] \in A
        <3> DEFINE g == [j \in 1 .. m |-> IF j = m THEN k ELSE f[j]]
        <3>1. h[k] = Append(h[i], s[k]) /\ s[k] \in S
            BY <1>2, <2>2, <2>3, <2>5
        <3>2. Grown(h[i], h[k], s[k], m)
            BY <2>3, <3>1, Added
        <3>3. Len(h[i]) \in Nat /\ m \in 1 .. m /\ \A j \in 1 .. m : j = m \/ j \in 1 .. Len(h[i])
            BY <2>3
        <3>4. \A j \in 1 .. Len(h[i]) : j \in 1 .. m /\ j # m
            BY <2>3
        <3>5. /\ \A j \in 1 .. k : j = k \/ j \in 1 .. i
              /\ \A j \in 1 .. i : j \in 1 .. k /\ j # k
              /\ k \in 1 .. k
            BY <1>2
        <3>6. Len(h[k]) = m
            BY <3>2 DEF Grown
        <3>7. \A j \in 1 .. Len(h[i]) : h[k][j] = h[i][j]
            BY <2>3, <3>2 DEF Grown
        <3>8. h[k][m] = s[k]
            BY <3>2 DEF Grown
        <3> HIDE DEF k, m
        <3>9. g[m] = k /\ \A j \in 1 .. Len(h[i]) : g[j] = f[j]
            BY <3>3, <3>4
        <3>10. g \in [1 .. m -> 1 .. k]
            <4>1. \A j \in 1 .. Len(h[i]) : f[j] \in 1 .. k
                BY <2>1, <3>5 DEF Picks
            <4> QED
                BY <3>3, <3>5, <4>1
        <3> HIDE DEF g
        <3>11. \A j \in 1 .. m : h[k][j] = s[g[j]] /\ h[k][j] \in A
            BY <2>1, <2>5, <3>3, <3>7, <3>8, <3>9 DEF Picks
        <3>12. \A x, y \in 1 .. m : g[x] = g[y] => x = y
            <4>1. \A j \in 1 .. Len(h[i]) : f[j] \in 1 .. i
                BY <2>1 DEF Picks
            <4>2. ASSUME NEW x \in 1 .. m, NEW y \in 1 .. m, g[x] = g[y], x # y PROVE FALSE
                <5>1. CASE x = m
                    BY <3>3, <3>5, <3>9, <4>1, <4>2, <5>1
                <5>2. CASE y = m
                    BY <3>3, <3>5, <3>9, <4>1, <4>2, <5>2
                <5>3. CASE x # m /\ y # m
                    BY <2>1, <3>3, <3>9, <4>2, <5>3 DEF Picks
                <5> QED
                    BY <5>1, <5>2, <5>3
            <4> QED
                BY <4>2
        <3>13. \A j \in 1 .. k : s[j] \in A => \E x \in 1 .. m : g[x] = j
            <4>1. ASSUME NEW j \in 1 .. i, s[j] \in A PROVE \E x \in 1 .. m : g[x] = j
                <5>1. PICK x \in 1 .. Len(h[i]) : f[x] = j
                    BY <2>1, <4>1 DEF Picks
                <5> QED
                    BY <3>4, <3>9, <5>1
            <4> QED
                BY <3>3, <3>5, <3>9, <4>1
        <3>14. Picks(g, h[k], s, k, A)
            BY <3>6, <3>10, <3>11, <3>12, <3>13 DEF Picks
        <3> QED
            BY <2>2, <3>14 DEF k
    <2> QED
        BY <2>4, <2>5
<1>5. n \in P
    <2>1. n \in 0 .. n
        BY <1>2
    <2> HIDE DEF P, n
    <2> QED
        BY <1>2, <1>3, <1>4, <2>1, StepByStep
<1>6. Only(s, A) \in Seq(S)
    BY <1>1, <1>2 DEF Chooses
<1> QED
    BY <1>1, <1>5, <1>6 DEF Chooses

(* What is only of a sequence: its elements in the set.                     *)
LEMMA OnlyIs ==
    ASSUME NEW S, NEW s \in Seq(S), NEW A
    PROVE  Only(s, A) \in Seq(S) /\ Range(Only(s, A)) = Range(s) \cap A
<1> DEFINE t == Only(s, A)
<1>1. t \in Seq(S) /\ \E f : Picks(f, t, s, Len(s), A)
    BY OnlyPicks
<1> HIDE DEF t
<1>2. PICK f : Picks(f, t, s, Len(s), A)
    BY <1>1
<1>3. DOMAIN t = 1 .. Len(t) /\ DOMAIN s = 1 .. Len(s)
    BY <1>1
<1>4. \A i \in DOMAIN t : f[i] \in DOMAIN s /\ t[i] = s[f[i]] /\ t[i] \in A
    BY <1>2, <1>3 DEF Picks
<1>5. \A k \in DOMAIN s : s[k] \in A => \E i \in DOMAIN t : f[i] = k
    BY <1>2, <1>3 DEF Picks
<1>6. ASSUME NEW k \in DOMAIN s, s[k] \in A PROVE \E i \in DOMAIN t : t[i] = s[k]
    BY <1>4, <1>5, <1>6
<1>7. Range(t) = Range(s) \cap A
    BY <1>4, <1>6 DEF Range
<1> QED
    BY <1>1, <1>7 DEF t

(* Two places of it that show the same are one, if that holds of all of it. *)
LEMMA OnlyApart ==
    ASSUME NEW S, NEW s \in Seq(S), NEW A
    PROVE  \E f : /\ \A i \in DOMAIN Only(s, A) : f[i] \in DOMAIN s /\ Only(s, A)[i] = s[f[i]]
                  /\ \A i, j \in DOMAIN Only(s, A) : f[i] = f[j] => i = j
<1> DEFINE t == Only(s, A)
<1>1. t \in Seq(S) /\ \E f : Picks(f, t, s, Len(s), A)
    BY OnlyPicks
<1> HIDE DEF t
<1>2. PICK f : Picks(f, t, s, Len(s), A)
    BY <1>1
<1>3. DOMAIN t = 1 .. Len(t) /\ DOMAIN s = 1 .. Len(s)
    BY <1>1
<1>4. \A i \in DOMAIN t : f[i] \in DOMAIN s /\ t[i] = s[f[i]]
    BY <1>2, <1>3 DEF Picks
<1>5. \A i, j \in DOMAIN t : f[i] = f[j] => i = j
    BY <1>2, <1>3 DEF Picks
<1> QED
    BY <1>4, <1>5 DEF t

-----------------------------------------------------------------------------
(* What a joiner makes of one message.                                      *)

(* Who reads on is who waits in a lobby.                                    *)
Reading(w) == w \in Hearings /\ (w.over <=> w.me.phase # "joining")

LEMMA IdleIs ==
    ASSUME NEW tries \in Nat
    PROVE  /\ Idle(tries) \in Joiners /\ Idle(tries).tries = tries /\ Idle(tries).phase = "idle"
           /\ Idle(tries).welcomed = FALSE
<1>1. /\ "idle" \in Stages /\ FALSE \in Flags /\ NoSlot \in Locals /\ <<>> \in Rosters
      /\ {} \in SlotSets
    BY DEF Stages, Flags, Locals, Rosters, SlotSets
<1> HIDE DEF Stages, Flags, Locals, Rosters, SlotSets
<1> QED
    BY <1>1 DEF Idle, Joiners

LEMMA HeardNothing ==
    ASSUME NEW w \in Hearings, NEW m \in Mails,
           w.over \/ m.kind \notin {"welcome", "roster", "start", "refuse", "bye"}
    PROVE  Heard(w, m) = w
BY DEF Heard, Mails

(* What a welcome changes, a roster, a start.                               *)
Welcomes(w, v, slot, roster) ==
    /\ v.me.phase = w.me.phase /\ v.me.tries = w.me.tries /\ v.me.welcomed = TRUE
    /\ v.me.local = slot /\ v.me.roster = roster /\ v.silent = w.silent /\ v.over = w.over
    /\ v.me.absent = w.me.absent

Informs(w, v, roster) ==
    /\ v.me.phase = w.me.phase /\ v.me.tries = w.me.tries /\ v.me.welcomed = w.me.welcomed
    /\ v.me.local = w.me.local /\ v.me.roster = roster /\ v.over = w.over
    /\ v.silent = (w.silent \/ Replaced(w.me.roster, roster))
    /\ v.me.absent = w.me.absent

Starts(w, v, roster) ==
    /\ v.me.phase = "starting" /\ v.me.tries = w.me.tries /\ v.me.welcomed = w.me.welcomed
    /\ v.me.local = w.me.local /\ v.me.roster = roster /\ v.over = TRUE
    /\ v.silent = (w.silent \/ roster # w.me.roster)
    /\ v.me.absent = w.me.absent

TurnsAway(w, v) ==
    /\ v.me.phase = "idle" /\ v.me.tries = w.me.tries /\ v.over = TRUE /\ v.silent = w.silent
    /\ v.me = Idle(w.me.tries)

LEMMA HeardWelcome ==
    ASSUME NEW w \in Hearings, ~w.over, NEW m \in Mails, m.kind = "welcome"
    PROVE  /\ m.slot \in Slots /\ m.roster \in Rosters
           /\ Heard(w, m) \in Hearings /\ Welcomes(w, Heard(w, m), m.slot, m.roster)
<1> DEFINE v == [w EXCEPT !.me.welcomed = TRUE, !.me.local = m.slot, !.me.roster = m.roster]
<1>1. Heard(w, m) = v
    BY DEF Heard
<1>2. m.slot \in Slots /\ m.roster \in Rosters
    BY DEF Mails
<1>3. TRUE \in Flags /\ m.slot \in Locals
    BY <1>2 DEF Flags, Locals
<1>4. w.me \in Joiners
    BY DEF Hearings
<1> HIDE DEF Rosters, Flags, Stages, Locals, SlotSets, Mails
<1> DEFINE me == [w.me EXCEPT !.welcomed = TRUE, !.local = m.slot, !.roster = m.roster]
<1>5. me \in Joiners
    BY <1>2, <1>3, <1>4 DEF Joiners
<1>6. /\ me.phase = w.me.phase /\ me.tries = w.me.tries /\ me.welcomed = TRUE
      /\ me.local = m.slot /\ me.roster = m.roster /\ me.absent = w.me.absent
    BY <1>4 DEF Joiners
<1>7. v = [w EXCEPT !.me = me]
    BY <1>4 DEF Hearings, Joiners
<1> HIDE DEF me, v
<1>8. v \in Hearings /\ v.me = me /\ v.silent = w.silent /\ v.over = w.over
    BY <1>5, <1>7 DEF Hearings
<1> QED
    BY <1>1, <1>2, <1>6, <1>8 DEF Welcomes

LEMMA HeardRoster ==
    ASSUME NEW w \in Hearings, ~w.over, NEW m \in Mails, m.kind = "roster"
    PROVE  /\ m.roster \in Rosters
           /\ Heard(w, m) \in Hearings /\ Informs(w, Heard(w, m), m.roster)
<1> DEFINE told == w.silent \/ Replaced(w.me.roster, m.roster)
           v == [w EXCEPT !.me.roster = m.roster, !.silent = told]
<1>1. Heard(w, m) = v
    <2>1. Heard(w, m) = [w EXCEPT !.me.roster = m.roster,
                                  !.silent = @ \/ Replaced(w.me.roster, m.roster)]
        BY DEF Heard
    <2> HIDE DEF Replaced
    <2> QED
        BY <2>1 DEF Hearings, Joiners
<1>2. m.roster \in Rosters
    BY DEF Mails
<1>3. told \in Flags
    BY DEF Flags, Hearings, Replaced
<1>4. w.me \in Joiners
    BY DEF Hearings
<1> HIDE DEF Rosters, Flags, Stages, Locals, SlotSets, Mails, told
<1> DEFINE me == [w.me EXCEPT !.roster = m.roster]
<1>5. me \in Joiners
    BY <1>2, <1>4 DEF Joiners
<1>6. /\ me.phase = w.me.phase /\ me.tries = w.me.tries /\ me.welcomed = w.me.welcomed
      /\ me.local = w.me.local /\ me.roster = m.roster /\ me.absent = w.me.absent
    BY <1>4 DEF Joiners
<1>7. v = [w EXCEPT !.me = me, !.silent = told]
    BY <1>4 DEF Hearings, Joiners
<1> HIDE DEF me, v
<1>8. v \in Hearings /\ v.me = me /\ v.silent = told /\ v.over = w.over
    BY <1>3, <1>5, <1>7 DEF Hearings
<1> QED
    BY <1>1, <1>2, <1>6, <1>8 DEF Informs, told

LEMMA HeardStart ==
    ASSUME NEW w \in Hearings, ~w.over, NEW m \in Mails, m.kind = "start"
    PROVE  /\ m.roster \in Rosters
           /\ Heard(w, m) \in Hearings /\ Starts(w, Heard(w, m), m.roster)
<1> DEFINE told == w.silent \/ m.roster # w.me.roster
           v == [w EXCEPT !.me.roster = m.roster, !.me.phase = "starting", !.over = TRUE,
                          !.silent = told]
<1>1. Heard(w, m) = v
    BY DEF Heard, Hearings
<1>2. m.roster \in Rosters
    BY DEF Mails
<1>3. told \in Flags /\ "starting" \in Stages /\ TRUE \in Flags
    BY DEF Flags, Hearings, Stages
<1>4. w.me \in Joiners
    BY DEF Hearings
<1> HIDE DEF Rosters, Flags, Stages, Locals, SlotSets, Mails, told
<1> DEFINE me == [w.me EXCEPT !.roster = m.roster, !.phase = "starting"]
<1>5. me \in Joiners
    BY <1>2, <1>3, <1>4 DEF Joiners
<1>6. /\ me.phase = "starting" /\ me.tries = w.me.tries /\ me.welcomed = w.me.welcomed
      /\ me.local = w.me.local /\ me.roster = m.roster /\ me.absent = w.me.absent
    BY <1>4 DEF Joiners
<1>7. v = [w EXCEPT !.me = me, !.over = TRUE, !.silent = told]
    BY <1>4 DEF Hearings, Joiners
<1> HIDE DEF me, v
<1>8. v \in Hearings /\ v.me = me /\ v.silent = told /\ v.over = TRUE
    BY <1>3, <1>5, <1>7 DEF Hearings
<1> QED
    BY <1>1, <1>2, <1>6, <1>8 DEF Starts, told

LEMMA HeardRefusal ==
    ASSUME NEW w \in Hearings, ~w.over, NEW m \in Mails, m.kind \in {"refuse", "bye"}
    PROVE  Heard(w, m) \in Hearings /\ TurnsAway(w, Heard(w, m))
<1> DEFINE me == Idle(w.me.tries)
           v == [w EXCEPT !.me = me, !.over = TRUE]
<1>1. Heard(w, m) = v
    BY DEF Heard, Hearings
<1>2. w.me \in Joiners
    BY DEF Hearings
<1>3. w.me.tries \in Nat
    BY <1>2 DEF Joiners
<1>4. me \in Joiners /\ me.tries = w.me.tries /\ me.phase = "idle" /\ me.welcomed = FALSE
    BY <1>3, IdleIs
<1>5. TRUE \in Flags
    BY DEF Flags
<1> HIDE DEF me, Flags, Joiners
<1>6. v \in Hearings /\ v.me = me /\ v.silent = w.silent /\ v.over = TRUE
    BY <1>4, <1>5 DEF Hearings
<1> HIDE DEF v
<1>7. TurnsAway(w, v)
    BY <1>4, <1>6 DEF TurnsAway, me
<1> QED
    BY <1>1, <1>6, <1>7

(* However it goes on, it goes on from there.                               *)
LEMMA HeardIs ==
    ASSUME NEW w, Reading(w), NEW m \in Mails
    PROVE  /\ Reading(Heard(w, m)) /\ Heard(w, m).me.tries = w.me.tries
           /\ w.over => Heard(w, m) = w
<1>1. w \in Hearings
    BY DEF Reading
<1> HIDE DEF Heard, Mails, Hearings
<1>2. CASE w.over \/ m.kind \notin {"welcome", "roster", "start", "refuse", "bye"}
    BY <1>1, <1>2, HeardNothing
<1>3. CASE ~w.over /\ m.kind = "welcome"
    BY <1>1, <1>3, HeardWelcome DEF Welcomes, Reading
<1>4. CASE ~w.over /\ m.kind = "roster"
    BY <1>1, <1>4, HeardRoster DEF Informs, Reading
<1>5. CASE ~w.over /\ m.kind = "start"
    BY <1>1, <1>5, HeardStart DEF Starts, Reading
<1>6. CASE ~w.over /\ m.kind \in {"refuse", "bye"}
    BY <1>1, <1>6, HeardRefusal DEF TurnsAway, Reading
<1> QED
    BY <1>2, <1>3, <1>4, <1>5, <1>6

-----------------------------------------------------------------------------
(* What a joiner makes of all that is on its way.                           *)

(* Where the reading can be.                                                *)
Beyond(w) == {x \in Hearings : /\ Reading(x) /\ x.me.tries = w.me.tries
                               /\ w.over => x = w}

(* h goes through the first n messages of a queue.                          *)
Reads(h, w, queue, n) ==
    /\ h[0] = w
    /\ \A i \in 0 .. n : h[i] \in Beyond(w)
    /\ \A i \in 1 .. n : h[i] = Heard(h[i - 1], queue[i])

LEMMA ToldSteps ==
    ASSUME NEW w, Reading(w), NEW queue \in Seq(Mails), NEW n \in 0 .. Len(queue)
    PROVE  \E h : Reads(h, w, queue, n) /\ Told(w, queue, n) = h[n]
<1> DEFINE S == Beyond(w)
           F(f) == f = [i \in 0 .. n |-> IF i = 0 THEN w ELSE Heard(f[i - 1], queue[i])]
           heard == CHOOSE f : F(f)
<1>1. n \in Nat /\ \A i \in 1 .. n : queue[i] \in Mails
    OBVIOUS
<1>2. w \in S
    BY DEF Reading, Beyond
<1>3. ASSUME NEW i \in 1 .. n, NEW x \in S
      PROVE  Heard(x, queue[i]) \in S
    <2>1. queue[i] \in Mails /\ Reading(x) /\ x.me.tries = w.me.tries /\ (w.over => x = w)
        BY <1>1 DEF Beyond
    <2> HIDE DEF Heard, Mails, Hearings
    <2> DEFINE m == queue[i]
               v == Heard(x, m)
    <2>2. m \in Mails
        BY <2>1
    <2> HIDE DEF m
    <2>3. Reading(v) /\ v.me.tries = x.me.tries /\ (x.over => v = x)
        BY <2>1, <2>2, HeardIs
    <2> HIDE DEF v
    <2>4. v \in S
        BY <2>1, <2>3 DEF Beyond, Reading
    <2> QED
        BY <2>4 DEF v, m
<1>4. PICK G \in [1 .. n -> [S -> S]] : \A i \in 1 .. n : \A x \in S : G[i][x] = Heard(x, queue[i])
    <2> DEFINE G == [i \in 1 .. n |-> [x \in S |-> Heard(x, queue[i])]]
    <2> HIDE DEF S, Heard
    <2>1. G \in [1 .. n -> [S -> S]]
        BY <1>3
    <2>2. \A i \in 1 .. n : \A x \in S : G[i][x] = Heard(x, queue[i])
        OBVIOUS
    <2> HIDE DEF G
    <2> QED
        BY <2>1, <2>2
<1>5. PICK f : Walks(f, S, w, n, G)
    <2>1. n \in Nat /\ w \in S /\ G \in [1 .. n -> [S -> S]]
        BY <1>1, <1>2, <1>4
    <2> HIDE DEF S, F, heard
    <2> QED
        BY <2>1, WalkExists
<1> HIDE DEF S, Heard
<1>6. \A i \in 1 .. n : i \in 0 .. n /\ i - 1 \in 0 .. n /\ i # 0
    BY <1>1
<1>7. \A i \in 1 .. n : f[i] = Heard(f[i - 1], queue[i])
    BY <1>4, <1>5, <1>6 DEF Walks
<1>8. \A i \in 0 .. n : i = 0 \/ i \in 1 .. n
    BY <1>1
<1>9. Told(w, queue, n) = heard[n]
    BY DEF Told
<1>10. F(f)
    BY <1>5, <1>7, <1>8 DEF Walks
<1> HIDE DEF F
<1>11. F(heard)
    BY <1>10
<1>12. heard = [i \in 0 .. n |-> IF i = 0 THEN w ELSE Heard(heard[i - 1], queue[i])]
    BY <1>11 DEF F
<1> HIDE DEF heard
<1>13. heard[0] = w /\ \A i \in 1 .. n : heard[i] = Heard(heard[i - 1], queue[i])
    BY <1>1, <1>6, <1>12
<1> DEFINE P == {i \in 0 .. n : heard[i] \in S}
<1>14. 0 .. n \subseteq P
    <2>1. 0 \in P
        BY <1>1, <1>2, <1>13
    <2>2. ASSUME NEW i \in 0 .. n - 1, i \in P PROVE i + 1 \in P
        <3>1. i + 1 \in 1 .. n /\ i + 1 \in 0 .. n /\ i + 1 - 1 = i
            BY <1>1
        <3>2. heard[i + 1] = Heard(heard[i], queue[i + 1]) /\ heard[i] \in S
            BY <1>13, <2>2, <3>1
        <3> QED
            BY <1>3, <3>1, <3>2
    <2> HIDE DEF P
    <2> QED
        BY <1>1, <2>1, <2>2, StepByStep
<1>15. \A i \in 0 .. n : heard[i] \in S
    BY <1>14
<1> QED
    BY <1>9, <1>13, <1>15 DEF Reads, S

(* Queues that begin alike are read alike.                                  *)
Agree(g, h, from, to) == \A i \in from .. to : g[i] = h[i]

LEMMA ReadsAlike ==
    ASSUME NEW w, NEW n \in Nat, NEW q, NEW r, Agree(q, r, 1, n),
           NEW g, Reads(g, w, q, n), NEW h, Reads(h, w, r, n)
    PROVE  Agree(g, h, 0, n)
<1> DEFINE P == {i \in 0 .. n : g[i] = h[i]}
<1>1. 0 \in P
    BY DEF Reads
<1>2. ASSUME NEW i \in 0 .. n - 1, i \in P PROVE i + 1 \in P
    <2>1. i + 1 \in 1 .. n /\ i + 1 \in 0 .. n /\ i + 1 - 1 = i
        OBVIOUS
    <2>2. g[i + 1] = Heard(g[i], q[i + 1]) /\ h[i + 1] = Heard(h[i], r[i + 1])
        BY <2>1 DEF Reads
    <2>3. q[i + 1] = r[i + 1]
        BY <2>1 DEF Agree
    <2> HIDE DEF Heard
    <2> QED
        BY <1>2, <2>1, <2>2, <2>3
<1>3. 0 .. n \subseteq P
    <2> HIDE DEF P
    <2> QED
        BY <1>1, <1>2, StepByStep
<1> QED
    BY <1>3 DEF Agree

LEMMA ToldNothing ==
    ASSUME NEW w, Reading(w), NEW queue \in Seq(Mails)
    PROVE  Told(w, queue, 0) = w
<1>1. PICK h : Reads(h, w, queue, 0) /\ Told(w, queue, 0) = h[0]
    BY ToldSteps
<1> QED
    BY <1>1 DEF Reads

LEMMA ToldIs ==
    ASSUME NEW w, Reading(w), NEW queue \in Seq(Mails), NEW n \in 0 .. Len(queue)
    PROVE  Told(w, queue, n) \in Beyond(w)
<1>1. PICK h : Reads(h, w, queue, n) /\ Told(w, queue, n) = h[n]
    BY ToldSteps
<1> QED
    BY <1>1 DEF Reads

LEMMA ToldMore ==
    ASSUME NEW w, Reading(w), NEW queue \in Seq(Mails), NEW m \in Mails
    PROVE  Told(w, Append(queue, m), Len(Append(queue, m)))
               = Heard(Told(w, queue, Len(queue)), m)
<1> DEFINE n == Len(queue)
           more == Append(queue, m)
<1>1. more \in Seq(Mails) /\ Grown(queue, more, m, n + 1)
    BY Added
<1>2. n \in Nat /\ n \in 0 .. Len(queue)
    OBVIOUS
<1> HIDE DEF more, n
<1>3. Len(more) = n + 1 /\ \A i \in 1 .. n : more[i] = queue[i]
    BY <1>1 DEF Grown, n
<1>4. more[n + 1] = m
    BY <1>1 DEF Grown
<1>5. PICK g : Reads(g, w, queue, n) /\ Told(w, queue, n) = g[n]
    BY <1>2, ToldSteps
<1>6. n + 1 \in 0 .. Len(more)
    BY <1>2, <1>3
<1>7. PICK h : Reads(h, w, more, n + 1) /\ Told(w, more, n + 1) = h[n + 1]
    BY <1>1, <1>6, ToldSteps
<1>8. Reads(h, w, more, n)
    <2>1. 0 .. n \subseteq 0 .. n + 1 /\ 1 .. n \subseteq 1 .. n + 1
        BY <1>2
    <2> HIDE DEF Heard, Beyond
    <2> QED
        BY <1>7, <2>1 DEF Reads
<1>9. \A i \in 0 .. n : h[i] = g[i]
    <2>1. n \in Nat /\ Agree(more, queue, 1, n)
        BY <1>2, <1>3 DEF Agree
    <2>2. Reads(h, w, more, n) /\ Reads(g, w, queue, n)
        BY <1>5, <1>8
    <2>3. Agree(h, g, 0, n)
        BY <2>1, <2>2, ReadsAlike
    <2> QED
        BY <2>3 DEF Agree
<1>10. n \in 0 .. n /\ n + 1 \in 1 .. n + 1 /\ n + 1 - 1 = n
    BY <1>2
<1>11. h[n + 1] = Heard(h[n], more[n + 1])
    BY <1>7, <1>10 DEF Reads
<1> QED
    BY <1>3, <1>4, <1>5, <1>7, <1>9, <1>10, <1>11 DEF n, more

(* What is said aside, when the joiner only said hello meanwhile.           *)
Alike(v, w) ==
    /\ v.over = w.over /\ v.silent = w.silent
    /\ v.me.phase = w.me.phase /\ v.me.tries = w.me.tries /\ v.me.welcomed = w.me.welcomed
    /\ v.me.local = w.me.local /\ v.me.roster = w.me.roster

LEMMA HeardAlike ==
    ASSUME NEW v, Reading(v), NEW w, Reading(w), Alike(v, w), NEW m \in Mails
    PROVE  Alike(Heard(v, m), Heard(w, m))
<1>1. v \in Hearings /\ w \in Hearings /\ v.over = w.over
    BY DEF Reading, Alike
<1> HIDE DEF Heard, Mails, Hearings
<1>2. CASE v.over \/ m.kind \notin {"welcome", "roster", "start", "refuse", "bye"}
    BY <1>1, <1>2, HeardNothing
<1>3. CASE ~v.over /\ m.kind = "welcome"
    <2>1. Welcomes(v, Heard(v, m), m.slot, m.roster) /\ Welcomes(w, Heard(w, m), m.slot, m.roster)
        BY <1>1, <1>3, HeardWelcome
    <2> QED
        BY <2>1 DEF Welcomes, Alike
<1>4. CASE ~v.over /\ m.kind = "roster"
    <2>1. Informs(v, Heard(v, m), m.roster) /\ Informs(w, Heard(w, m), m.roster)
        BY <1>1, <1>4, HeardRoster
    <2> QED
        BY <2>1 DEF Informs, Alike
<1>5. CASE ~v.over /\ m.kind = "start"
    <2>1. Starts(v, Heard(v, m), m.roster) /\ Starts(w, Heard(w, m), m.roster)
        BY <1>1, <1>5, HeardStart
    <2> QED
        BY <2>1 DEF Starts, Alike
<1>6. CASE ~v.over /\ m.kind \in {"refuse", "bye"}
    <2>1. TurnsAway(v, Heard(v, m)) /\ TurnsAway(w, Heard(w, m))
        BY <1>1, <1>6, HeardRefusal
    <2>2. Heard(v, m).me = Heard(w, m).me
        BY <2>1 DEF TurnsAway, Alike
    <2> QED
        BY <2>1, <2>2 DEF TurnsAway, Alike
<1> QED
    BY <1>2, <1>3, <1>4, <1>5, <1>6

LEMMA ToldAlike ==
    ASSUME NEW v, Reading(v), NEW w, Reading(w), Alike(v, w),
           NEW queue \in Seq(Mails), NEW n \in 0 .. Len(queue)
    PROVE  Alike(Told(v, queue, n), Told(w, queue, n))
<1>1. PICK g : Reads(g, v, queue, n) /\ Told(v, queue, n) = g[n]
    BY ToldSteps
<1>2. PICK h : Reads(h, w, queue, n) /\ Told(w, queue, n) = h[n]
    BY ToldSteps
<1> DEFINE P == {i \in 0 .. n : Alike(g[i], h[i])}
<1>3. n \in Nat /\ n \in 0 .. n /\ \A i \in 1 .. n : queue[i] \in Mails
    OBVIOUS
<1>4. 0 \in P
    BY <1>1, <1>2, <1>3 DEF Reads
<1>5. ASSUME NEW i \in 0 .. n - 1, i \in P PROVE i + 1 \in P
    <2>1. i + 1 \in 1 .. n /\ i + 1 \in 0 .. n /\ i \in 0 .. n /\ i + 1 - 1 = i
        BY <1>3
    <2>2. g[i + 1] = Heard(g[i], queue[i + 1]) /\ h[i + 1] = Heard(h[i], queue[i + 1])
        BY <1>1, <1>2, <2>1 DEF Reads
    <2>3. Reading(g[i]) /\ Reading(h[i]) /\ queue[i + 1] \in Mails /\ Alike(g[i], h[i])
        BY <1>1, <1>2, <1>3, <1>5, <2>1 DEF Reads, Beyond
    <2> HIDE DEF Heard, Mails, Alike
    <2>4. Alike(Heard(g[i], queue[i + 1]), Heard(h[i], queue[i + 1]))
        BY <2>3, HeardAlike
    <2> QED
        BY <2>1, <2>2, <2>4
<1>6. 0 .. n \subseteq P
    <2> HIDE DEF P
    <2> QED
        BY <1>3, <1>4, <1>5, StepByStep
<1> QED
    BY <1>1, <1>2, <1>3, <1>6

-----------------------------------------------------------------------------
(* Queues and links.                                                        *)

LEMMA EndIs == End \in Mails /\ Bye \in Mails /\ End # Bye
BY DEF End, Bye, Mails

LEMMA PutIs ==
    ASSUME NEW queue \in Queues, NEW m \in Mails
    PROVE  /\ Put(queue, m) \in Queues
           /\ Ended(queue) => Put(queue, m) = queue
           /\ ~Ended(queue) => Put(queue, m) = Append(queue, m)
           /\ ~Ended(queue) /\ m # End => ~Ended(Put(queue, m))
<1>1. Append(queue, m) \in Seq(Mails) /\ Grown(queue, Append(queue, m), m, Len(queue) + 1)
    BY Added DEF Queues
<1>2. /\ Ended(queue) => Put(queue, m) = queue
      /\ ~Ended(queue) => Put(queue, m) = Append(queue, m)
    BY DEF Put, Ended
<1> HIDE DEF Mails, End
<1>3. Last(Append(queue, m)) = m
    BY <1>1 DEF Grown, Last
<1> QED
    BY <1>1, <1>2, <1>3 DEF Queues, Ended

LEMMA FreshIs ==
    ASSUME NEW me \in Joiners
    PROVE  Reading(Fresh(me)) /\ Fresh(me).me = me /\ Fresh(me).silent = FALSE
           /\ (Fresh(me).over <=> me.phase # "joining")
<1>1. FALSE \in Flags /\ (me.phase # "joining") \in Flags
    BY DEF Flags
<1> HIDE DEF Flags, Joiners
<1>2. Fresh(me) \in Hearings
    BY <1>1 DEF Fresh, Hearings
<1> QED
    BY <1>2 DEF Fresh, Reading

LEMMA AllToldIs ==
    ASSUME NEW me \in Joiners, NEW queue \in Queues
    PROVE  /\ Reading(AllTold(me, queue)) /\ AllTold(me, queue).me.tries = me.tries
           /\ queue = <<>> => AllTold(me, queue) = Fresh(me)
           /\ me.phase # "joining" => AllTold(me, queue) = Fresh(me)
<1> DEFINE w == Fresh(me)
<1>1. Reading(w) /\ w.me = me /\ (w.over <=> me.phase # "joining")
    BY FreshIs
<1>2. queue \in Seq(Mails) /\ Len(queue) \in 0 .. Len(queue)
    BY DEF Queues
<1> HIDE DEF w
<1>3. Told(w, queue, Len(queue)) \in Beyond(w)
    BY <1>1, <1>2, ToldIs
<1>4. Told(w, queue, 0) = w
    BY <1>1, <1>2, ToldNothing
<1>5. queue = <<>> => Len(queue) = 0
    OBVIOUS
<1> QED
    BY <1>1, <1>3, <1>4, <1>5 DEF Beyond, AllTold, w

LEMMA ToldPut ==
    ASSUME NEW me \in Joiners, NEW queue \in Queues, NEW m \in Mails
    PROVE  /\ Ended(queue) => AllTold(me, Put(queue, m)) = AllTold(me, queue)
           /\ ~Ended(queue) => AllTold(me, Put(queue, m)) = Heard(AllTold(me, queue), m)
<1>1. /\ Ended(queue) => Put(queue, m) = queue
      /\ ~Ended(queue) => Put(queue, m) = Append(queue, m)
    BY PutIs
<1>2. Reading(Fresh(me)) /\ queue \in Seq(Mails)
    BY FreshIs DEF Queues
<1> HIDE DEF Mails, Heard, Fresh, Queues, Ended, Put
<1>3. Told(Fresh(me), Append(queue, m), Len(Append(queue, m)))
          = Heard(Told(Fresh(me), queue, Len(queue)), m)
    BY <1>2, ToldMore
<1> QED
    BY <1>1, <1>3 DEF AllTold

LEMMA SendDownIs ==
    ASSUME NEW k \in Wires, NEW m \in Mails
    PROVE  LET s == SendDown(k, m)
           IN  /\ s \in Wires /\ s.far = k.far /\ s.near = k.near
               /\ s.down = IF k.near = "open" /\ k.far # "closed" THEN Put(k.down, m) ELSE k.down
<1>1. k.down \in Queues
    BY DEF Wires
<1>2. Put(k.down, m) \in Queues
    BY <1>1, PutIs
<1> HIDE DEF Queues, Fars, Nears, Put
<1> QED
    BY <1>2 DEF SendDown, Wires

LEMMA SendUpIs ==
    ASSUME NEW k \in Wires, NEW m \in Mails
    PROVE  LET s == SendUp(k, m)
           IN  s \in Wires /\ s.far = k.far /\ s.near = k.near /\ s.down = k.down
<1>1. k.up \in Queues
    BY DEF Wires
<1>2. Put(k.up, m) \in Queues
    BY <1>1, PutIs
<1> HIDE DEF Queues, Fars, Nears, Put
<1> QED
    BY <1>2 DEF SendUp, Wires

LEMMA CloseNearIs ==
    ASSUME NEW k \in Wires
    PROVE  LET s == CloseNear(k)
           IN  /\ s \in Wires /\ s.far = k.far /\ s.near = "closed"
               /\ s.down = IF k.far = "closed" THEN <<>> ELSE Put(k.down, End)
<1>1. k.down \in Queues
    BY DEF Wires
<1>2. Put(k.down, End) \in Queues /\ <<>> \in Queues /\ "closed" \in Nears
    BY <1>1, PutIs, EndIs DEF Queues, Nears
<1> DEFINE down == IF k.far = "closed" THEN <<>> ELSE Put(k.down, End)
           none == <<>>
<1>3. down \in Queues /\ none \in Queues
    BY <1>2
<1>4. CloseNear(k) = [k EXCEPT !.near = "closed", !.up = none, !.down = down]
    BY DEF CloseNear, Wires
<1> HIDE DEF Queues, Fars, Nears, Put, down, none
<1>5. /\ CloseNear(k) \in Wires /\ CloseNear(k).far = k.far /\ CloseNear(k).near = "closed"
      /\ CloseNear(k).down = down
    BY <1>2, <1>3, <1>4 DEF Wires
<1> QED
    BY <1>5 DEF down

LEMMA CloseFarIs ==
    ASSUME NEW k \in Wires
    PROVE  LET s == CloseFar(k)
           IN  s \in Wires /\ s.far = "closed" /\ s.near = k.near /\ s.down = <<>>
<1>1. k.up \in Queues
    BY DEF Wires
<1>2. Put(k.up, End) \in Queues /\ <<>> \in Queues /\ "closed" \in Fars
    BY <1>1, PutIs, EndIs DEF Queues, Fars
<1> DEFINE up == IF k.near = "open" THEN Put(k.up, End) ELSE <<>>
           none == <<>>
<1>3. up \in Queues /\ none \in Queues
    BY <1>2
<1>4. CloseFar(k) = [k EXCEPT !.far = "closed", !.down = none, !.up = up]
    BY DEF CloseFar, Wires
<1> HIDE DEF Queues, Fars, Nears, Put, up, none
<1>5. /\ CloseFar(k) \in Wires /\ CloseFar(k).far = "closed" /\ CloseFar(k).near = k.near
      /\ CloseFar(k).down = none
    BY <1>2, <1>3, <1>4 DEF Wires
<1> QED
    BY <1>5 DEF none

LEMMA RestIs ==
    ASSUME NEW queue \in Queues, NEW n \in {0, Len(queue)}
    PROVE  /\ Rest(queue, n) \in Queues
           /\ n = 0 => Rest(queue, n) = queue /\ Batch(queue, n) = {}
           /\ n = Len(queue) => Rest(queue, n) = <<>>
<1> HIDE DEF Mails
<1>1. queue \in Seq(Mails) /\ Len(queue) \in Nat
    BY DEF Queues
<1>2. CASE n = 0
    <2>1. SubSeq(queue, 1, Len(queue)) = queue
        BY <1>1
    <2> QED
        BY <1>1, <1>2, <2>1 DEF Rest, Batch, Queues
<1>3. CASE n = Len(queue)
    <2>1. SubSeq(queue, n + 1, Len(queue)) = <<>>
        BY <1>1, <1>3
    <2>2. n = 0 => queue = <<>>
        BY <1>1, <1>3, EmptySeq
    <2> QED
        BY <1>1, <1>3, <2>1, <2>2 DEF Rest, Batch, Queues
<1> QED
    BY <1>2, <1>3

LEMMA ReceiveNearIs ==
    ASSUME NEW k \in Wires, NEW n \in {0, Len(k.up)}
    PROVE  LET s == ReceiveNear(k, n)
           IN  /\ s \in Wires /\ s.far = k.far /\ s.down = k.down
               /\ s.near = IF End \in Batch(k.up, n) THEN "closed" ELSE k.near
<1>1. k.up \in Queues
    BY DEF Wires
<1>2. Rest(k.up, n) \in Queues /\ "closed" \in Nears
    BY <1>1, RestIs DEF Nears
<1> HIDE DEF Queues, Fars, Nears
<1> QED
    BY <1>2 DEF ReceiveNear, Wires

LEMMA ReceiveFarIs ==
    ASSUME NEW k \in Wires, NEW n \in {0, Len(k.down)}
    PROVE  LET s == ReceiveFar(k, n)
           IN  /\ s \in Wires /\ s.near = k.near /\ s.down = Rest(k.down, n)
               /\ s.far = IF End \in Batch(k.down, n) THEN "closed" ELSE k.far
<1>1. k.down \in Queues
    BY DEF Wires
<1>2. Rest(k.down, n) \in Queues /\ "closed" \in Fars
    BY <1>1, RestIs DEF Fars
<1> HIDE DEF Queues, Fars, Nears
<1> QED
    BY <1>2 DEF ReceiveFar, Wires

-----------------------------------------------------------------------------
(* What the host does to one link, and what its joiner makes of it.         *)

LEMMA ShutFollows ==
    ASSUME NEW k, NEW me, k.near # "open", ~AllTold(me, k.down).silent,
           NEW seat, NEW roster, NEW playing
    PROVE  Follows(k, me, seat, roster, playing)
BY DEF Follows

(* Nothing arrived: the link is as it was, or the host closed its end.      *)
LEMMA StillFollows ==
    ASSUME NEW k, NEW me, NEW seat, NEW roster, NEW playing,
           Follows(k, me, seat, roster, playing),
           NEW s, s.down = k.down, s.far = k.far, s.near = k.near \/ s.near # "open"
    PROVE  Follows(s, me, seat, roster, playing)
BY DEF Follows

(* Whoever has no place yet is told nothing of the roster.                  *)
LEMMA OutsideFollows ==
    ASSUME NEW k, NEW me, NEW roster, NEW playing, Follows(k, me, {}, roster, playing),
           NEW other, NEW later
    PROVE  Follows(k, me, {}, other, later)
BY DEF Follows

LEMMA SendTells ==
    ASSUME NEW k \in Wires, NEW me \in Joiners, NEW m \in Mails
    PROVE  LET s == SendDown(k, m)
               reached == k.near = "open" /\ k.far # "closed" /\ ~Ended(k.down)
           IN  /\ s \in Wires /\ s.far = k.far /\ s.near = k.near
               /\ ~reached => s.down = k.down
               /\ reached => AllTold(me, s.down) = Heard(AllTold(me, k.down), m)
               /\ reached /\ m # End => ~Ended(s.down)
<1>1. k.down \in Queues
    BY DEF Wires
<1>2. /\ SendDown(k, m) \in Wires /\ SendDown(k, m).far = k.far /\ SendDown(k, m).near = k.near
      /\ SendDown(k, m).down = IF k.near = "open" /\ k.far # "closed" THEN Put(k.down, m) ELSE k.down
    BY SendDownIs
<1>3. /\ Ended(k.down) => Put(k.down, m) = k.down
      /\ ~Ended(k.down) /\ m # End => ~Ended(Put(k.down, m))
    BY <1>1, PutIs
<1>4. ~Ended(k.down) => AllTold(me, Put(k.down, m)) = Heard(AllTold(me, k.down), m)
    BY <1>1, ToldPut
<1> HIDE DEF Wires, Mails, Heard, Ended, Put, SendDown, AllTold
<1> QED
    BY <1>2, <1>3, <1>4

(* A message of none of these kinds is no news of the lobby.                *)
LEMMA QuietFollows ==
    ASSUME NEW k \in Wires, NEW me \in Joiners, NEW seat, NEW roster, NEW playing,
           Follows(k, me, seat, roster, playing),
           NEW m \in Mails, m # End,
           m.kind \notin {"welcome", "roster", "start", "refuse", "bye"}
    PROVE  Follows(SendDown(k, m), me, seat, roster, playing)
<1> DEFINE s == SendDown(k, m)
           then == AllTold(me, k.down)
<1>1. k.down \in Queues
    BY DEF Wires
<1>2. then \in Hearings
    BY <1>1, AllToldIs DEF Reading
<1>3. Heard(then, m) = then
    BY <1>2, HeardNothing
<1>4. /\ s.far = k.far /\ s.near = k.near
      /\ s.down = k.down \/ (AllTold(me, s.down) = then /\ ~Ended(k.down))
    BY <1>3, SendTells
<1> HIDE DEF s
<1> QED
    BY <1>4 DEF Follows, s

(* The host tells a joiner that it is out, and closes the link.             *)
LEMMA ClosedIsQuiet ==
    ASSUME NEW k \in Wires, NEW me \in Joiners, ~AllTold(me, k.down).silent
    PROVE  /\ CloseNear(k) \in Wires /\ CloseNear(k).near = "closed" /\ CloseNear(k).far = k.far
           /\ ~AllTold(me, CloseNear(k).down).silent
<1> DEFINE s == CloseNear(k)
           then == AllTold(me, k.down)
<1>1. k.down \in Queues /\ End \in Mails /\ <<>> \in Queues
    BY EndIs DEF Wires, Queues
<1>2. then \in Hearings
    BY <1>1, AllToldIs DEF Reading
<1>3. Heard(then, End) = then
    BY <1>1, <1>2, HeardNothing DEF End
<1>4. AllTold(me, Put(k.down, End)) = then
    BY <1>1, <1>3, ToldPut
<1>5. AllTold(me, <<>>).silent = FALSE
    BY <1>1, AllToldIs, FreshIs
<1>6. /\ s \in Wires /\ s.near = "closed" /\ s.far = k.far
      /\ s.down = IF k.far = "closed" THEN <<>> ELSE Put(k.down, End)
    BY CloseNearIs
<1> HIDE DEF s
<1>7. ~AllTold(me, s.down).silent
    <2>1. CASE s.down = <<>>
        BY <1>5, <2>1
    <2>2. CASE s.down = Put(k.down, End)
        BY <1>4, <2>2
    <2> QED
        BY <1>6, <2>1, <2>2
<1> QED
    BY <1>6, <1>7 DEF s

LEMMA RefusedIsQuiet ==
    ASSUME NEW k \in Wires, NEW me \in Joiners, ~AllTold(me, k.down).silent,
           NEW m \in Mails, m.kind \in {"refuse", "bye"}
    PROVE  ~AllTold(me, SendDown(k, m).down).silent
<1> DEFINE s == SendDown(k, m)
           then == AllTold(me, k.down)
<1>1. k.down \in Queues
    BY DEF Wires
<1>2. Reading(then)
    BY <1>1, AllToldIs
<1>3. s.down = k.down \/ AllTold(me, s.down) = Heard(then, m)
    BY SendTells
<1>4. Heard(then, m).silent = then.silent
    <2>1. CASE then.over
        BY <1>2, <2>1, HeardIs
    <2>2. CASE ~then.over
        BY <1>2, <2>2, HeardRefusal DEF TurnsAway, Reading
    <2> QED
        BY <2>1, <2>2
<1> HIDE DEF s
<1> QED
    BY <1>3, <1>4 DEF s

(* A roster that replaces nobody, told to whoever has a place.              *)
LEMMA RosterFollows ==
    ASSUME NEW k \in Wires, NEW me \in Joiners, NEW seat, seat # {}, NEW old, NEW new \in Rosters,
           Follows(k, me, seat, old, FALSE), ~Replaced(old, new),
           k.near = "open" => k.far \in {"open", "closed"}
    PROVE  Follows(SendDown(k, Roster(new)), me, seat, new, FALSE)
<1> DEFINE m == Roster(new)
           s == SendDown(k, m)
           then == AllTold(me, k.down)
           after == AllTold(me, s.down)
<1>1. k.down \in Queues
    BY DEF Wires
<1>2. m \in Mails /\ m.kind = "roster" /\ m.roster = new /\ m # End
    BY DEF Roster, Mails, End
<1>3. Reading(then)
    BY <1>1, AllToldIs
<1> DEFINE reached == k.near = "open" /\ k.far # "closed" /\ ~Ended(k.down)
<1> HIDE DEF m, then
<1>4. /\ s.far = k.far /\ s.near = k.near
      /\ ~reached => s.down = k.down
      /\ reached => after = Heard(then, m)
    BY <1>2, SendTells DEF then
<1> HIDE DEF s
<1>5. CASE ~reached
    BY <1>4, <1>5 DEF Follows, then, s, m
<1>6. CASE reached
    <2>1. k.far = "open" /\ ~Ended(k.down) /\ k.near = "open"
        BY <1>6
    <2>2. then.me.welcomed /\ then.me.roster = old /\ ~then.over /\ ~then.silent
        BY <2>1 DEF Follows, then
    <2>3. Informs(then, after, new)
        BY <1>2, <1>3, <1>4, <1>6, <2>2, HeardRoster DEF Reading
    <2> HIDE DEF after
    <2>4. /\ after.me.phase = then.me.phase /\ after.me.welcomed /\ after.me.local = then.me.local
          /\ after.me.roster = new /\ ~after.over /\ ~after.silent
        BY <2>2, <2>3 DEF Informs
    <2>5. me.welcomed => seat = {me.local}
        BY <2>1 DEF Follows
    <2>6. then.me.phase # "idle" => seat = {then.me.local}
        BY <2>1, <2>2 DEF Follows, then
    <2> QED
        BY <1>4, <2>1, <2>4, <2>5, <2>6 DEF Follows, after, s, m
<1> QED
    BY <1>5, <1>6 DEF s, m

(* A joiner is let in, to a slot with a roster.                             *)
LEMMA WelcomeFollows ==
    ASSUME NEW k \in Wires, NEW me \in Joiners, NEW old, NEW slot \in Slots, NEW new \in Rosters,
           Follows(k, me, {}, old, FALSE),
           k.near = "open" => k.far \in {"open", "closed"}
    PROVE  Follows(SendDown(k, Welcome(slot, new)), me, {slot}, new, FALSE)
<1> DEFINE m == Welcome(slot, new)
           s == SendDown(k, m)
           then == AllTold(me, k.down)
           after == AllTold(me, s.down)
<1>1. k.down \in Queues
    BY DEF Wires
<1>2. m \in Mails /\ m.kind = "welcome" /\ m.roster = new /\ m.slot = slot /\ m # End
    BY DEF Welcome, Mails, End
<1>3. Reading(then)
    BY <1>1, AllToldIs
<1> DEFINE reached == k.near = "open" /\ k.far # "closed" /\ ~Ended(k.down)
<1> HIDE DEF m, then
<1>4. /\ s.far = k.far /\ s.near = k.near
      /\ ~reached => s.down = k.down
      /\ reached => after = Heard(then, m)
    BY <1>2, SendTells DEF then
<1> HIDE DEF s
<1>5. k.near = "open" => ~me.welcomed
    BY DEF Follows
<1>6. k.near = "open" /\ then.me.welcomed => then.me.phase = "idle"
    BY DEF Follows, then
<1>7. CASE ~reached
    BY <1>4, <1>5, <1>6, <1>7 DEF Follows, then, s, m
<1>8. CASE reached
    <2>1. k.far = "open" /\ ~Ended(k.down) /\ k.near = "open"
        BY <1>8
    <2>2. ~then.over /\ ~then.silent
        BY <2>1 DEF Follows, then
    <2>3. Welcomes(then, after, slot, new)
        BY <1>2, <1>3, <1>4, <1>8, <2>2, HeardWelcome DEF Reading
    <2> HIDE DEF after
    <2>4. /\ after.me.welcomed /\ after.me.local = slot /\ after.me.roster = new
          /\ ~after.over /\ ~after.silent
        BY <2>2, <2>3 DEF Welcomes
    <2> QED
        BY <1>4, <1>5, <2>1, <2>4 DEF Follows, after, s, m
<1> QED
    BY <1>7, <1>8 DEF s, m

(* The match starts, with the roster everyone has.                          *)
LEMMA StartFollows ==
    ASSUME NEW k \in Wires, NEW me \in Joiners, NEW seat, seat # {}, NEW roster \in Rosters,
           Follows(k, me, seat, roster, FALSE),
           k.near = "open" => k.far \in {"open", "closed"}
    PROVE  Follows(SendDown(k, [kind |-> "start", roster |-> roster]), me, seat, roster, TRUE)
<1> DEFINE m == [kind |-> "start", roster |-> roster]
           s == SendDown(k, m)
           then == AllTold(me, k.down)
           after == AllTold(me, s.down)
<1>1. k.down \in Queues
    BY DEF Wires
<1>2. m \in Mails /\ m.kind = "start" /\ m.roster = roster /\ m # End
    BY DEF Mails, End
<1>3. Reading(then)
    BY <1>1, AllToldIs
<1> DEFINE reached == k.near = "open" /\ k.far # "closed" /\ ~Ended(k.down)
<1> HIDE DEF m, then
<1>4. /\ s.far = k.far /\ s.near = k.near
      /\ ~reached => s.down = k.down
      /\ reached => after = Heard(then, m)
    BY <1>2, SendTells DEF then
<1> HIDE DEF s
<1>5. CASE ~reached
    BY <1>4, <1>5 DEF Follows, then, s, m
<1>6. CASE reached
    <2>1. k.far = "open" /\ ~Ended(k.down) /\ k.near = "open"
        BY <1>6
    <2>2. then.me.welcomed /\ then.me.roster = roster /\ ~then.over /\ ~then.silent
        BY <2>1 DEF Follows, then
    <2>3. Starts(then, after, roster)
        BY <1>2, <1>3, <1>4, <1>6, <2>2, HeardStart DEF Reading
    <2>4. then.me.phase = "joining"
        BY <1>3, <2>2 DEF Reading
    <2> HIDE DEF after
    <2>5. /\ after.me.welcomed /\ after.me.local = then.me.local
          /\ after.me.roster = roster /\ ~after.silent
        BY <2>2, <2>3 DEF Starts
    <2>6. me.welcomed => seat = {me.local}
        BY <2>1 DEF Follows
    <2>7. seat = {then.me.local}
        BY <2>1, <2>2, <2>4 DEF Follows, then
    <2> QED
        BY <1>4, <2>1, <2>5, <2>6, <2>7 DEF Follows, after, s, m
<1> QED
    BY <1>5, <1>6 DEF s, m

-----------------------------------------------------------------------------
(* Slots and places.                                                        *)

LEMMA LinksAre ==
    ASSUME NEW l \in Links
    PROVE  l[1] \in Players /\ l[2] \in 1 .. MaxJoins
BY DEF Links

LEMMA FreeSlotIs ==
    ASSUME NEW roster \in Rosters, FreeSlot(roster) # NoSlot
    PROVE  FreeSlot(roster) \in Slots /\ \A m \in Range(roster) : m.slot # FreeSlot(roster)
<1> DEFINE S == Slots \ SlotsOf(roster)
           least == CHOOSE s \in S : \A o \in S : s <= o
<1>1. FreeSlot(roster) = least /\ S # {}
    BY DEF FreeSlot
<1>2. S \subseteq Nat
    BY LobbyConstants DEF Slots
<1> HIDE DEF S
<1>3. PICK x \in S : \A y \in S : <<y, x>> \notin OpToRel(<, Nat)
    BY <1>1, <1>2, NatLessThanWellFounded, WFMin
<1>4. \A y \in S : x <= y
    <2>1. ASSUME NEW y \in S, ~(x <= y) PROVE FALSE
        <3>1. x \in Nat /\ y \in Nat /\ y < x
            BY <1>2, <2>1
        <3>2. <<y, x>> \in Nat \X Nat
            BY <3>1
        <3>3. <<y, x>> \in OpToRel(<, Nat)
            BY <3>1, <3>2 DEF OpToRel
        <3> QED
            BY <1>3, <3>3
    <2> QED
        BY <2>1
<1>5. least \in S
    BY <1>3, <1>4
<1> HIDE DEF least
<1>6. FreeSlot(roster) \in Slots /\ FreeSlot(roster) \notin SlotsOf(roster)
    BY <1>1, <1>5 DEF S
<1> QED
    BY <1>6 DEF SlotsOf, Range

(* Of two rosters within a third, neither gives away a slot of the other.   *)
LEMMA NotReplaced ==
    ASSUME NEW all, SlotsApart(all), NEW old, NEW new,
           Range(old) \subseteq Range(all), Range(new) \subseteq Range(all)
    PROVE  ~Replaced(old, new)
<1>1. ASSUME NEW i \in DOMAIN old, NEW k \in DOMAIN new, old[i].slot = new[k].slot
      PROVE  old[i] = new[k]
    <2>1. old[i] \in Range(all) /\ new[k] \in Range(all)
        BY DEF Range
    <2>2. PICK x \in DOMAIN all : all[x] = old[i]
        BY <2>1 DEF Range
    <2>3. PICK y \in DOMAIN all : all[y] = new[k]
        BY <2>1 DEF Range
    <2> QED
        BY <1>1, <2>2, <2>3 DEF SlotsApart
<1> QED
    BY <1>1 DEF Replaced

LEMMA SlotsApartAre ==
    ASSUME NEW roster, SlotsApart(roster), NEW m \in Range(roster), NEW o \in Range(roster),
           m.slot = o.slot
    PROVE  m = o
BY DEF SlotsApart, Range

(* One more member, in a slot nobody plays.                                 *)
LEMMA OneMoreMember ==
    ASSUME NEW roster \in Rosters, SlotsApart(roster), NEW m \in Members,
           \A o \in Range(roster) : o.slot # m.slot
    PROVE  LET more == Append(roster, m)
           IN  /\ more \in Rosters /\ SlotsApart(more) /\ Range(more) = Range(roster) \union {m}
               /\ ~Replaced(roster, more)
<1> DEFINE more == Append(roster, m)
<1>1. more \in Seq(Members) /\ Grown(roster, more, m, Len(roster) + 1)
    BY Added DEF Rosters
<1>2. Range(more) = Range(roster) \union {m}
    BY AddedRange DEF Rosters
<1> HIDE DEF more
<1>3. SlotsApart(more)
    <2>1. \A i \in DOMAIN roster : roster[i].slot # m.slot
        BY DEF Range
    <2> QED
        BY <1>1, <2>1 DEF Grown, SlotsApart
<1>4. ~Replaced(roster, more)
    <2>1. Range(roster) \subseteq Range(more) /\ Range(more) \subseteq Range(more)
        BY <1>2
    <2> QED
        BY <1>3, <2>1, NotReplaced
<1> QED
    BY <1>1, <1>2, <1>3, <1>4 DEF more, Rosters

(* Those who stay.                                                          *)
LEMMA SomeMembers ==
    ASSUME NEW roster \in Rosters, SlotsApart(roster), NEW A
    PROVE  LET rest == Only(roster, A)
           IN  /\ rest \in Rosters /\ SlotsApart(rest) /\ Range(rest) = Range(roster) \cap A
               /\ ~Replaced(roster, rest)
<1> DEFINE rest == Only(roster, A)
<1>1. rest \in Rosters /\ Range(rest) = Range(roster) \cap A
    BY OnlyIs DEF Rosters
<1>2. \E f : /\ \A i \in DOMAIN rest : f[i] \in DOMAIN roster /\ rest[i] = roster[f[i]]
             /\ \A i, j \in DOMAIN rest : f[i] = f[j] => i = j
    BY OnlyApart DEF Rosters
<1> HIDE DEF rest
<1>3. SlotsApart(rest)
    BY <1>2 DEF SlotsApart
<1>4. ~Replaced(roster, rest)
    <2>1. Range(rest) \subseteq Range(roster) /\ Range(roster) \subseteq Range(roster)
        BY <1>1
    <2> QED
        BY <2>1, NotReplaced
<1> QED
    BY <1>1, <1>3, <1>4 DEF rest

LEMMA PlacesAre ==
    ASSUME NEW links
    PROVE  /\ Linked(links) = {e.link : e \in Range(links)}
           /\ \A l : l \notin Linked(links) => Seat(links, l) = {}
           /\ \A l \in Linked(links) : Seat(links, l) # {}
BY DEF Linked, Range, Seat

(* One more place, at a link that has none.                                 *)
LEMMA OneMorePlace ==
    ASSUME NEW links \in Tables, PlacesApart(links), NEW e \in Places,
           e.link \notin Linked(links), \A o \in Range(links) : o.slot # e.slot
    PROVE  LET more == Append(links, e)
           IN  /\ more \in Tables /\ PlacesApart(more) /\ Range(more) = Range(links) \union {e}
               /\ Linked(more) = Linked(links) \union {e.link}
               /\ Seat(more, e.link) = {e.slot}
               /\ \A l : l # e.link => Seat(more, l) = Seat(links, l)
<1> DEFINE more == Append(links, e)
<1>1. more \in Seq(Places) /\ Grown(links, more, e, Len(links) + 1)
    BY Added DEF Tables
<1>2. Range(more) = Range(links) \union {e}
    BY AddedRange DEF Tables
<1> HIDE DEF more
<1>3. PlacesApart(more)
    <2>1. \A i \in DOMAIN links : links[i].slot # e.slot /\ links[i].link # e.link
        BY DEF Range, Linked
    <2> QED
        BY <1>1, <2>1 DEF Grown, PlacesApart
<1>4. \A o \in Range(links) : o.link # e.link
    BY DEF Range, Linked
<1>5. Linked(more) = Linked(links) \union {e.link}
    BY <1>2, PlacesAre
<1>6. Seat(more, e.link) = {e.slot} /\ \A l : l # e.link => Seat(more, l) = Seat(links, l)
    BY <1>2, <1>4 DEF Seat
<1> QED
    BY <1>1, <1>2, <1>3, <1>5, <1>6 DEF more, Tables

(* The places that stay.                                                    *)
LEMMA SomePlaces ==
    ASSUME NEW links \in Tables, PlacesApart(links), NEW A
    PROVE  LET rest == Only(links, A)
           IN  /\ rest \in Tables /\ PlacesApart(rest) /\ Range(rest) = Range(links) \cap A
               /\ \A l \in Linked(rest) : Seat(rest, l) = Seat(links, l) /\ l \in Linked(links)
               /\ \A e \in Range(links) : e \in A <=> e.link \in Linked(rest)
<1> DEFINE rest == Only(links, A)
<1>1. rest \in Tables /\ Range(rest) = Range(links) \cap A
    BY OnlyIs DEF Tables
<1>2. \E f : /\ \A i \in DOMAIN rest : f[i] \in DOMAIN links /\ rest[i] = links[f[i]]
             /\ \A i, j \in DOMAIN rest : f[i] = f[j] => i = j
    BY OnlyApart DEF Tables
<1> HIDE DEF rest
<1>3. PlacesApart(rest)
    BY <1>2 DEF PlacesApart
<1>4. \A e, o \in Range(links) : e.link = o.link => e = o
    BY DEF PlacesApart, Range
<1>5. Linked(rest) = {e.link : e \in Range(rest)} /\ Linked(links) = {e.link : e \in Range(links)}
    BY PlacesAre
<1>6. \A e \in Range(links) : e \in A <=> e.link \in Linked(rest)
    BY <1>1, <1>4, <1>5
<1>7. ASSUME NEW l \in Linked(rest)
      PROVE  Seat(rest, l) = Seat(links, l) /\ l \in Linked(links)
    <2>1. \A e \in Range(links) : e.link = l => e \in Range(rest)
        BY <1>1, <1>6
    <2>2. \A e \in Range(rest) : e \in Range(links)
        BY <1>1
    <2> QED
        BY <1>5, <2>1, <2>2 DEF Seat
<1> QED
    BY <1>1, <1>3, <1>6, <1>7 DEF rest

-----------------------------------------------------------------------------
(* The steps of the host, one at a time.                                    *)

LEMMA PeopledByOne ==
    ASSUME NEW roster \in Rosters, NEW links \in Tables, NEW leaving,
           Peopled(roster, links, leaving), NEW slot \in Slots, NEW l \in Links,
           \A o \in Range(roster) : o.slot # slot,
           NEW more, Range(more) = Range(roster) \union {[slot |-> slot, name |-> l[1]]},
           NEW places, Range(places) = Range(links) \union {[slot |-> slot, link |-> l]}
    PROVE  Peopled(more, places, leaving)
<1> DEFINE m == [slot |-> slot, name |-> l[1]]
           e == [slot |-> slot, link |-> l]
<1>1. m.slot = slot /\ m.name = l[1] /\ e.slot = slot /\ e.link = l
    OBVIOUS
<1>2. slot \notin leaving
    BY DEF Peopled
<1> HIDE DEF m, e
<1>3. Range(more) = Range(roster) \union {m} /\ Range(places) = Range(links) \union {e}
    BY DEF m, e
<1>4. \A s \in leaving : \E o \in Range(more) : o.slot = s
    BY <1>3 DEF Peopled
<1>5. ASSUME NEW o \in Range(more), o.name \in Players, o.slot \notin leaving
      PROVE  \E x \in Range(places) : x.slot = o.slot /\ x.link[1] = o.name
    BY <1>1, <1>3, <1>5 DEF Peopled
<1>6. ASSUME NEW x \in Range(places)
      PROVE  x.slot \notin leaving /\ \E o \in Range(more) : o.slot = x.slot /\ o.name = x.link[1]
    BY <1>1, <1>2, <1>3, <1>6 DEF Peopled
<1> QED
    BY <1>4, <1>5, <1>6 DEF Peopled

(* Serving a link ends with its near end no longer open, or goes on.        *)
LEMMA StillAttended ==
    ASSUME NEW l, NEW k, NEW me, NEW waiting, NEW links, NEW roster, NEW playing,
           Attended(l, k, me, waiting, links, roster, playing),
           NEW s, s.far = k.far, s.near = k.near \/ (s.near = "closed" /\ k.near # "none"),
           Mine(l, me) => Follows(s, me, Seat(links, l), roster, playing),
           s.far \in {"none", "dialing"} => s.down = k.down
    PROVE  Attended(l, s, me, waiting, links, roster, playing)
BY DEF Attended, Served, Dialing

LEMMA OpenIsDialed ==
    ASSUME NEW l, NEW k \in Wires, NEW me, Dialing(l, k, me)
    PROVE  /\ k.near = "open" => k.far \in {"open", "closed"}
           /\ k.near # "none" => k.far \notin {"none", "dialing"}
<1>1. k.far \in {"none", "dialing", "open", "closed"}
    BY DEF Wires, Fars
<1> QED
    BY <1>1 DEF Dialing

LEMMA RosterAttended ==
    ASSUME NEW l \in Links, NEW k \in Wires, NEW me \in Joiners, NEW waiting, NEW links,
           NEW old, NEW new \in Rosters, ~Replaced(old, new), waiting \cap Linked(links) = {},
           Attended(l, k, me, waiting, links, old, FALSE)
    PROVE  LET s == IF l \in Linked(links) THEN SendDown(k, Roster(new)) ELSE k
           IN  s \in Wires /\ Attended(l, s, me, waiting, links, new, FALSE)
<1>1. Dialing(l, k, me)
    BY DEF Attended
<1>2. k.near = "open" => k.far \in {"open", "closed"}
    BY <1>1, OpenIsDialed
<1>3. CASE l \notin Linked(links)
    <2>1. Seat(links, l) = {}
        BY <1>3, PlacesAre
    <2>2. Mine(l, me) => Follows(k, me, Seat(links, l), new, FALSE)
        BY <2>1, OutsideFollows DEF Attended
    <2> QED
        BY <1>3, <2>2 DEF Attended
<1>4. CASE l \in Linked(links)
    <2> DEFINE s == SendDown(k, Roster(new))
    <2>1. Seat(links, l) # {} /\ k.near # "none"
        BY <1>4, PlacesAre DEF Attended, Served
    <2>2. Roster(new) \in Mails
        BY DEF Roster, Mails
    <2>3. s \in Wires /\ s.far = k.far /\ s.near = k.near
        BY <2>2, SendDownIs
    <2>4. k.far \notin {"none", "dialing"}
        BY <1>1, <2>1, OpenIsDialed
    <2>5. Mine(l, me) => Follows(s, me, Seat(links, l), new, FALSE)
        BY <1>2, <2>1, RosterFollows DEF Attended
    <2> HIDE DEF s
    <2>6. Attended(l, s, me, waiting, links, new, FALSE)
        BY <2>3, <2>4, <2>5 DEF Attended, Served, Dialing
    <2> QED
        BY <1>4, <2>3, <2>6 DEF s
<1> QED
    BY <1>3, <1>4

LEMMA WelcomeAttended ==
    ASSUME NEW k \in Wires, NEW me \in Joiners, NEW waiting, NEW e \in Places,
           NEW links \in Tables, PlacesApart(links), NEW old, NEW new \in Rosters,
           e.link \notin Linked(links), \A o \in Range(links) : o.slot # e.slot,
           Attended(e.link, k, me, waiting, links, old, FALSE), e.link \in waiting
    PROVE  LET s == SendDown(k, Welcome(e.slot, new))
           IN  /\ s \in Wires
               /\ Attended(e.link, s, me, waiting \ {e.link}, Append(links, e), new, FALSE)
<1> DEFINE l == e.link
           more == Append(links, e)
           m == Welcome(e.slot, new)
           s == SendDown(k, m)
<1>1. l \in Links /\ e.slot \in Slots
    BY DEF Places
<1>2. Linked(more) = Linked(links) \union {l} /\ Seat(more, l) = {e.slot}
    BY OneMorePlace
<1>3. m \in Mails
    BY <1>1 DEF Welcome, Mails
<1>4. s \in Wires /\ s.far = k.far /\ s.near = k.near
    BY <1>3, SendDownIs
<1>5. Dialing(l, k, me) /\ Served(k, l, waiting, links)
    BY DEF Attended
<1>6. k.near # "none"
    BY <1>5 DEF Served
<1>7. /\ k.near = "open" => k.far \in {"open", "closed"}
      /\ k.far \notin {"none", "dialing"}
    BY <1>5, <1>6, OpenIsDialed
<1>8. Seat(links, l) = {}
    BY PlacesAre
<1>9. Mine(l, me) => Follows(s, me, {e.slot}, new, FALSE)
    BY <1>1, <1>7, <1>8, WelcomeFollows DEF Attended
<1> HIDE DEF s, more, l
<1>10. Attended(l, s, me, waiting \ {l}, more, new, FALSE)
    BY <1>2, <1>4, <1>5, <1>6, <1>7, <1>9 DEF Attended, Served, Dialing
<1> QED
    BY <1>4, <1>10 DEF s, more, l, m

(* Another link is none the worse for it.                                   *)
LEMMA OtherAttended ==
    ASSUME NEW l, NEW k, NEW me, NEW waiting, NEW links \in Tables, PlacesApart(links),
           NEW e \in Places, NEW roster, NEW playing,
           e.link \notin Linked(links), \A o \in Range(links) : o.slot # e.slot,
           l # e.link, Attended(l, k, me, waiting, links, roster, playing)
    PROVE  Attended(l, k, me, waiting \ {e.link}, Append(links, e), roster, playing)
<1> DEFINE more == Append(links, e)
<1>1. Linked(more) = Linked(links) \union {e.link} /\ Seat(more, l) = Seat(links, l)
    BY OneMorePlace
<1> HIDE DEF more
<1>2. Attended(l, k, me, waiting \ {e.link}, more, roster, playing)
    BY <1>1 DEF Attended, Served
<1> QED
    BY <1>2 DEF more

LEMMA ClosedAttended ==
    ASSUME NEW l, NEW k \in Wires, NEW me \in Joiners, NEW waiting, NEW links,
           NEW roster, NEW playing, l \in waiting \union Linked(links),
           Attended(l, k, me, waiting, links, roster, playing)
    PROVE  CloseNear(k) \in Wires
           /\ Attended(l, CloseNear(k), me, waiting, links, roster, playing)
<1> DEFINE s == CloseNear(k)
<1>1. k.near # "none" /\ Dialing(l, k, me)
    BY DEF Attended, Served
<1>2. k.far \notin {"none", "dialing"}
    BY <1>1, OpenIsDialed
<1>3. s \in Wires /\ s.near = "closed" /\ s.far = k.far
    BY CloseNearIs
<1>4. Mine(l, me) => ~AllTold(me, k.down).silent
    BY DEF Attended, Follows
<1>5. Mine(l, me) => ~AllTold(me, s.down).silent
    BY <1>4, ClosedIsQuiet
<1> HIDE DEF s
<1>6. Mine(l, me) => Follows(s, me, Seat(links, l), roster, playing)
    BY <1>3, <1>5, ShutFollows
<1>7. Attended(l, s, me, waiting, links, roster, playing)
    BY <1>1, <1>2, <1>3, <1>6, StillAttended
<1> QED
    BY <1>3, <1>7 DEF s

LEMMA RefusedAttended ==
    ASSUME NEW l, NEW k \in Wires, NEW me \in Joiners, NEW waiting, NEW links,
           NEW roster, NEW playing, l \in waiting \union Linked(links),
           Attended(l, k, me, waiting, links, roster, playing),
           NEW m \in Mails, m.kind \in {"refuse", "bye"}
    PROVE  LET s == CloseNear(SendDown(k, m))
           IN  /\ s \in Wires /\ s.near = "closed"
               /\ Attended(l, s, me, waiting, links, roster, playing)
<1> DEFINE x == SendDown(k, m)
           s == CloseNear(x)
<1>1. k.near # "none" /\ Dialing(l, k, me)
    BY DEF Attended, Served
<1>2. k.far \notin {"none", "dialing"}
    BY <1>1, OpenIsDialed
<1>3. x \in Wires /\ x.far = k.far
    BY SendDownIs
<1>4. Mine(l, me) => ~AllTold(me, k.down).silent
    BY DEF Attended, Follows
<1>5. Mine(l, me) => ~AllTold(me, x.down).silent
    BY <1>4, RefusedIsQuiet
<1> HIDE DEF x
<1>6. s \in Wires /\ s.near = "closed" /\ s.far = k.far
    BY <1>3, CloseNearIs
<1>7. Mine(l, me) => ~AllTold(me, s.down).silent
    BY <1>3, <1>5, ClosedIsQuiet
<1> HIDE DEF s
<1>8. Mine(l, me) => Follows(s, me, Seat(links, l), roster, playing)
    BY <1>6, <1>7, ShutFollows
<1>9. Attended(l, s, me, waiting, links, roster, playing)
    BY <1>1, <1>2, <1>6, <1>8, StillAttended
<1> QED
    BY <1>6, <1>9 DEF s, x

(* Once it is closed, nobody needs to know of it.                           *)
LEMMA ShutAttended ==
    ASSUME NEW l, NEW k, NEW me, NEW waiting, NEW links, NEW roster, NEW playing,
           Attended(l, k, me, waiting, links, roster, playing), k.near # "open",
           NEW less, NEW places, NEW other, NEW later,
           l \in less \union Linked(places) => l \in waiting \union Linked(links)
    PROVE  Attended(l, k, me, less, places, other, later)
<1>1. Mine(l, me) => ~AllTold(me, k.down).silent
    BY DEF Attended, Follows
<1>2. Mine(l, me) => Follows(k, me, Seat(places, l), other, later)
    BY <1>1, ShutFollows
<1> QED
    BY <1>2 DEF Attended, Served


-----------------------------------------------------------------------------
(* The host, changed in its members and its places.                         *)

Changed(h, v, roster, links) ==
    /\ v \in Hosts /\ v.roster = roster /\ v.links = links /\ v.phase = h.phase
    /\ v.listener = h.listener /\ v.arriving = h.arriving /\ v.absent = h.absent

LEMMA HostIs ==
    ASSUME NEW h \in Hosts, NEW roster \in Rosters, NEW links \in Tables
    PROVE  Changed(h, [h EXCEPT !.roster = roster, !.links = links], roster, links)
BY DEF Hosts, Changed

LEMMA SpreadIs ==
    ASSUME NEW ln \in [Links -> Wires], NEW to, NEW m \in Mails
    PROVE  /\ ToEach(ln, to, m) \in [Links -> Wires]
           /\ \A l \in Links : ToEach(ln, to, m)[l] = IF l \in to THEN SendDown(ln[l], m) ELSE ln[l]
BY SendDownIs DEF ToEach

(* What a step of the host leaves as it is.                                 *)
Along(w, v) ==
    /\ v.host.phase = w.host.phase /\ v.host.arriving = w.host.arriving
    /\ v.host.listener = w.host.listener /\ v.host.absent = w.host.absent

KeptBy(w, joins, waiting, leaving) ==
    w \in Worlds /\ w.host.phase = "hosting" /\ Kept(w.host, w.link, joins, waiting, leaving)

LEMMA WorldIs ==
    ASSUME NEW w \in Worlds
    PROVE  w.host \in Hosts /\ w.link \in [Links -> Wires] /\ w = [host |-> w.host, link |-> w.link]
BY DEF Worlds

(* A joiner that is not let in no longer waits.                             *)
LEMMA RefusalKeeps ==
    ASSUME NEW w, NEW joins \in [Players -> Joiners], NEW waiting \in SUBSET Links, NEW leaving,
           KeptBy(w, joins, waiting, leaving), NEW l \in waiting
    PROVE  LET v == [w EXCEPT !.link[l] = Refuse(@)]
           IN  KeptBy(v, joins, waiting \ {l}, leaving) /\ Along(w, v) /\ v.host.links = w.host.links
<1> DEFINE v == [w EXCEPT !.link[l] = Refuse(@)]
           ln == [w.link EXCEPT ![l] = Refuse(w.link[l])]
           m == [kind |-> "refuse"]
<1>1. w \in Worlds /\ w.host \in Hosts /\ w.link \in [Links -> Wires] /\ w.host.phase = "hosting"
    BY WorldIs DEF KeptBy
<1>2. v.host = w.host /\ v.link = ln /\ v \in [host : {w.host}, link : {ln}]
    BY <1>1 DEF Worlds
<1>3. Kept(w.host, w.link, joins, waiting, leaving)
    BY DEF KeptBy
<1>4. \A o \in Links : Attended(o, w.link[o], joins[o[1]], waiting, w.host.links, w.host.roster, FALSE)
    BY <1>1, <1>3 DEF Kept
<1>5. m \in Mails /\ m.kind \in {"refuse", "bye"}
    BY DEF Mails
<1>6. Refuse(w.link[l]) = CloseNear(SendDown(w.link[l], m))
    BY DEF Refuse
<1>7. w.link[l] \in Wires /\ joins[l[1]] \in Joiners /\ l \in waiting \union Linked(w.host.links)
    BY <1>1, LinksAre
<1>8. /\ Refuse(w.link[l]) \in Wires /\ Refuse(w.link[l]).near = "closed"
      /\ Attended(l, Refuse(w.link[l]), joins[l[1]], waiting, w.host.links, w.host.roster, FALSE)
    <2> DEFINE k == w.link[l]
               me == joins[l[1]]
               places == w.host.links
               roster == w.host.roster
               s == CloseNear(SendDown(k, m))
    <2>1. /\ k \in Wires /\ me \in Joiners /\ l \in waiting \union Linked(places)
          /\ Attended(l, k, me, waiting, places, roster, FALSE)
        BY <1>4, <1>7
    <2> HIDE DEF m, k, me, places, roster
    <2>2. s \in Wires /\ s.near = "closed" /\ Attended(l, s, me, waiting, places, roster, FALSE)
        BY <1>5, <2>1, RefusedAttended
    <2> QED
        BY <1>6, <2>2 DEF k, me, places, roster
<1>9. ln \in [Links -> Wires] /\ ln[l] = Refuse(w.link[l]) /\ \A o \in Links \ {l} : ln[o] = w.link[o]
    BY <1>1, <1>8
<1> HIDE DEF ln, v
<1>10. l \notin Linked(w.host.links)
    BY <1>3 DEF Kept, Settled
<1>11. ASSUME NEW o \in Links
       PROVE  Attended(o, ln[o], joins[o[1]], waiting \ {l}, w.host.links, w.host.roster, FALSE)
    <2>1. CASE o = l
        <3> DEFINE k == ln[l]
                   me == joins[l[1]]
                   places == w.host.links
                   roster == w.host.roster
                   less == waiting \ {l}
        <3>1. Attended(l, k, me, waiting, places, roster, FALSE) /\ k.near # "open"
            BY <1>8, <1>9
        <3>2. l \in less \union Linked(places) => l \in waiting \union Linked(places)
            OBVIOUS
        <3> HIDE DEF k, me, places, roster, less
        <3>3. Attended(l, k, me, less, places, roster, FALSE)
            BY <3>1, <3>2, ShutAttended
        <3> QED
            BY <2>1, <3>3 DEF k, me, places, roster, less
    <2>2. CASE o # l
        BY <1>4, <1>9, <2>2 DEF Attended, Served
    <2> QED
        BY <2>1, <2>2
<1>12. Settled(w.host.roster, w.host.links, waiting \ {l}, leaving)
    BY <1>3 DEF Kept, Settled
<1>13. v \in Worlds
    BY <1>1, <1>2, <1>9 DEF Worlds
<1>14. Kept(v.host, v.link, joins, waiting \ {l}, leaving)
    BY <1>1, <1>2, <1>9, <1>11, <1>12 DEF Kept
<1> QED
    BY <1>1, <1>2, <1>13, <1>14 DEF KeptBy, Along, v

(* A joiner that is let in has a place, and everyone is told.               *)
LEMMA AdmissionKeeps ==
    ASSUME NEW w, NEW joins \in [Players -> Joiners], NEW waiting \in SUBSET Links, NEW leaving,
           KeptBy(w, joins, waiting, leaving), NEW l \in waiting,
           NEW slot \in Slots, \A o \in Range(w.host.roster) : o.slot # slot
    PROVE  LET roster == Append(w.host.roster, [slot |-> slot, name |-> l[1]])
               links == Append(w.host.links, [slot |-> slot, link |-> l])
               v == [host |-> [w.host EXCEPT !.roster = roster, !.links = links],
                     link |-> ToEach([w.link EXCEPT ![l] = SendDown(@, Welcome(slot, roster))],
                                     Linked(w.host.links), Roster(roster))]
           IN  KeptBy(v, joins, waiting \ {l}, leaving) /\ Along(w, v)
<1> DEFINE m == [slot |-> slot, name |-> l[1]]
           e == [slot |-> slot, link |-> l]
           old == w.host.roster
           places == w.host.links
           roster == Append(old, m)
           links == Append(places, e)
           told == [w.link EXCEPT ![l] = SendDown(w.link[l], Welcome(slot, roster))]
           h == [w.host EXCEPT !.roster = roster, !.links = links]
           ln == ToEach(told, Linked(places), Roster(roster))
           v == [host |-> h, link |-> ln]
<1>1. w \in Worlds /\ w.host \in Hosts /\ w.link \in [Links -> Wires] /\ w.host.phase = "hosting"
    BY WorldIs DEF KeptBy
<1>2. Kept(w.host, w.link, joins, waiting, leaving)
    BY DEF KeptBy
<1>3. /\ \A o \in Links : Attended(o, w.link[o], joins[o[1]], waiting, places, old, FALSE)
      /\ SlotsApart(old) /\ PlacesApart(places) /\ Peopled(old, places, leaving)
      /\ waiting \cap Linked(places) = {}
    BY <1>1, <1>2 DEF Kept, Settled
<1>4. old \in Rosters /\ places \in Tables /\ l \in Links /\ l[1] \in Players
    BY <1>1, LinksAre DEF Hosts
<1>5. m \in Members /\ e \in Places /\ m.slot = slot /\ e.slot = slot /\ e.link = l
    BY <1>4 DEF Members, Places, Names
<1>6. \A o \in Range(places) : o.slot # slot
    <2>1. \A o \in Range(places) : o.slot \in leaving \/ \E x \in Range(old) : x.slot = o.slot
        BY <1>3 DEF Peopled
    <2>2. \A s \in leaving : \E x \in Range(old) : x.slot = s
        BY <1>3 DEF Peopled
    <2> QED
        BY <2>1, <2>2
<1>7. l \notin Linked(places)
    BY <1>3
<1>8. roster \in Rosters /\ SlotsApart(roster) /\ Range(roster) = Range(old) \union {m} /\ ~Replaced(old, roster)
    <2> HIDE DEF m
    <2> QED
        BY <1>3, <1>4, <1>5, OneMoreMember
<1>9. /\ links \in Tables /\ PlacesApart(links) /\ Range(links) = Range(places) \union {e}
      /\ Linked(links) = Linked(places) \union {l}
    <2> HIDE DEF e
    <2> QED
        BY <1>3, <1>4, <1>5, <1>6, <1>7, OneMorePlace
<1>10. Peopled(roster, links, leaving)
    <2> HIDE DEF roster, links
    <2> QED
        BY <1>3, <1>4, <1>8, <1>9, PeopledByOne
<1>11. /\ Welcome(slot, roster) \in Mails /\ Roster(roster) \in Mails
    <2> HIDE DEF roster
    <2> QED
        BY <1>8 DEF Welcome, Roster, Mails
<1>12. w.link[l] \in Wires /\ joins[l[1]] \in Joiners
    BY <1>1, <1>4
<1>13. /\ SendDown(w.link[l], Welcome(slot, roster)) \in Wires
       /\ Attended(l, SendDown(w.link[l], Welcome(slot, roster)), joins[l[1]], waiting \ {l}, links, roster, FALSE)
    <2> DEFINE k == w.link[l]
               me == joins[l[1]]
               s == SendDown(k, Welcome(e.slot, roster))
    <2>1. /\ k \in Wires /\ me \in Joiners /\ e \in Places /\ places \in Tables /\ roster \in Rosters
          /\ PlacesApart(places) /\ e.link \notin Linked(places)
          /\ \A o \in Range(places) : o.slot # e.slot
          /\ Attended(e.link, k, me, waiting, places, old, FALSE) /\ e.link \in waiting
        BY <1>3, <1>4, <1>5, <1>6, <1>7, <1>8, <1>12
    <2> HIDE DEF e, roster, k, me, places, old
    <2>2. s \in Wires /\ Attended(e.link, s, me, waiting \ {e.link}, Append(places, e), roster, FALSE)
        BY <2>1, WelcomeAttended
    <2> HIDE DEF s
    <2> QED
        BY <1>5, <2>2 DEF links, s, k, me, places
<1>14. told \in [Links -> Wires] /\ \A o \in Links \ {l} : told[o] = w.link[o]
    BY <1>1, <1>13
<1>15. told[l] = SendDown(w.link[l], Welcome(slot, roster))
    BY <1>1, <1>4
<1> HIDE DEF told, roster, links, m
<1>16. ln \in [Links -> Wires] /\ \A o \in Links : ln[o] = IF o \in Linked(places) THEN SendDown(told[o], Roster(roster)) ELSE told[o]
    BY <1>11, <1>14, SpreadIs
<1> HIDE DEF ln
<1>17. ASSUME NEW o \in Links
       PROVE  Attended(o, ln[o], joins[o[1]], waiting \ {l}, links, roster, FALSE)
    <2>1. CASE o = l
        BY <1>7, <1>13, <1>15, <1>16, <2>1
    <2>2. CASE o # l
        <3>1. told[o] \in Wires /\ joins[o[1]] \in Joiners /\ told[o] = w.link[o]
            BY <1>14, <2>2, LinksAre
        <3>2. Attended(o, told[o], joins[o[1]], waiting, places, old, FALSE)
            BY <1>3, <3>1
        <3>3. Attended(o, ln[o], joins[o[1]], waiting, places, roster, FALSE)
            <4> DEFINE k == told[o]
                       me == joins[o[1]]
                       s == IF o \in Linked(places) THEN SendDown(k, Roster(roster)) ELSE k
            <4>1. /\ k \in Wires /\ me \in Joiners /\ ~Replaced(old, roster) /\ roster \in Rosters
                  /\ waiting \cap Linked(places) = {}
                  /\ Attended(o, k, me, waiting, places, old, FALSE)
                BY <1>3, <1>8, <3>1, <3>2
            <4>2. ln[o] = s
                BY <1>16
            <4> HIDE DEF k, me, places, old
            <4>3. Attended(o, s, me, waiting, places, roster, FALSE)
                BY <4>1, RosterAttended
            <4> HIDE DEF s
            <4> QED
                BY <4>2, <4>3 DEF me
        <3> HIDE DEF e
        <3>4. Attended(o, ln[o], joins[o[1]], waiting \ {l}, links, roster, FALSE)
            BY <1>3, <1>4, <1>5, <1>6, <1>7, <2>2, <3>3, OtherAttended DEF links
        <3> QED
            BY <3>4
    <2> QED
        BY <2>1, <2>2
<1>18. /\ h \in Hosts /\ h.roster = roster /\ h.links = links /\ h.phase = w.host.phase
       /\ h.listener = w.host.listener /\ h.arriving = w.host.arriving /\ h.absent = w.host.absent
    <2>1. w.host \in Hosts /\ roster \in Rosters /\ links \in Tables
        BY <1>1, <1>8, <1>9
    <2> DEFINE x == w.host
               y == [x EXCEPT !.roster = roster, !.links = links]
    <2>2. h = y /\ x \in Hosts
        BY <2>1
    <2> HIDE DEF x
    <2>3. Changed(x, y, roster, links)
        BY <2>1, <2>2, HostIs
    <2> HIDE DEF y, h
    <2> QED
        BY <2>2, <2>3 DEF x, Changed
<1> HIDE DEF h
<1>19. Settled(roster, links, waiting \ {l}, leaving)
    BY <1>3, <1>8, <1>9, <1>10 DEF Settled
<1>20. Kept(h, ln, joins, waiting \ {l}, leaving)
    BY <1>1, <1>16, <1>17, <1>18, <1>19 DEF Kept
<1>21. v \in Worlds /\ v.host = h /\ v.link = ln
    BY <1>16, <1>18 DEF Worlds
<1> HIDE DEF v
<1>22. KeptBy(v, joins, waiting \ {l}, leaving) /\ Along(w, v)
    BY <1>1, <1>18, <1>20, <1>21 DEF KeptBy, Along
<1> QED
    BY <1>22 DEF v, h, ln, told, roster, links, m, e

LEMMA AdmitIs ==
    ASSUME NEW w \in Worlds, NEW l \in Links, l \notin Strangers, FreeSlot(w.host.roster) # NoSlot
    PROVE  LET slot == FreeSlot(w.host.roster)
               roster == Append(w.host.roster, [slot |-> slot, name |-> l[1]])
               links == Append(w.host.links, [slot |-> slot, link |-> l])
           IN  Admit(w, l) =
                  [host |-> [w.host EXCEPT !.roster = roster, !.links = links],
                   link |-> ToEach([w.link EXCEPT ![l] = SendDown(@, Welcome(slot, roster))],
                                   Linked(w.host.links), Roster(roster))]
<1> DEFINE slot == FreeSlot(w.host.roster)
           roster == Append(w.host.roster, [slot |-> slot, name |-> l[1]])
           links == Append(w.host.links, [slot |-> slot, link |-> l])
           told == [w.link EXCEPT ![l] = SendDown(@, Welcome(slot, roster))]
           ahead == [w EXCEPT !.host.roster = roster, !.link[l] = SendDown(@, Welcome(slot, roster))]
           let == broadcast_roster(ahead)
           ln == ToEach(told, Linked(w.host.links), Roster(roster))
<1>1. Admit(w, l) = [let EXCEPT !.host.links = Append(@, [slot |-> slot, link |-> l])]
    BY DEF Admit
<1>2. ahead = [host |-> [w.host EXCEPT !.roster = roster], link |-> told]
    <2> DEFINE s == SendDown(w.link[l], Welcome(slot, roster))
    <2>1. ahead = [w EXCEPT !.host.roster = roster, !.link[l] = s]
        OBVIOUS
    <2>2. told = [w.link EXCEPT ![l] = s]
        OBVIOUS
    <2> HIDE DEF s, ahead, told, roster, slot
    <2>3. w = [host |-> w.host, link |-> w.link]
        BY WorldIs
    <2> QED
        BY <2>1, <2>2, <2>3
<1> HIDE DEF ahead, told, roster
<1>3. ahead.host = [w.host EXCEPT !.roster = roster] /\ ahead.link = told
    BY <1>2
<1>4. ahead.host.roster = roster /\ ahead.host.links = w.host.links
    BY <1>3 DEF Worlds, Hosts
<1>5. let = [host |-> ahead.host, link |-> ln]
    BY <1>2, <1>3, <1>4 DEF broadcast_roster
<1> HIDE DEF let, ln
<1>6. [let EXCEPT !.host.links = Append(@, [slot |-> slot, link |-> l])]
        = [host |-> [ahead.host EXCEPT !.links = links], link |-> ln]
    <2>1. let.host = ahead.host /\ let.link = ln
        BY <1>5
    <2>2. let.host.links = w.host.links
        BY <1>4, <2>1
    <2> DEFINE h == [ahead.host EXCEPT !.links = links]
    <2>3. [let EXCEPT !.host.links = Append(@, [slot |-> slot, link |-> l])] = [let EXCEPT !.host = h]
        BY <2>1, <2>2
    <2> HIDE DEF h
    <2>4. [let EXCEPT !.host = h] = [host |-> h, link |-> ln]
        BY <1>5
    <2> QED
        BY <2>3, <2>4 DEF h
<1> HIDE DEF links
<1>7. [ahead.host EXCEPT !.links = links] = [w.host EXCEPT !.roster = roster, !.links = links]
    BY <1>3 DEF Worlds, Hosts
<1> QED
    BY <1>1, <1>6, <1>7 DEF ln, told, roster, links

LEMMA AdmitKeeps ==
    ASSUME NEW w, NEW joins \in [Players -> Joiners], NEW waiting \in SUBSET Links, NEW leaving,
           KeptBy(w, joins, waiting, leaving), NEW l \in waiting
    PROVE  KeptBy(Admit(w, l), joins, waiting \ {l}, leaving) /\ Along(w, Admit(w, l))
<1>1. CASE l \in Strangers \/ FreeSlot(w.host.roster) = NoSlot
    <2>1. Admit(w, l) = [w EXCEPT !.link[l] = Refuse(@)]
        BY <1>1 DEF Admit
    <2> DEFINE v == [w EXCEPT !.link[l] = Refuse(@)]
    <2>2. KeptBy(v, joins, waiting \ {l}, leaving) /\ Along(w, v)
        BY RefusalKeeps
    <2> HIDE DEF v
    <2> QED
        BY <2>1, <2>2 DEF v
<1>2. CASE ~(l \in Strangers \/ FreeSlot(w.host.roster) = NoSlot)
    <2> DEFINE slot == FreeSlot(w.host.roster)
    <2>1. w \in Worlds /\ w.host.roster \in Rosters /\ l \in Links
        BY DEF KeptBy, Worlds, Hosts
    <2>2. slot \in Slots /\ \A o \in Range(w.host.roster) : o.slot # slot
        BY <1>2, <2>1, FreeSlotIs
    <2>3. l \notin Strangers /\ slot # NoSlot
        BY <1>2
    <2> DEFINE roster == Append(w.host.roster, [slot |-> slot, name |-> l[1]])
               links == Append(w.host.links, [slot |-> slot, link |-> l])
               v == [host |-> [w.host EXCEPT !.roster = roster, !.links = links],
                     link |-> ToEach([w.link EXCEPT ![l] = SendDown(@, Welcome(slot, roster))],
                                     Linked(w.host.links), Roster(roster))]
    <2>4. Admit(w, l) = v
        BY <2>1, <2>3, AdmitIs
    <2>5. KeptBy(v, joins, waiting \ {l}, leaving) /\ Along(w, v)
        <3> HIDE DEF slot
        <3> QED
            BY <2>2, AdmissionKeeps
    <2> HIDE DEF v
    <2> QED
        BY <2>4, <2>5
<1> QED
    BY <1>1, <1>2

(* Everyone at a link is told a roster that gives nobody's slot away.       *)
LEMMA NewsKeeps ==
    ASSUME NEW w, NEW joins \in [Players -> Joiners], NEW waiting \in SUBSET Links, NEW leaving,
           KeptBy(w, joins, waiting, leaving), NEW fewer, NEW roster \in Rosters,
           ~Replaced(w.host.roster, roster), Settled(roster, w.host.links, waiting, fewer)
    PROVE  LET v == broadcast_roster([w EXCEPT !.host.roster = roster])
           IN  KeptBy(v, joins, waiting, fewer) /\ Along(w, v)
<1> DEFINE old == w.host.roster
           places == w.host.links
           h == [w.host EXCEPT !.roster = roster]
           ln == ToEach(w.link, Linked(places), Roster(roster))
           v == broadcast_roster([w EXCEPT !.host.roster = roster])
<1>1. /\ w \in Worlds /\ w.host \in Hosts /\ w.link \in [Links -> Wires] /\ w.host.phase = "hosting"
      /\ w = [host |-> w.host, link |-> w.link]
    BY WorldIs DEF KeptBy
<1>2. Kept(w.host, w.link, joins, waiting, leaving)
    BY DEF KeptBy
<1>3. /\ \A o \in Links : Attended(o, w.link[o], joins[o[1]], waiting, places, old, FALSE)
      /\ waiting \cap Linked(places) = {}
    BY <1>1, <1>2 DEF Kept, Settled
<1>4. /\ h \in Hosts /\ h.roster = roster /\ h.links = places /\ h.phase = w.host.phase
      /\ h.listener = w.host.listener /\ h.arriving = w.host.arriving /\ h.absent = w.host.absent
    BY <1>1 DEF Hosts
<1>5. v = [host |-> h, link |-> ln]
    <2> DEFINE x == [w EXCEPT !.host.roster = roster]
    <2>1. x = [host |-> h, link |-> w.link]
        BY <1>1
    <2> HIDE DEF h, x
    <2>2. x.host = h /\ x.link = w.link
        BY <2>1
    <2>3. x.host.links = places /\ x.host.roster = roster
        BY <1>4, <2>2
    <2>4. broadcast_roster(x) = [x EXCEPT !.link = ln]
        BY <2>2, <2>3 DEF broadcast_roster
    <2> HIDE DEF ln
    <2>5. broadcast_roster(x) = [host |-> h, link |-> ln]
        BY <2>1, <2>4
    <2> QED
        BY <2>5 DEF x
<1>6. Roster(roster) \in Mails
    BY DEF Roster, Mails
<1>7. ln \in [Links -> Wires] /\ \A o \in Links : ln[o] = IF o \in Linked(places) THEN SendDown(w.link[o], Roster(roster)) ELSE w.link[o]
    BY <1>1, <1>6, SpreadIs
<1> HIDE DEF h, ln, v
<1>8. ASSUME NEW o \in Links
      PROVE  Attended(o, ln[o], joins[o[1]], waiting, places, roster, FALSE)
    <2> DEFINE k == w.link[o]
               me == joins[o[1]]
               s == IF o \in Linked(places) THEN SendDown(k, Roster(roster)) ELSE k
    <2>1. /\ k \in Wires /\ me \in Joiners /\ ~Replaced(old, roster)
          /\ waiting \cap Linked(places) = {}
          /\ Attended(o, k, me, waiting, places, old, FALSE)
        BY <1>1, <1>3, LinksAre
    <2>2. ln[o] = s
        BY <1>7
    <2> HIDE DEF k, me, places, old
    <2>3. Attended(o, s, me, waiting, places, roster, FALSE)
        BY <2>1, RosterAttended
    <2> HIDE DEF s
    <2> QED
        BY <2>2, <2>3 DEF me
<1>9. Kept(h, ln, joins, waiting, fewer)
    BY <1>1, <1>4, <1>7, <1>8 DEF Kept
<1>10. v \in Worlds /\ v.host = h /\ v.link = ln
    BY <1>4, <1>5, <1>7 DEF Worlds
<1> QED
    BY <1>1, <1>4, <1>9, <1>10 DEF KeptBy, Along, v

(* A slot that was to be vacated is.                                        *)
LEMMA VacateKeeps ==
    ASSUME NEW w, NEW joins \in [Players -> Joiners], NEW waiting \in SUBSET Links, NEW leaving,
           KeptBy(w, joins, waiting, leaving), NEW slot \in leaving
    PROVE  /\ KeptBy(Vacate(w, slot), joins, waiting, leaving \ {slot})
           /\ Along(w, Vacate(w, slot))
<1> DEFINE old == w.host.roster
           places == w.host.links
           stay == {m \in Range(old) : m.slot # slot}
           rest == Only(old, stay)
           fewer == leaving \ {slot}
<1>1. Kept(w.host, w.link, joins, waiting, leaving) /\ old \in Rosters
    BY DEF KeptBy, Worlds, Hosts
<1>2. /\ SlotsApart(old) /\ PlacesApart(places) /\ Peopled(old, places, leaving)
      /\ waiting \cap Linked(places) = {}
    BY <1>1 DEF Kept, Settled
<1>3. /\ rest \in Rosters /\ SlotsApart(rest) /\ Range(rest) = Range(old) \cap stay
      /\ ~Replaced(old, rest)
    <2> HIDE DEF old, stay
    <2> QED
        BY <1>1, <1>2, SomeMembers
<1>4. \A m : m \in Range(rest) <=> m \in Range(old) /\ m.slot # slot
    BY <1>3
<1> HIDE DEF rest, stay
<1>5. Peopled(rest, places, fewer)
    <2>1. \A s \in fewer : \E m \in Range(rest) : m.slot = s
        BY <1>2, <1>4 DEF Peopled
    <2>2. \A m \in Range(rest) : m.name \in Players /\ m.slot \notin fewer =>
              \E e \in Range(places) : e.slot = m.slot /\ e.link[1] = m.name
        BY <1>2, <1>4 DEF Peopled
    <2>3. ASSUME NEW e \in Range(places)
          PROVE  e.slot \notin fewer /\ \E m \in Range(rest) : m.slot = e.slot /\ m.name = e.link[1]
        <3>1. e.slot \notin leaving /\ \E m \in Range(old) : m.slot = e.slot /\ m.name = e.link[1]
            BY <1>2 DEF Peopled
        <3> QED
            BY <1>4, <3>1
    <2> HIDE DEF fewer, places
    <2> QED
        BY <2>1, <2>2, <2>3 DEF Peopled
<1>6. Settled(rest, places, waiting, fewer)
    BY <1>2, <1>3, <1>5 DEF Settled
<1> DEFINE v == broadcast_roster([w EXCEPT !.host.roster = rest])
<1>7. KeptBy(v, joins, waiting, fewer) /\ Along(w, v)
    <2> HIDE DEF fewer
    <2> QED
        BY <1>3, <1>6, NewsKeeps
<1>8. Vacate(w, slot) = v
    BY DEF Vacate, rest, stay
<1> HIDE DEF v
<1> QED
    BY <1>7, <1>8

-----------------------------------------------------------------------------
(* Those who said hello are let in, those who left go, one after another.   *)

Before(seq, i) == {seq[j] : j \in 1 .. i}

LEMMA BeforeIs ==
    ASSUME NEW S, NEW seq \in Seq(S)
    PROVE  /\ Before(seq, 0) = {} /\ Before(seq, Len(seq)) = Range(seq)
           /\ \A i \in 1 .. Len(seq) : Before(seq, i) = Before(seq, i - 1) \union {seq[i]}
           /\ Apart(seq) => \A i \in 1 .. Len(seq) : seq[i] \notin Before(seq, i - 1)
<1>1. DOMAIN seq = 1 .. Len(seq) /\ Len(seq) \in Nat
    OBVIOUS
<1>2. Before(seq, 0) = {} /\ Before(seq, Len(seq)) = Range(seq)
    BY <1>1 DEF Before, Range
<1>3. ASSUME NEW i \in 1 .. Len(seq)
      PROVE  Before(seq, i) = Before(seq, i - 1) \union {seq[i]}
    <2>1. 1 .. i = (1 .. i - 1) \union {i}
        BY <1>1
    <2> QED
        BY <2>1 DEF Before
<1>4. ASSUME Apart(seq), NEW i \in 1 .. Len(seq)
      PROVE  seq[i] \notin Before(seq, i - 1)
    <2>1. \A j \in 1 .. i - 1 : j \in 1 .. Len(seq) /\ j # i
        BY <1>1
    <2> QED
        BY <1>1, <1>4, <2>1 DEF Before, Apart
<1> QED
    BY <1>2, <1>3, <1>4

LEMMA LetInKeeps ==
    ASSUME NEW w, NEW joins \in [Players -> Joiners], NEW waiting \in SUBSET Links, NEW leaving,
           KeptBy(w, joins, waiting, leaving),
           NEW hellos \in Seq(Links), Apart(hellos), Range(hellos) \subseteq waiting
    PROVE  LET v == LetIn(w, hellos)
           IN  KeptBy(v, joins, waiting \ Range(hellos), leaving) /\ Along(w, v)
<1> DEFINE n == Len(hellos)
           Good(x, i) == KeptBy(x, joins, waiting \ Before(hellos, i), leaving) /\ Along(w, x)
           I == [i \in 0 .. n |-> {x \in Worlds : Good(x, i)}]
           F(f) == f = [i \in 0 .. n |-> IF i = 0 THEN w ELSE Admit(f[i - 1], hellos[i])]
           let == CHOOSE f : F(f)
<1>1. n \in Nat /\ \A i \in 1 .. n : hellos[i] \in Links /\ i \in 0 .. n /\ i - 1 \in 0 .. n /\ i # 0
    OBVIOUS
<1>2. /\ Before(hellos, 0) = {} /\ Before(hellos, n) = Range(hellos)
      /\ \A i \in 1 .. n : /\ Before(hellos, i) = Before(hellos, i - 1) \union {hellos[i]}
                           /\ hellos[i] \notin Before(hellos, i - 1)
    BY BeforeIs
<1>3. \A i \in 0 .. n : \A x : x \in I[i] <=> Good(x, i)
    BY DEF KeptBy
<1>4. w \in I[0]
    <2>1. waiting \ Before(hellos, 0) = waiting
        BY <1>2
    <2>2. KeptBy(w, joins, waiting \ Before(hellos, 0), leaving)
        BY <2>1
    <2>3. Along(w, w)
        BY DEF Along
    <2>4. Good(w, 0)
        BY <2>2, <2>3
    <2> HIDE DEF Good, I
    <2> QED
        BY <1>1, <1>3, <2>4
<1>5. ASSUME NEW i \in 1 .. n, NEW x \in I[i - 1]
      PROVE  Admit(x, hellos[i]) \in I[i]
    <2> DEFINE less == waiting \ Before(hellos, i - 1)
               l == hellos[i]
    <2>1. Good(x, i - 1)
        BY <1>1, <1>3
    <2>2. hellos[i] \in waiting
        BY DEF Range
    <2>3. l \in less /\ less \in SUBSET Links /\ less \ {l} = waiting \ Before(hellos, i)
        BY <1>2, <2>2
    <2>4. KeptBy(x, joins, less, leaving) /\ Along(w, x)
        BY <2>1
    <2> HIDE DEF less, l
    <2>5. KeptBy(Admit(x, l), joins, less \ {l}, leaving) /\ Along(x, Admit(x, l))
        BY <2>3, <2>4, AdmitKeeps
    <2>6. Along(w, Admit(x, l))
        BY <2>4, <2>5 DEF Along
    <2>7. Good(Admit(x, l), i)
        BY <2>3, <2>5, <2>6
    <2> HIDE DEF Good, I
    <2> QED
        BY <1>1, <1>3, <2>7 DEF l
<1>6. \A i \in 0 .. n : I[i] \in SUBSET Worlds
    OBVIOUS
<1>7. I \in [0 .. n -> SUBSET Worlds]
    OBVIOUS
<1> HIDE DEF Good, I
<1>8. PICK G \in [1 .. n -> [Worlds -> Worlds]] :
          \A i \in 1 .. n : \A x \in I[i - 1] : G[i][x] = Admit(x, hellos[i])
    <2> DEFINE G == [i \in 1 .. n |-> [x \in Worlds |-> IF x \in I[i - 1] THEN Admit(x, hellos[i]) ELSE x]]
    <2> HIDE DEF Worlds, Admit
    <2>1. G \in [1 .. n -> [Worlds -> Worlds]]
        BY <1>1, <1>5, <1>6
    <2>2. \A i \in 1 .. n : \A x \in I[i - 1] : G[i][x] = Admit(x, hellos[i])
        BY <1>1, <1>6
    <2> HIDE DEF G
    <2> QED
        BY <2>1, <2>2
<1>9. PICK f : Walks(f, Worlds, w, n, G) /\ Passes(f, I, n)
    <2>1. \A i \in 1 .. n : \A x \in I[i - 1] : G[i][x] \in I[i]
        BY <1>5, <1>8
    <2> HIDE DEF Worlds, F, let, n
    <2> QED
        BY <1>1, <1>4, <1>7, <1>8, <2>1, WalkPasses
<1> HIDE DEF Worlds, Admit
<1>10. \A i \in 1 .. n : f[i] = Admit(f[i - 1], hellos[i])
    BY <1>1, <1>8, <1>9 DEF Walks, Passes
<1>11. \A i \in 0 .. n : i = 0 \/ i \in 1 .. n
    BY <1>1
<1>12. F(f)
    BY <1>9, <1>10, <1>11 DEF Walks
<1>13. LetIn(w, hellos) = let[n]
    BY DEF LetIn
<1> HIDE DEF F
<1>14. F(let)
    BY <1>12
<1>15. let = [i \in 0 .. n |-> IF i = 0 THEN w ELSE Admit(let[i - 1], hellos[i])]
    BY <1>14 DEF F
<1> HIDE DEF let
<1>16. let[0] = w /\ \A i \in 1 .. n : let[i] = Admit(let[i - 1], hellos[i])
    BY <1>1, <1>15
<1> DEFINE P == {i \in 0 .. n : let[i] \in I[i]}
<1>17. 0 .. n \subseteq P
    <2>1. 0 \in P
        BY <1>1, <1>4, <1>16
    <2>2. ASSUME NEW i \in 0 .. n - 1, i \in P PROVE i + 1 \in P
        <3>1. i + 1 \in 1 .. n /\ i + 1 \in 0 .. n /\ i + 1 - 1 = i
            BY <1>1
        <3>2. let[i + 1] = Admit(let[i], hellos[i + 1]) /\ let[i] \in I[i]
            BY <1>16, <2>2, <3>1
        <3> QED
            BY <1>5, <3>1, <3>2
    <2> HIDE DEF P, n
    <2> QED
        BY <1>1, <2>1, <2>2, StepByStep
<1>18. let[n] \in I[n]
    BY <1>1, <1>17
<1>19. Good(let[n], n)
    BY <1>1, <1>3, <1>18
<1> QED
    BY <1>2, <1>13, <1>19 DEF Good

LEMMA LetGoKeeps ==
    ASSUME NEW w, NEW joins \in [Players -> Joiners], NEW waiting \in SUBSET Links, NEW leaving,
           KeptBy(w, joins, waiting, leaving),
           NEW gone \in Tables, PlacesApart(gone), {e.slot : e \in Range(gone)} \subseteq leaving
    PROVE  LET v == LetGo(w, gone)
           IN  /\ KeptBy(v, joins, waiting, leaving \ {e.slot : e \in Range(gone)})
               /\ Along(w, v)
<1> DEFINE n == Len(gone)
           slots == [i \in 1 .. n |-> gone[i].slot]
           Good(x, i) == KeptBy(x, joins, waiting, leaving \ Before(slots, i)) /\ Along(w, x)
           I == [i \in 0 .. n |-> {x \in Worlds : Good(x, i)}]
           F(f) == f = [i \in 0 .. n |-> IF i = 0 THEN w ELSE Vacate(f[i - 1], slots[i])]
           left == CHOOSE f : F(f)
<1>1. n \in Nat /\ \A i \in 1 .. n : i \in 0 .. n /\ i - 1 \in 0 .. n /\ i # 0
    BY DEF Tables
<1>0. /\ slots \in Seq(Slots) /\ Len(slots) = n /\ Apart(slots)
      /\ \A i \in 1 .. n : slots[i] = gone[i].slot
      /\ Range(slots) = {e.slot : e \in Range(gone)}
    <2>1. DOMAIN gone = 1 .. n /\ \A i \in 1 .. n : gone[i] \in Places
        BY DEF Tables
    <2>2. \A i \in 1 .. n : gone[i].slot \in Slots
        BY <2>1 DEF Places
    <2>3. slots \in Seq(Slots)
        BY <1>1, <2>2
    <2>4. DOMAIN slots = 1 .. n /\ Len(slots) = n
        BY <1>1, <2>3
    <2>5. Apart(slots)
        BY <2>1 DEF Apart, PlacesApart
    <2>6. Range(slots) = {e.slot : e \in Range(gone)}
        BY <2>1 DEF Range
    <2> QED
        BY <2>3, <2>4, <2>5, <2>6
<1> HIDE DEF slots
<1>2. /\ Before(slots, 0) = {} /\ Before(slots, n) = Range(slots)
      /\ \A i \in 1 .. n : /\ Before(slots, i) = Before(slots, i - 1) \union {slots[i]}
                           /\ slots[i] \notin Before(slots, i - 1)
    BY <1>0, BeforeIs
<1>3. \A i \in 0 .. n : \A x : x \in I[i] <=> Good(x, i)
    BY DEF KeptBy
<1>4. w \in I[0]
    <2>1. leaving \ Before(slots, 0) = leaving
        BY <1>2
    <2>2. KeptBy(w, joins, waiting, leaving \ Before(slots, 0))
        BY <2>1
    <2>3. Along(w, w)
        BY DEF Along
    <2>4. Good(w, 0)
        BY <2>2, <2>3
    <2> HIDE DEF Good, I
    <2> QED
        BY <1>1, <1>3, <2>4
<1>5. ASSUME NEW i \in 1 .. n, NEW x \in I[i - 1]
      PROVE  Vacate(x, slots[i]) \in I[i]
    <2> DEFINE fewer == leaving \ Before(slots, i - 1)
               s == slots[i]
    <2>1. Good(x, i - 1)
        BY <1>1, <1>3
    <2>2. slots[i] \in leaving
        BY <1>0, <1>1 DEF Range
    <2>3. s \in fewer /\ fewer \ {s} = leaving \ Before(slots, i)
        BY <1>2, <2>2
    <2>4. KeptBy(x, joins, waiting, fewer) /\ Along(w, x)
        BY <2>1
    <2> HIDE DEF fewer, s
    <2>5. KeptBy(Vacate(x, s), joins, waiting, fewer \ {s}) /\ Along(x, Vacate(x, s))
        BY <2>3, <2>4, VacateKeeps
    <2>6. Along(w, Vacate(x, s))
        BY <2>4, <2>5 DEF Along
    <2>7. Good(Vacate(x, s), i)
        BY <2>3, <2>5, <2>6
    <2> HIDE DEF Good, I
    <2> QED
        BY <1>1, <1>3, <2>7 DEF s
<1>6. \A i \in 0 .. n : I[i] \in SUBSET Worlds
    OBVIOUS
<1>7. I \in [0 .. n -> SUBSET Worlds]
    OBVIOUS
<1> HIDE DEF Good, I
<1>8. PICK G \in [1 .. n -> [Worlds -> Worlds]] :
          \A i \in 1 .. n : \A x \in I[i - 1] : G[i][x] = Vacate(x, slots[i])
    <2> DEFINE G == [i \in 1 .. n |-> [x \in Worlds |-> IF x \in I[i - 1] THEN Vacate(x, slots[i]) ELSE x]]
    <2> HIDE DEF Worlds, Vacate
    <2>1. G \in [1 .. n -> [Worlds -> Worlds]]
        BY <1>1, <1>5, <1>6
    <2>2. \A i \in 1 .. n : \A x \in I[i - 1] : G[i][x] = Vacate(x, slots[i])
        BY <1>1, <1>6
    <2> HIDE DEF G
    <2> QED
        BY <2>1, <2>2
<1>9. PICK f : Walks(f, Worlds, w, n, G) /\ Passes(f, I, n)
    <2>1. \A i \in 1 .. n : \A x \in I[i - 1] : G[i][x] \in I[i]
        BY <1>5, <1>8
    <2> HIDE DEF Worlds, F, left, n
    <2> QED
        BY <1>1, <1>4, <1>7, <1>8, <2>1, WalkPasses
<1> HIDE DEF Worlds, Vacate
<1>10. \A i \in 1 .. n : f[i] = Vacate(f[i - 1], slots[i])
    BY <1>1, <1>8, <1>9 DEF Walks, Passes
<1>11. \A i \in 0 .. n : i = 0 \/ i \in 1 .. n
    BY <1>1
<1>12. F(f)
    BY <1>9, <1>10, <1>11 DEF Walks
<1>13. LetGo(w, gone) = left[n]
    <2>1. \A g : F(g) <=> g = [i \in 0 .. n |-> IF i = 0 THEN w ELSE Vacate(g[i - 1], gone[i].slot)]
        BY <1>0, <1>1
    <2>2. left = CHOOSE g : g = [i \in 0 .. n |-> IF i = 0 THEN w ELSE Vacate(g[i - 1], gone[i].slot)]
        BY <2>1
    <2> QED
        BY <2>2 DEF LetGo
<1> HIDE DEF F
<1>14. F(left)
    BY <1>12
<1>15. left = [i \in 0 .. n |-> IF i = 0 THEN w ELSE Vacate(left[i - 1], slots[i])]
    BY <1>14 DEF F
<1> HIDE DEF left
<1>16. left[0] = w /\ \A i \in 1 .. n : left[i] = Vacate(left[i - 1], slots[i])
    BY <1>1, <1>15
<1> DEFINE P == {i \in 0 .. n : left[i] \in I[i]}
<1>17. 0 .. n \subseteq P
    <2>1. 0 \in P
        BY <1>1, <1>4, <1>16
    <2>2. ASSUME NEW i \in 0 .. n - 1, i \in P PROVE i + 1 \in P
        <3>1. i + 1 \in 1 .. n /\ i + 1 \in 0 .. n /\ i + 1 - 1 = i
            BY <1>1
        <3>2. left[i + 1] = Vacate(left[i], slots[i + 1]) /\ left[i] \in I[i]
            BY <1>16, <2>2, <3>1
        <3> QED
            BY <1>5, <3>1, <3>2
    <2> HIDE DEF P, n
    <2> QED
        BY <1>1, <2>1, <2>2, StepByStep
<1>18. left[n] \in I[n]
    BY <1>1, <1>17
<1>19. Good(left[n], n)
    BY <1>1, <1>3, <1>18
<1> QED
    BY <1>0, <1>2, <1>13, <1>19 DEF Good

-----------------------------------------------------------------------------
(* The match starts: nobody waits any more.                                 *)

LEMMA BothIs ==
    ASSUME NEW S, NEW a \in Seq(S), NEW b \in Seq(S)
    PROVE  /\ a \o b \in Seq(S) /\ Range(a \o b) = Range(a) \union Range(b)
           /\ a \o <<>> = a /\ Range(<<>>) = {}
<1>1. a \o b \in Seq(S) /\ Len(a \o b) = Len(a) + Len(b)
    OBVIOUS
<1>2. \A i \in 1 .. Len(a) : (a \o b)[i] = a[i]
    OBVIOUS
<1>3. \A i \in 1 .. Len(b) : (a \o b)[Len(a) + i] = b[i]
    OBVIOUS
<1>4. /\ \A i \in 1 .. Len(a) : i \in 1 .. Len(a \o b)
      /\ \A i \in 1 .. Len(b) : Len(a) + i \in 1 .. Len(a \o b)
      /\ \A i \in 1 .. Len(a \o b) : i \in 1 .. Len(a) \/ \E j \in 1 .. Len(b) : i = Len(a) + j
    <2>1. Len(a) \in Nat /\ Len(b) \in Nat
        OBVIOUS
    <2>2. ASSUME NEW i \in 1 .. Len(a \o b), i \notin 1 .. Len(a)
          PROVE  \E j \in 1 .. Len(b) : i = Len(a) + j
        <3>1. i - Len(a) \in 1 .. Len(b) /\ i = Len(a) + (i - Len(a))
            BY <1>1, <2>1, <2>2
        <3> QED
            BY <3>1
    <2> QED
        BY <1>1, <2>1, <2>2
<1>5. DOMAIN (a \o b) = 1 .. Len(a \o b) /\ DOMAIN a = 1 .. Len(a) /\ DOMAIN b = 1 .. Len(b)
    BY <1>1
<1>6. Range(a \o b) = Range(a) \union Range(b)
    <2> DEFINE c == a \o b
    <2> HIDE DEF c
    <2>1. \A x \in Range(c) : x \in Range(a) \union Range(b)
        BY <1>2, <1>3, <1>4, <1>5 DEF Range, c
    <2>2. \A x \in Range(a) : x \in Range(c)
        BY <1>2, <1>4, <1>5 DEF Range, c
    <2>3. \A x \in Range(b) : x \in Range(c)
        BY <1>3, <1>4, <1>5 DEF Range, c
    <2> QED
        BY <2>1, <2>2, <2>3 DEF c
<1>7. a \o <<>> = a
    OBVIOUS
<1>8. Range(<<>>) = {}
    BY DEF Range
<1> QED
    BY <1>1, <1>6, <1>7, <1>8

Ready(w, joins) ==
    /\ w \in Worlds /\ w.host.phase = "starting"
    /\ w.host.arriving = <<>> /\ w.host.listener = <<>>
    /\ Kept(w.host, w.link, joins, {}, {})

LEMMA StartKeeps ==
    ASSUME NEW w, NEW joins \in [Players -> Joiners],
           KeptBy(w, joins, Range(w.host.arriving) \union Range(w.host.listener), {})
    PROVE  Ready(StartMatch(w), joins)
<1> DEFINE waiting == Range(w.host.arriving) \union Range(w.host.listener)
           old == w.host.roster
           places == w.host.links
           h == [w.host EXCEPT !.phase = "starting", !.arriving = <<>>, !.listener = <<>>]
           ln == [l \in Links |-> CASE l \in Range(w.host.arriving) -> Refuse(w.link[l])
                                    [] l \in Range(w.host.listener) -> CloseNear(w.link[l])
                                    [] OTHER -> w.link[l]]
           none == <<>>
           m == [kind |-> "refuse"]
<1>1. w \in Worlds /\ w.host \in Hosts /\ w.link \in [Links -> Wires] /\ w.host.phase = "hosting"
    BY WorldIs DEF KeptBy
<1>2. Kept(w.host, w.link, joins, waiting, {})
    BY DEF KeptBy
<1>3. /\ \A o \in Links : Attended(o, w.link[o], joins[o[1]], waiting, places, old, FALSE)
      /\ Settled(old, places, waiting, {})
    BY <1>1, <1>2 DEF Kept
<1>4. none \in Lines /\ "starting" \in Phases
    BY DEF Lines, Phases
<1>5. /\ h \in Hosts /\ h.phase = "starting" /\ h.arriving = none /\ h.listener = none
      /\ h.roster = old /\ h.links = places
    <2> HIDE DEF none, Lines, Phases
    <2>1. h = [w.host EXCEPT !.phase = "starting", !.arriving = none, !.listener = none]
        BY DEF none
    <2> HIDE DEF h
    <2> QED
        BY <1>1, <1>4, <2>1 DEF Hosts
<1> HIDE DEF none, h
<1>6. \A l \in Links : \/ l \in waiting /\ ln[l] \in {Refuse(w.link[l]), CloseNear(w.link[l])}
                       \/ l \notin waiting /\ ln[l] = w.link[l]
    <2> HIDE DEF Refuse, CloseNear
    <2> QED
        OBVIOUS
<1>7. m \in Mails /\ m.kind \in {"refuse", "bye"}
    BY DEF Mails
<1>8. ASSUME NEW l \in Links
      PROVE  ln[l] \in Wires /\ Attended(l, ln[l], joins[l[1]], {}, places, old, FALSE)
    <2> DEFINE k == w.link[l]
               me == joins[l[1]]
               s == ln[l]
               empty == {}
    <2>1. k \in Wires /\ me \in Joiners /\ Attended(l, k, me, waiting, places, old, FALSE)
        BY <1>1, <1>3, LinksAre
    <2>2. CASE l \notin waiting
        <3>1. s = k
            BY <1>6, <2>2
        <3> HIDE DEF s, k, me, old, places, waiting
        <3>2. Attended(l, k, me, {}, places, old, FALSE)
            BY <2>1, <2>2 DEF Attended, Served
        <3> QED
            BY <2>1, <3>1, <3>2 DEF s, me, places, old
    <2>3. CASE l \in waiting
        <3>1. s \in {Refuse(k), CloseNear(k)}
            BY <1>6, <2>3
        <3>2. Refuse(k) = CloseNear(SendDown(k, m))
            BY DEF Refuse
        <3>3. l \in waiting \union Linked(places)
            BY <2>3
        <3> HIDE DEF s, k, me, old, places, waiting, m, ln
        <3>4. s \in Wires /\ s.near = "closed" /\ Attended(l, s, me, waiting, places, old, FALSE)
            <4>1. CASE s = CloseNear(k)
                <5>1. CloseNear(k) \in Wires /\ Attended(l, CloseNear(k), me, waiting, places, old, FALSE)
                    BY <2>1, <3>3, ClosedAttended
                <5>2. CloseNear(k).near = "closed"
                    BY <2>1, CloseNearIs
                <5> QED
                    BY <4>1, <5>1, <5>2
            <4>2. CASE s = CloseNear(SendDown(k, m))
                <5> DEFINE x == CloseNear(SendDown(k, m))
                <5>1. x \in Wires /\ x.near = "closed" /\ Attended(l, x, me, waiting, places, old, FALSE)
                    BY <1>7, <2>1, <3>3, RefusedAttended
                <5> HIDE DEF x
                <5> QED
                    BY <4>2, <5>1 DEF x
            <4> QED
                BY <3>1, <3>2, <4>1, <4>2
        <3> HIDE DEF empty
        <3>5. l \in empty \union Linked(places) => l \in waiting \union Linked(places)
            BY <3>3
        <3>6. Attended(l, s, me, empty, places, old, FALSE)
            BY <3>4, <3>5, ShutAttended
        <3> QED
            BY <3>4, <3>6 DEF s, me, places, old, empty
    <2> QED
        BY <2>2, <2>3
<1>9. ln \in [Links -> Wires]
    BY <1>8
<1>10. StartMatch(w) = [host |-> h, link |-> ln]
    BY DEF StartMatch, h
<1> HIDE DEF ln
<1>11. Settled(old, places, {}, {})
    BY <1>3 DEF Settled
<1>12. Kept(h, ln, joins, {}, {})
    BY <1>5, <1>8, <1>9, <1>11 DEF Kept
<1> HIDE DEF Worlds
<1>13. StartMatch(w) \in Worlds /\ StartMatch(w).host = h /\ StartMatch(w).link = ln
    BY <1>5, <1>9, <1>10 DEF Worlds
<1> QED
    BY <1>5, <1>12, <1>13 DEF Ready, none

LEMMA KeptLasts ==
    ASSUME NEW w, NEW joins,
           \/ Ready(w, joins)
           \/ /\ w.host.listener = <<>> /\ w.host.arriving \in Seq(Links) /\ Apart(w.host.arriving)
              /\ KeptBy(w, joins, Range(w.host.arriving), {})
    PROVE  Lasts(w.host, w.link, joins)
<1> DEFINE seq == w.host.arriving
           none == <<>>
<1>1. w.host.listener = none
    BY DEF Ready
<1>2. seq \in Seq(Links) /\ none \in Seq(Links)
    <2>1. none \in Seq(Links)
        OBVIOUS
    <2>2. Ready(w, joins) => seq = none
        BY DEF Ready
    <2> HIDE DEF none, seq
    <2> QED
        BY <2>1, <2>2 DEF seq
<1>3. seq \o none = seq /\ Range(none) = {}
    <2> HIDE DEF seq
    <2> QED
        BY <1>2, BothIs
<1>4. Apart(seq) /\ Kept(w.host, w.link, joins, Range(seq), {})
    <2>1. CASE Ready(w, joins)
        <3>1. seq = none
            BY <2>1 DEF Ready
        <3>2. Apart(none)
            BY DEF Apart
        <3>3. Kept(w.host, w.link, joins, {}, {})
            BY <2>1 DEF Ready
        <3> HIDE DEF seq, none
        <3> QED
            BY <1>3, <3>1, <3>2, <3>3
    <2>2. CASE ~Ready(w, joins)
        BY <2>2 DEF KeptBy
    <2> QED
        BY <2>1, <2>2
<1> HIDE DEF none
<1> QED
    BY <1>1, <1>3, <1>4 DEF Lasts

-----------------------------------------------------------------------------
(* What a poll of the host makes of what it read.                           *)

LEMMA PeopledLess ==
    ASSUME NEW roster, NEW links, PlacesApart(links), Peopled(roster, links, {}),
           NEW rest, NEW gone, Range(links) = Range(rest) \union Range(gone),
           Range(rest) \cap Range(gone) = {}
    PROVE  Peopled(roster, rest, {e.slot : e \in Range(gone)})
<1> DEFINE leaving == {e.slot : e \in Range(gone)}
<1>1. \A e, o \in Range(links) : e.slot = o.slot => e = o
    BY DEF PlacesApart, Range
<1>2. \A s \in leaving : \E m \in Range(roster) : m.slot = s
    BY DEF Peopled
<1>3. ASSUME NEW m \in Range(roster), m.name \in Players, m.slot \notin leaving
      PROVE  \E e \in Range(rest) : e.slot = m.slot /\ e.link[1] = m.name
    <2>1. PICK e \in Range(links) : e.slot = m.slot /\ e.link[1] = m.name
        BY <1>3 DEF Peopled
    <2>2. e \notin Range(gone)
        BY <1>3, <2>1
    <2> QED
        BY <2>1, <2>2
<1>4. ASSUME NEW e \in Range(rest)
      PROVE  e.slot \notin leaving /\ \E m \in Range(roster) : m.slot = e.slot /\ m.name = e.link[1]
    <2>1. e.slot \notin leaving
        BY <1>1
    <2>2. \E m \in Range(roster) : m.slot = e.slot /\ m.name = e.link[1]
        BY DEF Peopled
    <2> QED
        BY <2>1, <2>2
<1> HIDE DEF leaving
<1>5. Peopled(roster, rest, leaving)
    BY <1>2, <1>3, <1>4 DEF Peopled
<1> QED
    BY <1>5 DEF leaving

(* What was read of a link, and the link closed if nobody will serve it.    *)
LEMMA ReadAttended ==
    ASSUME NEW l, NEW k \in Wires, NEW me \in Joiners, NEW waiting, NEW links,
           NEW roster, NEW playing, Attended(l, k, me, waiting, links, roster, playing),
           NEW n, l \in waiting \union Linked(links) => n \in {0, Len(k.up)},
           NEW shut
    PROVE  LET r == IF l \in waiting \union Linked(links) THEN ReceiveNear(k, n) ELSE k
               s == IF l \in shut /\ l \in waiting \union Linked(links) THEN CloseNear(r) ELSE r
           IN  /\ s \in Wires /\ Attended(l, s, me, waiting, links, roster, playing)
               /\ s.near = "open" =>
                     l \in waiting \union Linked(links) /\ l \notin shut /\ End \notin Batch(k.up, n)
<1> DEFINE served == l \in waiting \union Linked(links)
           r == IF served THEN ReceiveNear(k, n) ELSE k
           s == IF l \in shut /\ served THEN CloseNear(r) ELSE r
           goal(x) == x \in Wires /\ Attended(l, x, me, waiting, links, roster, playing)
<1>1. goal(r) /\ (r.near = "open" => served /\ End \notin Batch(k.up, n))
    <2>1. CASE ~served
        BY <2>1 DEF Attended, Served
    <2>2. CASE served
        <3> DEFINE x == ReceiveNear(k, n)
        <3>1. x \in Wires /\ x.far = k.far /\ x.down = k.down
              /\ x.near = IF End \in Batch(k.up, n) THEN "closed" ELSE k.near
            BY <2>2, ReceiveNearIs
        <3> HIDE DEF x
        <3>2. k.near # "none"
            BY <2>2 DEF Attended, Served
        <3>3. x.near = k.near \/ (x.near = "closed" /\ k.near # "none")
            BY <3>1, <3>2
        <3>4. Mine(l, me) => Follows(x, me, Seat(links, l), roster, playing)
            BY <3>1, <3>3, StillFollows DEF Attended
        <3>5. Attended(l, x, me, waiting, links, roster, playing)
            BY <3>1, <3>3, <3>4, StillAttended
        <3> QED
            BY <2>2, <3>1, <3>5 DEF x
    <2> QED
        BY <2>1, <2>2
<1> HIDE DEF r
<1>2. CASE l \in shut /\ served
    <2>1. r \in Wires /\ Attended(l, r, me, waiting, links, roster, playing)
        BY <1>1
    <2>2. CloseNear(r) \in Wires /\ Attended(l, CloseNear(r), me, waiting, links, roster, playing)
        BY <1>2, <2>1, ClosedAttended
    <2>3. CloseNear(r).near = "closed"
        BY <2>1, CloseNearIs
    <2>4. s = CloseNear(r)
        BY <1>2
    <2> HIDE DEF s
    <2> QED
        BY <2>2, <2>3, <2>4 DEF s, r
<1>3. CASE ~(l \in shut /\ served)
    <2>1. s = r
        BY <1>3
    <2> HIDE DEF s
    <2> QED
        BY <1>1, <1>3, <2>1 DEF s, r
<1> QED
    BY <1>2, <1>3

(* The links that are still served are those that wait on or kept a place. *)
LEMMA KeptOn ==
    ASSUME NEW l, NEW k, NEW me, NEW waiting, NEW links, NEW roster, NEW playing,
           Attended(l, k, me, waiting, links, roster, playing),
           waiting \cap Linked(links) = {}, NEW less, less \subseteq waiting,
           NEW rest, Linked(rest) \subseteq Linked(links),
           l \in Linked(rest) => Seat(rest, l) = Seat(links, l),
           k.near = "open" => l \in less \union Linked(rest)
    PROVE  Attended(l, k, me, less, rest, roster, playing)
<1>1. CASE k.near # "open"
    <2>1. l \in less \union Linked(rest) => l \in waiting \union Linked(links)
        OBVIOUS
    <2> QED
        BY <1>1, <2>1, ShutAttended
<1>2. CASE k.near = "open"
    <2>1. Seat(rest, l) = Seat(links, l)
        <3>1. l \notin Linked(rest) => l \notin Linked(links)
            BY <1>2
        <3> QED
            BY <3>1, PlacesAre
    <2> QED
        BY <1>2, <2>1 DEF Attended, Served
<1> QED
    BY <1>1, <1>2

LEMMA MailIs ==
    ASSUME NEW links, NEW n \in Mail(links)
    PROVE  \A l \in links : n[l] \in {0, Len(link[l].up)}
BY DEF Mail

LEMMA PolledKeeps ==
    ASSUME Lasts(host, link, joiner), joiner \in [Players -> Joiners], host.phase = "hosting",
           NEW n \in Mail(HostLinks), NEW late
    PROVE  Lasts(Polled(n, late).host, Polled(n, late).link, joiner)
<1> DEFINE all == host.arriving \o host.listener
           heard == [l \in Range(all) |-> Batch(link[l].up, n[l])]
           said == {l \in Range(all) : [kind |-> "hello"] \in heard[l]}
           waits == {l \in Range(all) \ said : End \notin heard[l]}
           left == {e \in Range(host.links) : Departed(link[e.link], n[e.link])}
           gone == Only(host.links, left)
           shut == (waits \cap late) \union Linked(gone)
           served == Range(all) \union Linked(host.links)
           read == ReadOf(served, n)
           stay == Range(host.links) \ left
           rest == Only(host.links, stay)
           arriving == Only(all, waits \ late)
           h == [host EXCEPT !.listener = <<>>, !.arriving = arriving, !.links = rest]
           ln == [l \in Links |-> IF l \in shut THEN CloseNear(read[l]) ELSE read[l]]
           w == [host |-> h, link |-> ln]
           hellos == Only(all, said)
           within == LetIn(w, hellos)
           done == LetGo(within, gone)
           old == host.roster
           places == host.links
           leaving == {e.slot : e \in Range(gone)}
           waiting == said \union (waits \ late)
<1>1. /\ Kept(host, link, joiner, Range(all), {}) /\ Apart(all)
      /\ host \in Hosts /\ link \in [Links -> Wires]
      /\ old \in Rosters /\ places \in Tables /\ host.arriving \in Lines /\ host.listener \in Lines
    BY DEF Lasts, Kept, Hosts
<1>2. /\ \A l \in Links : Attended(l, link[l], joiner[l[1]], Range(all), places, old, FALSE)
      /\ SlotsApart(old) /\ PlacesApart(places) /\ Peopled(old, places, {})
      /\ Range(all) \cap Linked(places) = {}
    BY <1>1 DEF Kept, Settled
<1>3. all \in Seq(Links) /\ Range(all) \subseteq Links
    <2>1. all \in Seq(Links)
        BY <1>1, BothIs DEF Lines
    <2> HIDE DEF all
    <2>2. \A i \in DOMAIN all : all[i] \in Links
        BY <2>1
    <2> QED
        BY <2>1, <2>2 DEF Range
<1>4. \A l \in served : n[l] \in {0, Len(link[l].up)}
    BY MailIs DEF HostLinks
<1>5. /\ gone \in Tables /\ PlacesApart(gone) /\ Range(gone) = left
      /\ \A e \in Range(places) : e \in left <=> e.link \in Linked(gone)
    <2>1. left \subseteq Range(places)
        OBVIOUS
    <2>2. places \in Tables /\ PlacesApart(places)
        BY <1>1, <1>2
    <2> HIDE DEF left, places
    <2>3. /\ gone \in Tables /\ PlacesApart(gone) /\ Range(gone) = Range(places) \cap left
          /\ \A e \in Range(places) : e \in left <=> e.link \in Linked(gone)
        BY <2>2, SomePlaces DEF places
    <2> HIDE DEF gone
    <2> QED
        BY <2>1, <2>3
<1>6. /\ rest \in Tables /\ PlacesApart(rest) /\ Range(rest) = Range(places) \ left
      /\ \A l \in Linked(rest) : Seat(rest, l) = Seat(places, l) /\ l \in Linked(places)
      /\ \A e \in Range(places) : e \in stay <=> e.link \in Linked(rest)
    <2>1. stay = Range(places) \ left
        OBVIOUS
    <2>2. places \in Tables /\ PlacesApart(places)
        BY <1>1, <1>2
    <2> HIDE DEF left, places, stay
    <2> QED
        BY <2>1, <2>2, SomePlaces DEF places
<1>7. Peopled(old, rest, leaving)
    <2>1. Range(places) = Range(rest) \union Range(gone) /\ Range(rest) \cap Range(gone) = {}
        BY <1>5, <1>6
    <2> HIDE DEF rest, gone, old, places, leaving
    <2> QED
        BY <1>2, <2>1, PeopledLess DEF leaving
<1>8. /\ arriving \in Seq(Links) /\ Range(arriving) = waits \ late /\ Apart(arriving)
      /\ hellos \in Seq(Links) /\ Range(hellos) = said /\ Apart(hellos)
    <2>1. \A A : /\ Only(all, A) \in Seq(Links) /\ Range(Only(all, A)) = Range(all) \cap A
                 /\ Apart(Only(all, A))
        <3> SUFFICES ASSUME NEW A
                     PROVE  /\ Only(all, A) \in Seq(Links) /\ Range(Only(all, A)) = Range(all) \cap A
                            /\ Apart(Only(all, A))
            OBVIOUS
        <3> HIDE DEF all
        <3>1. Only(all, A) \in Seq(Links) /\ Range(Only(all, A)) = Range(all) \cap A
            BY <1>3, OnlyIs
        <3>2. PICK f : /\ \A i \in DOMAIN Only(all, A) : f[i] \in DOMAIN all /\ Only(all, A)[i] = all[f[i]]
                       /\ \A i, j \in DOMAIN Only(all, A) : f[i] = f[j] => i = j
            BY <1>3, OnlyApart
        <3>3. Apart(Only(all, A))
            BY <1>1, <3>2 DEF Apart
        <3> QED
            BY <3>1, <3>3
    <2>2. Range(all) \cap (waits \ late) = waits \ late /\ Range(all) \cap said = said
        OBVIOUS
    <2> HIDE DEF all, waits, said
    <2> QED
        BY <2>1, <2>2
<1>9. /\ waiting \in SUBSET Links /\ waiting \subseteq Range(all)
      /\ waiting \ said = waits \ late /\ said \subseteq waiting
    BY <1>3
<1>10. /\ h \in Hosts /\ h.phase = "hosting" /\ h.roster = old /\ h.links = rest
       /\ h.listener = <<>> /\ h.arriving = arriving
    <2> DEFINE none == <<>>
    <2>1. none \in Lines /\ arriving \in Lines
        BY <1>8 DEF Lines
    <2>2. h = [host EXCEPT !.listener = none, !.arriving = arriving, !.links = rest]
        OBVIOUS
    <2> HIDE DEF none, arriving, rest, h, Lines, Tables
    <2>3. /\ h \in Hosts /\ h.phase = host.phase /\ h.roster = old /\ h.links = rest
          /\ h.listener = none /\ h.arriving = arriving
        BY <1>1, <1>6, <2>1, <2>2 DEF Hosts
    <2> QED
        BY <2>3 DEF none
<1> HIDE DEF h, arriving, hellos, rest, gone, leaving
<1>11. ASSUME NEW l \in Links
       PROVE  ln[l] \in Wires /\ Attended(l, ln[l], joiner[l[1]], waiting, rest, old, FALSE)
    <2> DEFINE k == link[l]
               me == joiner[l[1]]
               inside == l \in Range(all) \union Linked(places)
               r == IF inside THEN ReceiveNear(k, n[l]) ELSE k
               s == IF l \in shut /\ inside THEN CloseNear(r) ELSE r
    <2>1. k \in Wires /\ me \in Joiners /\ Attended(l, k, me, Range(all), places, old, FALSE)
        BY <1>1, <1>2, LinksAre
    <2>2. inside => n[l] \in {0, Len(k.up)}
        BY <1>4
    <2>3. /\ s \in Wires /\ Attended(l, s, me, Range(all), places, old, FALSE)
          /\ s.near = "open" => inside /\ l \notin shut /\ End \notin Batch(k.up, n[l])
        <3> HIDE DEF k, me, shut, all, places, old
        <3> QED
            BY <2>1, <2>2, ReadAttended
    <2>4. shut \subseteq served
        <3>1. Linked(gone) \subseteq Linked(places)
            BY <1>5, PlacesAre
        <3> QED
            BY <3>1
    <2>5. ln[l] = s
        BY <2>4 DEF ReadOf
    <2> HIDE DEF ln, s
    <2>6. s.near = "open" => l \in waiting \union Linked(rest)
        <3> SUFFICES ASSUME s.near = "open" PROVE l \in waiting \union Linked(rest)
            OBVIOUS
        <3>1. inside /\ l \notin shut /\ End \notin Batch(k.up, n[l])
            BY <2>3
        <3>2. CASE l \in Range(all)
            <4>1. heard[l] = Batch(k.up, n[l])
                BY <3>2
            <4> HIDE DEF heard
            <4> QED
                BY <3>1, <3>2, <4>1
        <3>3. CASE l \in Linked(places)
            <4>1. PICK e \in Range(places) : e.link = l
                BY <3>3, PlacesAre
            <4>2. e \notin left
                BY <1>5, <3>1, <4>1
            <4>3. e \in stay
                BY <4>2
            <4>4. l \in Linked(rest)
                BY <1>6, <4>1, <4>3
            <4> QED
                BY <4>4
        <3> QED
            BY <3>1, <3>2, <3>3
    <2>7. Attended(l, s, me, waiting, rest, old, FALSE)
        <3> DEFINE every == Range(all)
        <3>1. /\ Attended(l, s, me, every, places, old, FALSE)
              /\ every \cap Linked(places) = {} /\ waiting \subseteq every
              /\ Linked(rest) \subseteq Linked(places)
              /\ l \in Linked(rest) => Seat(rest, l) = Seat(places, l)
            BY <1>2, <1>6, <1>9, <2>3
        <3> HIDE DEF every, waiting, places, old, me
        <3> QED
            BY <2>6, <3>1, KeptOn
    <2> QED
        BY <2>3, <2>5, <2>7
<1>12. ln \in [Links -> Wires]
    BY <1>11
<1> HIDE DEF ln
<1>13. Settled(old, rest, waiting, leaving)
    BY <1>2, <1>6, <1>7, <1>9 DEF Settled
<1>14. KeptBy(w, joiner, waiting, leaving)
    <2>1. w \in Worlds /\ w.host = h /\ w.link = ln
        BY <1>10, <1>12 DEF Worlds
    <2> HIDE DEF w, waiting, old
    <2>2. Kept(h, ln, joiner, waiting, leaving)
        BY <1>10, <1>11, <1>12, <1>13 DEF Kept, old
    <2> QED
        BY <1>10, <2>1, <2>2 DEF KeptBy
<1>15. w.host.listener = <<>> /\ w.host.arriving = arriving
    BY <1>10
<1> HIDE DEF w
<1>16. KeptBy(within, joiner, waits \ late, leaving) /\ Along(w, within)
    <2> DEFINE x == LetIn(w, hellos)
    <2> HIDE DEF waiting, said
    <2>1. KeptBy(x, joiner, waiting \ Range(hellos), leaving) /\ Along(w, x)
        BY <1>8, <1>9, <1>14, LetInKeeps
    <2> QED
        BY <1>8, <1>9, <2>1
<1> HIDE DEF within
<1>17. KeptBy(done, joiner, waits \ late, {}) /\ Along(within, done)
    <2> DEFINE some == waits \ late
               x == LetGo(within, gone)
    <2>1. some \in SUBSET Links
        BY <1>3
    <2>2. leaving = {e.slot : e \in Range(gone)} /\ leaving \ leaving = {}
        BY DEF leaving
    <2> HIDE DEF some
    <2>3. KeptBy(x, joiner, some, leaving \ {e.slot : e \in Range(gone)}) /\ Along(within, x)
        BY <1>5, <1>16, <2>1, <2>2, LetGoKeeps DEF some
    <2> QED
        BY <2>2, <2>3 DEF some
<1> HIDE DEF done
<1>18. done.host.listener = <<>> /\ done.host.arriving = arriving
    BY <1>15, <1>16, <1>17 DEF Along
<1>19. /\ KeptBy(done, joiner, Range(done.host.arriving), {})
       /\ done.host.arriving \in Seq(Links) /\ Apart(done.host.arriving)
    BY <1>8, <1>17, <1>18
<1>20. Polled(n, late) = IF Cap > 0 /\ Len(done.host.roster) >= Cap THEN StartMatch(done) ELSE done
    BY DEF Polled, done, within, w, ln, h, arriving, hellos, rest, gone
<1>21. CASE Polled(n, late) = done
    BY <1>18, <1>19, <1>21, KeptLasts
<1>22. CASE Polled(n, late) = StartMatch(done)
    <2>1. Range(done.host.arriving) \union Range(done.host.listener) = Range(done.host.arriving)
        BY <1>18 DEF Range
    <2>2. KeptBy(done, joiner, Range(done.host.arriving) \union Range(done.host.listener), {})
        BY <1>19, <2>1
    <2>3. Ready(StartMatch(done), joiner)
        BY <2>2, StartKeeps
    <2>4. Lasts(StartMatch(done).host, StartMatch(done).link, joiner)
        BY <2>3, KeptLasts
    <2> QED
        BY <1>22, <2>4
<1> QED
    BY <1>20, <1>21, <1>22

-----------------------------------------------------------------------------
(* The match begins, for whoever has a place.                               *)

LEMMA StartAttended ==
    ASSUME NEW l \in Links, NEW k \in Wires, NEW me \in Joiners, NEW waiting, NEW links,
           NEW roster \in Rosters, Attended(l, k, me, waiting, links, roster, FALSE)
    PROVE  LET s == IF l \in Linked(links) THEN SendDown(k, [kind |-> "start", roster |-> roster]) ELSE k
           IN  s \in Wires /\ Attended(l, s, me, waiting, links, roster, TRUE)
<1>1. Dialing(l, k, me)
    BY DEF Attended
<1>2. k.near = "open" => k.far \in {"open", "closed"}
    BY <1>1, OpenIsDialed
<1>3. CASE l \notin Linked(links)
    <2>1. Seat(links, l) = {}
        BY <1>3, PlacesAre
    <2>2. Mine(l, me) => Follows(k, me, Seat(links, l), roster, TRUE)
        BY <2>1, OutsideFollows DEF Attended
    <2> QED
        BY <1>3, <2>2 DEF Attended
<1>4. CASE l \in Linked(links)
    <2> DEFINE m == [kind |-> "start", roster |-> roster]
               s == SendDown(k, m)
    <2>1. Seat(links, l) # {} /\ k.near # "none"
        BY <1>4, PlacesAre DEF Attended, Served
    <2>2. m \in Mails
        BY DEF Mails
    <2>3. s \in Wires /\ s.far = k.far /\ s.near = k.near
        <3> HIDE DEF m
        <3> QED
            BY <2>2, SendDownIs
    <2>4. k.far \notin {"none", "dialing"}
        BY <1>1, <2>1, OpenIsDialed
    <2>5. Mine(l, me) => Follows(s, me, Seat(links, l), roster, TRUE)
        BY <1>2, <2>1, StartFollows DEF Attended
    <2> HIDE DEF s
    <2>6. Attended(l, s, me, waiting, links, roster, TRUE)
        BY <2>3, <2>4, <2>5 DEF Attended, Served, Dialing
    <2> QED
        BY <1>4, <2>3, <2>6 DEF s
<1> QED
    BY <1>3, <1>4

LEMMA BeginKeeps ==
    ASSUME NEW h, NEW ln, NEW joins \in [Players -> Joiners], Lasts(h, ln, joins),
           h.phase = "starting"
    PROVE  Lasts([h EXCEPT !.phase = "playing"],
                 ToEach(ln, Linked(h.links), [kind |-> "start", roster |-> h.roster]), joins)
<1> DEFINE waiting == Range(h.arriving \o h.listener)
           roster == h.roster
           places == h.links
           m == [kind |-> "start", roster |-> roster]
           g == [h EXCEPT !.phase = "playing"]
           told == ToEach(ln, Linked(places), m)
<1>1. /\ h \in Hosts /\ ln \in [Links -> Wires] /\ Settled(roster, places, waiting, {})
      /\ \A l \in Links : Attended(l, ln[l], joins[l[1]], waiting, places, roster, FALSE)
    BY DEF Lasts, Kept
<1>2. /\ g \in Hosts /\ g.phase = "playing" /\ g.roster = roster /\ g.links = places
      /\ g.arriving = h.arriving /\ g.listener = h.listener /\ roster \in Rosters
    <2>1. "playing" \in Phases
        BY DEF Phases
    <2> HIDE DEF Phases
    <2> QED
        BY <1>1, <2>1 DEF Hosts
<1>3. m \in Mails
    <2> HIDE DEF roster
    <2> QED
        BY <1>2 DEF Mails
<1>4. /\ told \in [Links -> Wires]
      /\ \A l \in Links : told[l] = IF l \in Linked(places) THEN SendDown(ln[l], m) ELSE ln[l]
    <2> HIDE DEF m, places
    <2> QED
        BY <1>1, <1>3, SpreadIs
<1> HIDE DEF told, g
<1>5. ASSUME NEW l \in Links
      PROVE  Attended(l, told[l], joins[l[1]], waiting, places, roster, TRUE)
    <2> DEFINE k == ln[l]
               me == joins[l[1]]
               s == IF l \in Linked(places) THEN SendDown(k, m) ELSE k
    <2>1. k \in Wires /\ me \in Joiners /\ Attended(l, k, me, waiting, places, roster, FALSE)
        BY <1>1, LinksAre
    <2>2. told[l] = s
        BY <1>4
    <2> HIDE DEF k, me, waiting, places, roster
    <2>3. Attended(l, s, me, waiting, places, roster, TRUE)
        BY <1>2, <2>1, StartAttended
    <2> HIDE DEF s
    <2> QED
        BY <2>2, <2>3 DEF me
<1> HIDE DEF roster, places
<1>6. Kept(g, told, joins, waiting, {})
    BY <1>1, <1>2, <1>4, <1>5 DEF Kept
<1>7. g.arriving \o g.listener = h.arriving \o h.listener /\ Apart(h.arriving \o h.listener)
    BY <1>2 DEF Lasts
<1> HIDE DEF waiting
<1>8. Lasts(g, told, joins)
    BY <1>6, <1>7 DEF Lasts, waiting
<1> QED
    BY <1>8 DEF g, told, m, roster, places

-----------------------------------------------------------------------------
(* A player leaves the match.                                               *)

(* What a departure leaves as it is.                                        *)
Onward(w, v) ==
    /\ v.host.phase = w.host.phase /\ v.host.arriving = w.host.arriving
    /\ v.host.listener = w.host.listener /\ v.host.links = w.host.links

Plays(w, joins, waiting) ==
    w \in Worlds /\ w.host.phase = "playing" /\ Kept(w.host, w.link, joins, waiting, {})

LEMMA DepartAttended ==
    ASSUME NEW l, NEW k \in Wires, NEW me \in Joiners, NEW waiting, NEW links,
           NEW roster, Attended(l, k, me, waiting, links, roster, TRUE),
           NEW out, out => l \in Linked(links),
           NEW m \in Mails, m.kind = "absent"
    PROVE  LET c == IF out THEN CloseNear(k) ELSE k
               s == IF l \in Linked(links) THEN SendDown(c, m) ELSE c
           IN  s \in Wires /\ Attended(l, s, me, waiting, links, roster, TRUE)
<1> DEFINE c == IF out THEN CloseNear(k) ELSE k
           s == SendDown(c, m)
<1>1. c \in Wires /\ Attended(l, c, me, waiting, links, roster, TRUE)
    <2>1. CASE ~out
        BY <2>1
    <2>2. CASE out
        <3>1. CloseNear(k) \in Wires /\ Attended(l, CloseNear(k), me, waiting, links, roster, TRUE)
            BY <2>2, ClosedAttended
        <3> QED
            BY <2>2, <3>1
    <2> QED
        BY <2>1, <2>2
<1> HIDE DEF c
<1>2. CASE l \in Linked(links)
    <2>1. s \in Wires /\ s.far = c.far /\ s.near = c.near
        BY <1>1, SendDownIs
    <2>2. m # End
        BY DEF End
    <2>3. Mine(l, me) => Follows(s, me, Seat(links, l), roster, TRUE)
        BY <1>1, <2>2, QuietFollows DEF Attended
    <2>4. c.near # "none" /\ Dialing(l, c, me)
        BY <1>1, <1>2 DEF Attended, Served
    <2>5. c.far \notin {"none", "dialing"}
        BY <1>1, <2>4, OpenIsDialed
    <2> HIDE DEF s
    <2>6. Attended(l, s, me, waiting, links, roster, TRUE)
        BY <1>1, <2>1, <2>3, <2>5, StillAttended
    <2> QED
        BY <1>2, <2>1, <2>6 DEF s, c
<1>3. CASE l \notin Linked(links)
    BY <1>1, <1>3 DEF c
<1> QED
    BY <1>2, <1>3

LEMMA DepartKeeps ==
    ASSUME NEW w, NEW joins \in [Players -> Joiners], NEW waiting,
           Plays(w, joins, waiting), NEW e \in Range(w.host.links)
    PROVE  Plays(Depart(w, e), joins, waiting) /\ Onward(w, Depart(w, e))
<1>1. CASE e.slot \in w.host.absent
    BY <1>1 DEF Depart, Onward
<1>2. CASE e.slot \notin w.host.absent
    <2> DEFINE roster == w.host.roster
               places == w.host.links
               m == [kind |-> "absent", slot |-> e.slot]
               absent == w.host.absent \union {e.slot}
               h == [w.host EXCEPT !.absent = @ \union {e.slot}]
               closed == [w.link EXCEPT ![e.link] = CloseNear(w.link[e.link])]
               ln == ToEach(closed, Linked(places), m)
               v == [host |-> h, link |-> ln]
    <2>1. w \in Worlds /\ w.host \in Hosts /\ w.link \in [Links -> Wires] /\ w.host.phase = "playing"
        BY WorldIs DEF Plays
    <2>2. /\ Kept(w.host, w.link, joins, waiting, {})
          /\ \A l \in Links : Attended(l, w.link[l], joins[l[1]], waiting, places, roster, TRUE)
        BY <2>1 DEF Plays, Kept
    <2>3. e \in Places /\ e.slot \in Slots /\ e.link \in Links /\ e.link \in Linked(places)
        <3>1. places \in Seq(Places)
            BY <2>1 DEF Hosts, Tables
        <3>2. e \in Places
            BY <3>1 DEF Range
        <3> QED
            BY <3>2, PlacesAre DEF Places
    <2>4. m \in Mails /\ m.kind = "absent"
        BY <2>3 DEF Mails
    <2>5. /\ h \in Hosts /\ h.phase = w.host.phase /\ h.roster = roster /\ h.links = places
          /\ h.arriving = w.host.arriving /\ h.listener = w.host.listener
        <3>1. h = [w.host EXCEPT !.absent = absent]
            OBVIOUS
        <3>2. absent \in SlotSets
            BY <2>1, <2>3 DEF Hosts, SlotSets
        <3> HIDE DEF absent, h, SlotSets
        <3> QED
            BY <2>1, <3>1, <3>2 DEF Hosts
    <2>6. /\ closed \in [Links -> Wires]
          /\ \A l \in Links : closed[l] = IF l = e.link THEN CloseNear(w.link[l]) ELSE w.link[l]
        <3>1. CloseNear(w.link[e.link]) \in Wires
            BY <2>1, <2>3, CloseNearIs
        <3> HIDE DEF CloseNear
        <3> QED
            BY <2>1, <2>3, <3>1
    <2> HIDE DEF closed, h, m
    <2>7. /\ ln \in [Links -> Wires]
          /\ \A l \in Links : ln[l] = IF l \in Linked(places) THEN SendDown(closed[l], m) ELSE closed[l]
        <3> HIDE DEF places
        <3> QED
            BY <2>4, <2>6, SpreadIs
    <2> HIDE DEF ln
    <2>8. ASSUME NEW l \in Links
          PROVE  Attended(l, ln[l], joins[l[1]], waiting, places, roster, TRUE)
        <3> DEFINE k == w.link[l]
                   me == joins[l[1]]
                   out == l = e.link
                   c == IF out THEN CloseNear(k) ELSE k
                   s == IF l \in Linked(places) THEN SendDown(c, m) ELSE c
        <3>1. /\ k \in Wires /\ me \in Joiners /\ Attended(l, k, me, waiting, places, roster, TRUE)
              /\ out => l \in Linked(places)
            BY <2>1, <2>2, <2>3, LinksAre
        <3>2. ln[l] = s
            BY <2>6, <2>7
        <3> HIDE DEF k, me, places, roster, out
        <3>3. Attended(l, s, me, waiting, places, roster, TRUE)
            BY <2>4, <3>1, DepartAttended
        <3> HIDE DEF s
        <3> QED
            BY <3>2, <3>3 DEF me
    <2>9. Settled(roster, places, waiting, {})
        BY <2>2 DEF Kept
    <2> HIDE DEF roster, places
    <2>10. Kept(h, ln, joins, waiting, {})
        BY <2>1, <2>5, <2>7, <2>8, <2>9 DEF Kept
    <2>11. v \in Worlds /\ v.host = h /\ v.link = ln
        BY <2>5, <2>7 DEF Worlds
    <2>12. Depart(w, e) = v
        BY <1>2 DEF Depart, h, ln, closed, m, places
    <2> HIDE DEF v
    <2> QED
        BY <2>1, <2>5, <2>10, <2>11, <2>12 DEF Plays, Onward, places
<1> QED
    BY <1>1, <1>2

LEMMA AllDepartKeep ==
    ASSUME NEW w, NEW joins \in [Players -> Joiners], NEW waiting,
           Plays(w, joins, waiting), NEW gone \in Tables, Range(gone) \subseteq Range(w.host.links)
    PROVE  Plays(AllDepart(w, gone), joins, waiting) /\ Onward(w, AllDepart(w, gone))
<1> DEFINE n == Len(gone)
           Good(x) == Plays(x, joins, waiting) /\ Onward(w, x)
           I == [i \in 0 .. n |-> {x \in Worlds : Good(x)}]
           F(f) == f = [i \in 0 .. n |-> IF i = 0 THEN w ELSE Depart(f[i - 1], gone[i])]
           without == CHOOSE f : F(f)
<1>1. n \in Nat /\ \A i \in 1 .. n : gone[i] \in Range(gone) /\ i \in 0 .. n /\ i - 1 \in 0 .. n /\ i # 0
    BY DEF Tables, Range
<1>3. \A i \in 0 .. n : \A x : x \in I[i] <=> Good(x)
    BY DEF Plays
<1>4. w \in I[0]
    BY <1>1, <1>3 DEF Onward
<1>5. ASSUME NEW i \in 1 .. n, NEW x \in I[i - 1]
      PROVE  Depart(x, gone[i]) \in I[i]
    <2> DEFINE e == gone[i]
    <2>1. Plays(x, joins, waiting) /\ Onward(w, x)
        BY <1>1, <1>3
    <2>2. e \in Range(x.host.links)
        BY <1>1, <2>1 DEF Onward
    <2> HIDE DEF e
    <2>3. Plays(Depart(x, e), joins, waiting) /\ Onward(x, Depart(x, e))
        BY <2>1, <2>2, DepartKeeps
    <2>4. Onward(w, Depart(x, e))
        BY <2>1, <2>3 DEF Onward
    <2>5. Good(Depart(x, e))
        BY <2>3, <2>4
    <2> HIDE DEF Good, I
    <2> QED
        BY <1>1, <1>3, <2>5 DEF e
<1>6. \A i \in 0 .. n : I[i] \in SUBSET Worlds
    OBVIOUS
<1>7. I \in [0 .. n -> SUBSET Worlds]
    OBVIOUS
<1> HIDE DEF Good, I
<1>8. PICK G \in [1 .. n -> [Worlds -> Worlds]] :
          \A i \in 1 .. n : \A x \in I[i - 1] : G[i][x] = Depart(x, gone[i])
    <2> DEFINE G == [i \in 1 .. n |-> [x \in Worlds |-> IF x \in I[i - 1] THEN Depart(x, gone[i]) ELSE x]]
    <2> HIDE DEF Worlds, Depart
    <2>1. G \in [1 .. n -> [Worlds -> Worlds]]
        BY <1>1, <1>5, <1>6
    <2>2. \A i \in 1 .. n : \A x \in I[i - 1] : G[i][x] = Depart(x, gone[i])
        BY <1>1, <1>6
    <2> HIDE DEF G
    <2> QED
        BY <2>1, <2>2
<1>9. PICK f : Walks(f, Worlds, w, n, G) /\ Passes(f, I, n)
    <2>1. \A i \in 1 .. n : \A x \in I[i - 1] : G[i][x] \in I[i]
        BY <1>5, <1>8
    <2> HIDE DEF Worlds, F, without, n
    <2> QED
        BY <1>1, <1>4, <1>7, <1>8, <2>1, WalkPasses
<1> HIDE DEF Worlds, Depart
<1>10. \A i \in 1 .. n : f[i] = Depart(f[i - 1], gone[i])
    BY <1>1, <1>8, <1>9 DEF Walks, Passes
<1>11. \A i \in 0 .. n : i = 0 \/ i \in 1 .. n
    BY <1>1
<1>12. F(f)
    BY <1>9, <1>10, <1>11 DEF Walks
<1>13. AllDepart(w, gone) = without[n]
    BY DEF AllDepart
<1> HIDE DEF F
<1>14. F(without)
    BY <1>12
<1>15. without = [i \in 0 .. n |-> IF i = 0 THEN w ELSE Depart(without[i - 1], gone[i])]
    BY <1>14 DEF F
<1> HIDE DEF without
<1>16. without[0] = w /\ \A i \in 1 .. n : without[i] = Depart(without[i - 1], gone[i])
    BY <1>1, <1>15
<1> DEFINE P == {i \in 0 .. n : without[i] \in I[i]}
<1>17. 0 .. n \subseteq P
    <2>1. 0 \in P
        BY <1>1, <1>4, <1>16
    <2>2. ASSUME NEW i \in 0 .. n - 1, i \in P PROVE i + 1 \in P
        <3>1. i + 1 \in 1 .. n /\ i + 1 \in 0 .. n /\ i + 1 - 1 = i
            BY <1>1
        <3>2. without[i + 1] = Depart(without[i], gone[i + 1]) /\ without[i] \in I[i]
            BY <1>16, <2>2, <3>1
        <3> QED
            BY <1>5, <3>1, <3>2
    <2> HIDE DEF P, n
    <2> QED
        BY <1>1, <2>1, <2>2, StepByStep
<1>18. without[n] \in I[n]
    BY <1>1, <1>17
<1>19. Good(without[n])
    BY <1>1, <1>3, <1>18
<1> QED
    BY <1>13, <1>19 DEF Good

LEMMA HostPlaysKeeps ==
    ASSUME Lasts(host, link, joiner), joiner \in [Players -> Joiners], host.phase = "playing",
           NEW n \in Mail(HostLinks), NEW left \in SUBSET Range(host.links)
    PROVE  LET w == AllDepart([host |-> host, link |-> ReadOf(Linked(host.links), n)],
                              Only(host.links, left))
           IN  Lasts(w.host, w.link, joiner)
<1> DEFINE waiting == Range(host.arriving \o host.listener)
           roster == host.roster
           places == host.links
           read == ReadOf(Linked(places), n)
           w == [host |-> host, link |-> read]
           gone == Only(places, left)
           v == AllDepart(w, gone)
           none == {}
<1>1. /\ host \in Hosts /\ link \in [Links -> Wires] /\ Settled(roster, places, waiting, {})
      /\ \A l \in Links : Attended(l, link[l], joiner[l[1]], waiting, places, roster, TRUE)
      /\ places \in Tables /\ PlacesApart(places) /\ waiting \cap Linked(places) = {}
    BY DEF Lasts, Kept, Settled, Hosts
<1>2. ASSUME NEW l \in Links
      PROVE  read[l] \in Wires /\ Attended(l, read[l], joiner[l[1]], waiting, places, roster, TRUE)
    <2> DEFINE k == link[l]
               me == joiner[l[1]]
    <2>1. k \in Wires /\ me \in Joiners /\ Attended(l, k, me, waiting, places, roster, TRUE)
        BY <1>1, LinksAre
    <2>2. CASE l \notin Linked(places)
        BY <2>1, <2>2 DEF ReadOf
    <2>3. CASE l \in Linked(places)
        <3> DEFINE x == ReceiveNear(k, n[l])
        <3>1. n[l] \in {0, Len(k.up)}
            BY <2>3, MailIs DEF HostLinks
        <3>2. x \in Wires /\ x.far = k.far /\ x.down = k.down
              /\ x.near = IF End \in Batch(k.up, n[l]) THEN "closed" ELSE k.near
            <4> HIDE DEF k
            <4> QED
                BY <2>1, <3>1, ReceiveNearIs
        <3>3. read[l] = x
            BY <2>3 DEF ReadOf
        <3> HIDE DEF x, k, me, waiting, places, roster
        <3>4. k.near # "none"
            BY <2>1, <2>3 DEF Attended, Served
        <3>5. x.near = k.near \/ (x.near = "closed" /\ k.near # "none")
            BY <3>2, <3>4
        <3>6. Mine(l, me) => Follows(x, me, Seat(places, l), roster, TRUE)
            BY <2>1, <3>2, <3>5, StillFollows DEF Attended
        <3>7. Attended(l, x, me, waiting, places, roster, TRUE)
            BY <2>1, <3>2, <3>5, <3>6, StillAttended
        <3> HIDE DEF read
        <3> QED
            BY <3>2, <3>3, <3>7 DEF me
    <2> QED
        BY <2>2, <2>3
<1>3. read \in [Links -> Wires]
    <2>1. read = [l \in Links |-> read[l]]
        BY DEF ReadOf
    <2> HIDE DEF read
    <2> QED
        BY <1>2, <2>1
<1> HIDE DEF read, waiting
<1>4. Plays(w, joiner, waiting)
    <2>1. w \in Worlds /\ w.host = host /\ w.link = read
        BY <1>1, <1>3 DEF Worlds
    <2>2. Kept(host, read, joiner, waiting, {})
        BY <1>1, <1>2, <1>3 DEF Kept
    <2> QED
        BY <2>1, <2>2 DEF Plays
<1>5. w.host.links = places /\ w.host.arriving = host.arriving /\ w.host.listener = host.listener
    OBVIOUS
<1> HIDE DEF w
<1>6. gone \in Tables /\ Range(gone) \subseteq Range(w.host.links)
    <2>1. gone \in Tables /\ Range(gone) = Range(places) \cap left
        <3> HIDE DEF places
        <3> QED
            BY <1>1, SomePlaces
    <2> QED
        BY <1>5, <2>1
<1> HIDE DEF gone
<1>7. Plays(v, joiner, waiting) /\ Onward(w, v)
    BY <1>4, <1>6, AllDepartKeep
<1> HIDE DEF v
<1>8. v.host.arriving \o v.host.listener = host.arriving \o host.listener
    BY <1>5, <1>7 DEF Onward
<1>9. Lasts(v.host, v.link, joiner)
    BY <1>7, <1>8 DEF Lasts, Plays, waiting
<1> QED
    BY <1>9 DEF v, w, gone, read

-----------------------------------------------------------------------------
(* The host leaves.                                                         *)

LEMMA HostLeavesKeeps ==
    ASSUME Lasts(host, link, joiner), joiner \in [Players -> Joiners], HostLeaves
    PROVE  Lasts(host', link', joiner)
<1> DEFINE waiting == Range(host.arriving \o host.listener)
           roster == host.roster
           places == host.links
           none == <<>>
           empty == {}
<1>1. /\ host \in Hosts /\ link \in [Links -> Wires] /\ host.arriving \in Lines /\ host.listener \in Lines
      /\ \A l \in Links : Attended(l, link[l], joiner[l[1]], waiting, places, roster, host.phase = "playing")
    BY DEF Lasts, Kept, Hosts
<1>2. waiting = Range(host.arriving) \union Range(host.listener)
    BY <1>1, BothIs DEF Lines
<1>3. /\ host'.phase = "idle" /\ host'.listener = none /\ host'.arriving = none
      /\ host'.links = none /\ host'.roster = none /\ host' \in Hosts
    <2>1. none \in Lines /\ none \in Tables /\ none \in Rosters /\ "idle" \in Phases /\ {} \in SlotSets
        BY DEF Lines, Tables, Rosters, Phases, SlotSets
    <2>2. host' = [phase |-> "idle", listener |-> none, arriving |-> none, links |-> none,
                   roster |-> none, absent |-> {}]
        BY DEF HostLeaves
    <2> HIDE DEF none
    <2> QED
        BY <2>1, <2>2 DEF Hosts
<1>4. Bye \in Mails /\ Bye.kind \in {"refuse", "bye"}
    BY EndIs DEF Bye
<1>5. ASSUME NEW l \in Links
      PROVE  \/ l \in waiting \union Linked(places)
                /\ link'[l] \in {CloseNear(SendDown(link[l], Bye)), CloseNear(link[l])}
             \/ l \notin waiting \union Linked(places) /\ link'[l] = link[l]
    <2> HIDE DEF waiting
    <2> QED
        BY <1>2 DEF HostLeaves
<1> DEFINE after == link'
<1>6. after = [l \in Links |-> after[l]]
    BY DEF HostLeaves
<1>7. ASSUME NEW l \in Links
      PROVE  after[l] \in Wires /\ Attended(l, after[l], joiner[l[1]], {}, none, none, FALSE)
    <2> DEFINE k == link[l]
               me == joiner[l[1]]
               s == after[l]
               playing == host.phase = "playing"
    <2>1. k \in Wires /\ me \in Joiners /\ Attended(l, k, me, waiting, places, roster, playing)
        BY <1>1, LinksAre
    <2>2. \/ l \in waiting \union Linked(places) /\ s \in {CloseNear(SendDown(k, Bye)), CloseNear(k)}
          \/ l \notin waiting \union Linked(places) /\ s = k
        BY <1>5
    <2> HIDE DEF k, me, s, playing, waiting, places, roster, after
    <2>3. s \in Wires /\ s.near # "open" /\ Attended(l, s, me, waiting, places, roster, playing)
        <3>1. CASE l \notin waiting \union Linked(places) /\ s = k
            BY <2>1, <3>1 DEF Attended, Served
        <3>2. CASE l \in waiting \union Linked(places) /\ s = CloseNear(k)
            <4>1. CloseNear(k) \in Wires /\ Attended(l, CloseNear(k), me, waiting, places, roster, playing)
                BY <2>1, <3>2, ClosedAttended
            <4>2. CloseNear(k).near = "closed"
                BY <2>1, CloseNearIs
            <4> QED
                BY <3>2, <4>1, <4>2
        <3>3. CASE l \in waiting \union Linked(places) /\ s = CloseNear(SendDown(k, Bye))
            <4> DEFINE x == CloseNear(SendDown(k, Bye))
            <4>1. x \in Wires /\ x.near = "closed" /\ Attended(l, x, me, waiting, places, roster, playing)
                BY <1>4, <2>1, <3>3, RefusedAttended
            <4> HIDE DEF x
            <4> QED
                BY <3>3, <4>1 DEF x
        <3> QED
            BY <2>2, <3>1, <3>2, <3>3
    <2>4. Linked(none) = {}
        BY DEF Linked
    <2> HIDE DEF none, empty
    <2>5. l \in empty \union Linked(none) => l \in waiting \union Linked(places)
        BY <2>4 DEF empty
    <2> DEFINE later == FALSE
    <2> HIDE DEF later
    <2>6. Attended(l, s, me, empty, none, none, later)
        BY <2>3, <2>5, ShutAttended
    <2> QED
        BY <2>3, <2>6 DEF s, me, empty, later
<1>8. after \in [Links -> Wires]
    <2> HIDE DEF after
    <2> QED
        BY <1>6, <1>7
<1>9. Settled(none, none, {}, {})
    <2>1. Range(none) = {} /\ DOMAIN none = {}
        BY DEF Range
    <2> HIDE DEF none
    <2> QED
        BY <2>1 DEF Settled, SlotsApart, PlacesApart, Peopled
<1> HIDE DEF after
<1>10. Range(none \o none) = {} /\ Apart(none \o none)
    BY DEF Range, Apart
<1> DEFINE g == host'
<1> HIDE DEF none
<1>11. Kept(g, after, joiner, {}, {})
    BY <1>3, <1>7, <1>8, <1>9 DEF Kept
<1>12. Lasts(g, after, joiner)
    BY <1>3, <1>10, <1>11 DEF Lasts
<1> QED
    BY <1>12 DEF after

-----------------------------------------------------------------------------
(* A bot comes, the match starts.                                           *)

LEMMA HereIs ==
    ASSUME Lasts(host, link, joiner), host.phase = "hosting"
    PROVE  LET w == [host |-> host, link |-> link]
           IN  KeptBy(w, joiner, Range(host.arriving) \union Range(host.listener), {})
<1> DEFINE w == [host |-> host, link |-> link]
           waiting == Range(host.arriving \o host.listener)
<1>1. /\ Kept(host, link, joiner, waiting, {}) /\ host \in Hosts /\ link \in [Links -> Wires]
      /\ host.arriving \in Lines /\ host.listener \in Lines
    BY DEF Lasts, Kept, Hosts
<1>2. waiting = Range(host.arriving) \union Range(host.listener)
    BY <1>1, BothIs DEF Lines
<1> HIDE DEF waiting
<1>3. w \in Worlds /\ w.host = host /\ w.link = link
    BY <1>1 DEF Worlds
<1> HIDE DEF w
<1>4. KeptBy(w, joiner, waiting, {})
    BY <1>1, <1>3 DEF KeptBy
<1> QED
    BY <1>2, <1>4 DEF w

LEMMA StartLasts ==
    ASSUME Lasts(host, link, joiner), joiner \in [Players -> Joiners], Start
    PROVE  Lasts(host', link', joiner)
<1> DEFINE w == [host |-> host, link |-> link]
<1>1. host.phase = "hosting" /\ host' = StartMatch(w).host /\ link' = StartMatch(w).link
    BY DEF Start, Became
<1>2. w.host = host
    OBVIOUS
<1>3. KeptBy(w, joiner, Range(w.host.arriving) \union Range(w.host.listener), {})
    <2>1. KeptBy(w, joiner, Range(host.arriving) \union Range(host.listener), {})
        BY <1>1, HereIs
    <2> HIDE DEF w
    <2> QED
        BY <1>2, <2>1
<1> HIDE DEF w
<1>4. Ready(StartMatch(w), joiner)
    BY <1>3, StartKeeps
<1>5. Lasts(StartMatch(w).host, StartMatch(w).link, joiner)
    BY <1>4, KeptLasts
<1> QED
    BY <1>1, <1>5

LEMMA AddBotLasts ==
    ASSUME Lasts(host, link, joiner), joiner \in [Players -> Joiners], AddBot
    PROVE  Lasts(host', link', joiner)
<1> DEFINE w == [host |-> host, link |-> link]
           waiting == Range(host.arriving) \union Range(host.listener)
           old == host.roster
           places == host.links
           slot == FreeSlot(old)
           m == [slot |-> slot, name |-> Bot]
           roster == Append(old, m)
           x == [host |-> [host EXCEPT !.roster = roster], link |-> link]
           y == [w EXCEPT !.host.roster = roster]
           v == broadcast_roster(y)
           none == {}
<1>1. host.phase = "hosting" /\ slot # NoSlot /\ Became(broadcast_roster(x))
    BY DEF AddBot
<1>2. KeptBy(w, joiner, waiting, none)
    BY <1>1, HereIs
<1>3. x = y
    <2> HIDE DEF roster
    <2>1. y = [w EXCEPT !.host = [host EXCEPT !.roster = roster]]
        OBVIOUS
    <2> DEFINE h == [host EXCEPT !.roster = roster]
    <2> HIDE DEF h
    <2>2. [w EXCEPT !.host = h] = [host |-> h, link |-> link]
        OBVIOUS
    <2> QED
        BY <2>1, <2>2 DEF h
<1>4. /\ host \in Hosts /\ old \in Rosters /\ Settled(old, places, waiting, none) /\ w.host = host
      /\ host.arriving \in Lines /\ host.listener \in Lines
    <2>1. w.host = host
        OBVIOUS
    <2> HIDE DEF w, waiting
    <2>2. Kept(host, w.link, joiner, waiting, none)
        BY <1>2, <2>1 DEF KeptBy
    <2> QED
        BY <2>1, <2>2 DEF Kept, Hosts
<1>5. m \in Members /\ m.name = Bot /\ m.slot = slot /\ \A o \in Range(old) : o.slot # m.slot
    <2>1. slot \in Slots /\ \A o \in Range(old) : o.slot # slot
        <3> HIDE DEF old
        <3> QED
            BY <1>1, <1>4, FreeSlotIs
    <2> HIDE DEF slot, old
    <2> QED
        BY <2>1 DEF Members, Names
<1> HIDE DEF m
<1>6. /\ roster \in Rosters /\ SlotsApart(roster) /\ Range(roster) = Range(old) \union {m}
      /\ ~Replaced(old, roster)
    <2>1. SlotsApart(old)
        BY <1>4 DEF Settled
    <2> HIDE DEF old
    <2> QED
        BY <1>4, <1>5, <2>1, OneMoreMember
<1> HIDE DEF roster
<1>7. Peopled(roster, places, none)
    <2>1. Bot \notin Players
        BY NamesApart
    <2>2. Peopled(old, places, none)
        BY <1>4 DEF Settled
    <2> HIDE DEF old, places
    <2> QED
        BY <1>5, <1>6, <2>1, <2>2 DEF Peopled
<1>8. Settled(roster, places, waiting, none)
    BY <1>4, <1>6, <1>7 DEF Settled
<1>9. waiting \in SUBSET Links
    <2>1. host.arriving \in Seq(Links) /\ host.listener \in Seq(Links)
        BY <1>4 DEF Lines
    <2> QED
        BY <2>1 DEF Range
<1> HIDE DEF w, waiting
<1>10. KeptBy(v, joiner, waiting, none) /\ Along(w, v)
    <2>1. ~Replaced(w.host.roster, roster) /\ Settled(roster, w.host.links, waiting, none)
        BY <1>4, <1>6, <1>8
    <2> HIDE DEF none
    <2> QED
        BY <1>2, <1>6, <1>9, <2>1, NewsKeeps
<1> HIDE DEF v, x, y
<1>11. host' = v.host /\ link' = v.link
    BY <1>1, <1>3 DEF Became, v
<1>12. v.host.arriving = host.arriving /\ v.host.listener = host.listener
    BY <1>4, <1>10 DEF Along
<1>13. Range(host.arriving \o host.listener) = waiting
    BY <1>4, BothIs DEF Lines, waiting
<1>14. Lasts(v.host, v.link, joiner)
    <2>1. Apart(host.arriving \o host.listener)
        BY DEF Lasts
    <2>2. Kept(v.host, v.link, joiner, waiting, none)
        BY <1>10 DEF KeptBy
    <2> QED
        BY <1>12, <1>13, <2>1, <2>2 DEF Lasts
<1> QED
    BY <1>11, <1>14

(* What the host does.                                                      *)
HostActs ==
    \/ \E n \in Mail(HostLinks), late \in AtMostOne(Range(host.arriving)) : PollHost(n, late)
    \/ Start \/ AddBot \/ HostBegins \/ HostLeaves
    \/ \E n \in Mail(HostLinks), quiet \in AtMostOne(HostLinks) : HostPlays(n, quiet)

LEMMA HostActsLast ==
    ASSUME Sound, HostActs
    PROVE  Lasts(host', link', joiner) /\ joiner' = joiner /\ breaks' = breaks /\ silent' = silent
<1>1. Lasts(host, link, joiner) /\ joiner \in [Players -> Joiners]
    BY DEF Sound
<1>2. ASSUME NEW n \in Mail(HostLinks), NEW late, PollHost(n, late)
      PROVE  Lasts(host', link', joiner) /\ UNCHANGED <<joiner, breaks, silent>>
    <2>1. /\ host.phase = "hosting" /\ host' = Polled(n, late).host /\ link' = Polled(n, late).link
          /\ UNCHANGED <<joiner, breaks, silent>>
        BY <1>2 DEF PollHost, Became
    <2>2. Lasts(Polled(n, late).host, Polled(n, late).link, joiner)
        BY <1>1, <2>1, PolledKeeps
    <2> QED
        BY <2>1, <2>2
<1>3. CASE Start
    BY <1>1, <1>3, StartLasts DEF Start
<1>4. CASE AddBot
    BY <1>1, <1>4, AddBotLasts DEF AddBot
<1>5. CASE HostBegins
    <2>1. /\ host.phase = "starting" /\ host' = [host EXCEPT !.phase = "playing"]
          /\ link' = ToEach(link, Linked(host.links), [kind |-> "start", roster |-> host.roster])
          /\ UNCHANGED <<joiner, breaks, silent>>
        BY <1>5 DEF HostBegins
    <2>2. Lasts([host EXCEPT !.phase = "playing"],
                ToEach(link, Linked(host.links), [kind |-> "start", roster |-> host.roster]), joiner)
        BY <1>1, <2>1, BeginKeeps
    <2> QED
        BY <2>1, <2>2
<1>6. CASE HostLeaves
    BY <1>1, <1>6, HostLeavesKeeps DEF HostLeaves
<1>7. ASSUME NEW n \in Mail(HostLinks), NEW quiet, HostPlays(n, quiet)
      PROVE  Lasts(host', link', joiner) /\ UNCHANGED <<joiner, breaks, silent>>
    <2> DEFINE left == {e \in Range(host.links) : e.link \in quiet \/ Departed(link[e.link], n[e.link])}
               w == AllDepart([host |-> host, link |-> ReadOf(Linked(host.links), n)],
                              Only(host.links, left))
    <2>1. /\ host.phase = "playing" /\ host' = w.host /\ link' = w.link
          /\ UNCHANGED <<joiner, breaks, silent>>
        BY <1>7 DEF HostPlays, Became
    <2>2. left \in SUBSET Range(host.links)
        OBVIOUS
    <2> HIDE DEF left
    <2>3. Lasts(w.host, w.link, joiner)
        BY <1>1, <2>1, <2>2, HostPlaysKeeps
    <2> QED
        BY <2>1, <2>3
<1> QED
    BY <1>2, <1>3, <1>4, <1>5, <1>6, <1>7 DEF HostActs

-----------------------------------------------------------------------------
(* What a joiner does, to its own link.                                     *)

LEMMA LinkIs ==
    ASSUME NEW p \in Players, NEW t \in 1 .. MaxJoins
    PROVE  /\ <<p, t>> \in Links /\ <<p, t>>[1] = p /\ <<p, t>>[2] = t
           /\ \A l \in Links : l[1] = p /\ l[2] = t => l = <<p, t>>
BY DEF Links

(* Wherever the link stood, it stands there as s, its joiner as you.        *)
Carries(l, k, me, s, you) ==
    \A waiting, links, roster, playing :
        Attended(l, k, me, waiting, links, roster, playing)
            => Attended(l, s, you, waiting, links, roster, playing)

(* The same try, or the next.                                               *)
Again(me, you) == you.tries = me.tries \/ (me.phase = "idle" /\ you.tries = me.tries + 1)

(* A joiner and its link change, the rest is as it was.                     *)
LEMMA JoinerLasts ==
    ASSUME NEW h, NEW ln, NEW joins \in [Players -> Joiners], Lasts(h, ln, joins),
           NEW p \in Players, NEW me \in Joiners, NEW l \in Links, l = <<p, me.tries>>,
           NEW s \in Wires, Carries(l, ln[l], joins[p], s, me), Again(joins[p], me)
    PROVE  Lasts(h, [ln EXCEPT ![l] = s], [joins EXCEPT ![p] = me])
<1> DEFINE waiting == Range(h.arriving \o h.listener)
           playing == h.phase = "playing"
           now == [ln EXCEPT ![l] = s]
           after == [joins EXCEPT ![p] = me]
           none == {}
<1>1. /\ Kept(h, ln, joins, waiting, none) /\ Apart(h.arriving \o h.listener)
      /\ h \in Hosts /\ ln \in [Links -> Wires] /\ Settled(h.roster, h.links, waiting, none)
      /\ \A o \in Links : Attended(o, ln[o], joins[o[1]], waiting, h.links, h.roster, playing)
    BY DEF Lasts, Kept
<1>2. l[1] = p /\ l[2] = me.tries /\ me.tries \in Nat /\ joins[p].tries \in Nat
    BY DEF Joiners
<1>3. /\ now \in [Links -> Wires] /\ now[l] = s /\ \A o \in Links : o # l => now[o] = ln[o]
      /\ after \in [Players -> Joiners] /\ after[p] = me /\ \A q \in Players : q # p => after[q] = joins[q]
    BY <1>1
<1> HIDE DEF now, after, waiting, playing, none
<1>4. ASSUME NEW o \in Links
      PROVE  Attended(o, now[o], after[o[1]], waiting, h.links, h.roster, playing)
    <2>1. CASE o = l
        BY <1>1, <1>2, <1>3, <2>1 DEF Carries
    <2>2. CASE o[1] # p
        BY <1>1, <1>2, <1>3, <2>2, LinksAre
    <2>3. CASE o # l /\ o[1] = p
        <3> DEFINE k == ln[o]
        <3>1. Attended(o, k, joins[p], waiting, h.links, h.roster, playing)
            BY <1>1, <2>3
        <3>2. o[2] # me.tries /\ o[2] \in Nat
            BY <2>3, LinksAre, LinkIs DEF Links
        <3>3. ~Mine(o, me)
            BY <3>2 DEF Mine
        <3>4. o[2] > me.tries <=> o[2] > joins[p].tries
            BY <1>2, <3>2 DEF Again
        <3> HIDE DEF k
        <3>5. Attended(o, k, me, waiting, h.links, h.roster, playing)
            BY <3>1, <3>3, <3>4 DEF Attended, Dialing
        <3> QED
            BY <1>3, <2>3, <3>5 DEF k
    <2> QED
        BY <2>1, <2>2, <2>3
<1>5. Kept(h, now, after, waiting, none)
    BY <1>1, <1>3, <1>4 DEF Kept, playing
<1>6. Lasts(h, now, after)
    BY <1>1, <1>5 DEF Lasts, waiting, none
<1> QED
    BY <1>6 DEF now, after

(* A joiner that goes closes its end.                                       *)
LEMMA GoneAttended ==
    ASSUME NEW l, NEW k \in Wires, NEW me \in Joiners, NEW waiting, NEW links, NEW roster,
           NEW playing, Attended(l, k, me, waiting, links, roster, playing), Mine(l, me),
           NEW s, s.near = k.near, s.far = "closed"
    PROVE  Attended(l, s, Idle(me.tries), waiting, links, roster, playing)
<1> DEFINE idle == Idle(me.tries)
<1>1. me.tries \in Nat
    BY DEF Joiners
<1>2. idle.tries = me.tries /\ idle.phase = "idle"
    BY <1>1, IdleIs
<1> HIDE DEF idle
<1>3. ~Mine(l, idle)
    BY <1>2 DEF Mine
<1>4. k.far # "none"
    BY <1>1, LinksAre DEF Attended, Dialing, Mine
<1>5. Attended(l, s, idle, waiting, links, roster, playing)
    BY <1>2, <1>3, <1>4 DEF Attended, Dialing, Served
<1> QED
    BY <1>5 DEF idle

LEMMA MyLink ==
    ASSUME joiner \in [Players -> Joiners], NEW p \in Players, Trying(joiner[p]),
           joiner[p].phase # "idle"
    PROVE  /\ LinkOf(p) \in Links /\ LinkOf(p) = <<p, joiner[p].tries>>
           /\ Mine(LinkOf(p), joiner[p])
<1>1. joiner[p].tries \in 1 .. MaxJoins
    BY LobbyConstants DEF Trying, Joiners
<1> QED
    BY <1>1, LinkIs DEF LinkOf, Mine

LEMMA JoinerLeavesLasts ==
    ASSUME Lasts(host, link, joiner), joiner \in [Players -> Joiners], NEW p \in Players,
           Trying(joiner[p]), JoinerLeaves(p)
    PROVE  /\ Lasts(host', link', joiner') /\ joiner' \in [Players -> Joiners]
           /\ \A q \in Players : Trying(joiner[q]) => Trying(joiner'[q])
<1> DEFINE l == LinkOf(p)
           k == link[l]
           me == joiner[p]
           s == CloseFar(SendUp(k, Bye))
           idle == Idle(me.tries)
<1>1. /\ me.phase # "idle" /\ joiner' = [joiner EXCEPT ![p] = idle]
      /\ link' = [link EXCEPT ![l] = s] /\ host' = host
    BY DEF JoinerLeaves
<1>2. l \in Links /\ l = <<p, me.tries>> /\ Mine(l, me)
    BY <1>1, MyLink
<1>3. k \in Wires /\ me \in Joiners /\ me.tries \in Nat
    BY <1>2 DEF Lasts, Kept, Joiners
<1>4. idle \in Joiners /\ idle.tries = me.tries
    <2> HIDE DEF me
    <2> QED
        BY <1>3, IdleIs
<1>5. s \in Wires /\ s.far = "closed" /\ s.near = k.near
    <2> DEFINE x == SendUp(k, Bye)
    <2> HIDE DEF k
    <2>1. x \in Wires /\ x.near = k.near
        BY <1>3, EndIs, SendUpIs
    <2> HIDE DEF x
    <2>2. CloseFar(x) \in Wires /\ CloseFar(x).far = "closed" /\ CloseFar(x).near = x.near
        BY <2>1, CloseFarIs
    <2> QED
        BY <2>1, <2>2 DEF x
<1> HIDE DEF s, idle, l
<1>6. ASSUME NEW waiting, NEW links, NEW roster, NEW playing,
             Attended(l, link[l], joiner[p], waiting, links, roster, playing)
      PROVE  Attended(l, s, idle, waiting, links, roster, playing)
    <2> HIDE DEF k, me
    <2>1. Attended(l, k, me, waiting, links, roster, playing)
        BY <1>6 DEF k, me
    <2> QED
        BY <1>2, <1>3, <1>5, <2>1, GoneAttended DEF idle
<1>7. Lasts(host, [link EXCEPT ![l] = s], [joiner EXCEPT ![p] = idle])
    <2>1. idle.tries = joiner[p].tries /\ l = <<p, idle.tries>>
        BY <1>2, <1>4
    <2>2. Carries(l, link[l], joiner[p], s, idle)
        BY <1>6 DEF Carries
    <2>3. /\ idle \in Joiners /\ l \in Links /\ l = <<p, idle.tries>> /\ s \in Wires
          /\ Again(joiner[p], idle)
        BY <1>2, <1>4, <1>5, <2>1 DEF Again
    <2> QED
        BY <2>2, <2>3, JoinerLasts
<1>8. \A q \in Players : Trying(joiner[q]) => Trying(joiner'[q])
    <2>1. idle.phase = "idle"
        BY DEF idle, Idle
    <2> HIDE DEF me
    <2> QED
        BY <1>1, <1>4, <2>1 DEF Trying, me
<1> QED
    BY <1>1, <1>4, <1>7, <1>8

(* A match begun or played tells a joiner nothing of the roster.            *)
LEMMA OnAttended ==
    ASSUME NEW l, NEW k \in Wires, NEW me \in Joiners, NEW waiting, NEW links, NEW roster,
           NEW playing, Attended(l, k, me, waiting, links, roster, playing), Mine(l, me),
           me.phase \in {"starting", "playing"},
           NEW you \in Joiners, you.phase \in {"starting", "playing"}, you.tries = me.tries,
           you.welcomed = me.welcomed, you.local = me.local, you.roster = me.roster,
           NEW s \in Wires, s.near = k.near, s.far = k.far \/ s.far = "closed",
           s.far = "open" /\ ~Ended(s.down) => ~Ended(k.down)
    PROVE  Attended(l, s, you, waiting, links, roster, playing)
<1>1. Mine(l, you)
    BY DEF Mine
<1>2. AllTold(me, k.down) = Fresh(me) /\ AllTold(you, s.down) = Fresh(you)
    BY AllToldIs DEF Wires
<1>3. /\ Fresh(me).me = me /\ Fresh(me).over /\ Fresh(me).silent = FALSE
      /\ Fresh(you).me = you /\ Fresh(you).over /\ Fresh(you).silent = FALSE
    BY FreshIs
<1>4. k.far \notin {"none", "dialing"} /\ s.far \notin {"none", "dialing"}
    <2>1. k.far \notin {"none", "dialing"}
        BY DEF Attended, Dialing
    <2> QED
        BY <2>1
<1>5. Follows(k, me, Seat(links, l), roster, playing)
    BY DEF Attended
<1> HIDE DEF Fresh
<1>6. Follows(s, you, Seat(links, l), roster, playing)
    <2> DEFINE seat == Seat(links, l)
    <2>1. k.near = "open" => (me.welcomed => seat = {me.local})
        BY <1>5 DEF Follows
    <2>2. k.near = "open" /\ k.far = "open" /\ ~Ended(k.down) =>
             seat # {} /\ me.welcomed /\ me.roster = roster /\ playing
        BY <1>2, <1>3, <1>5 DEF Follows
    <2>3. s.far = "open" => k.far = "open"
        OBVIOUS
    <2> HIDE DEF seat
    <2> QED
        BY <1>2, <1>3, <2>1, <2>2, <2>3 DEF Follows, seat
<1> QED
    BY <1>1, <1>4, <1>6 DEF Attended, Dialing, Served

LEMMA JoinerActsLast ==
    ASSUME Lasts(host, link, joiner), joiner \in [Players -> Joiners], NEW p \in Players,
           Trying(joiner[p]), joiner[p].phase # "idle",
           NEW you \in Joiners, you.tries = joiner[p].tries, NEW s \in Wires,
           Carries(LinkOf(p), link[LinkOf(p)], joiner[p], s, you)
    PROVE  Lasts(host, [link EXCEPT ![LinkOf(p)] = s], [joiner EXCEPT ![p] = you])
<1> DEFINE l == LinkOf(p)
<1>1. l \in Links /\ l = <<p, joiner[p].tries>>
    BY MyLink
<1> HIDE DEF l
<1>2. Again(joiner[p], you) /\ l = <<p, you.tries>>
    BY <1>1 DEF Again
<1>3. Carries(l, link[l], joiner[p], s, you)
    BY DEF l
<1>4. Lasts(host, [link EXCEPT ![l] = s], [joiner EXCEPT ![p] = you])
    BY <1>1, <1>2, <1>3, JoinerLasts
<1> QED
    BY <1>4 DEF l

LEMMA JoinerBeginsLasts ==
    ASSUME Lasts(host, link, joiner), joiner \in [Players -> Joiners], NEW p \in Players,
           Trying(joiner[p]), JoinerBegins(p)
    PROVE  /\ Lasts(host', link', joiner') /\ joiner' \in [Players -> Joiners]
           /\ \A q \in Players : Trying(joiner[q]) => Trying(joiner'[q])
<1> DEFINE l == LinkOf(p)
           k == link[l]
           me == joiner[p]
           you == [me EXCEPT !.phase = "playing"]
<1>1. me.phase = "starting" /\ joiner' = [joiner EXCEPT ![p] = you] /\ UNCHANGED <<host, link>>
    BY DEF JoinerBegins
<1>2. l \in Links /\ Mine(l, me) /\ me.phase # "idle"
    BY <1>1, MyLink
<1>3. k \in Wires /\ me \in Joiners /\ link \in [Links -> Wires]
    BY <1>2 DEF Lasts, Kept
<1>4. /\ you \in Joiners /\ you.phase = "playing" /\ you.tries = me.tries
      /\ you.welcomed = me.welcomed /\ you.local = me.local /\ you.roster = me.roster
    <2>1. "playing" \in Stages
        BY DEF Stages
    <2> HIDE DEF me, Stages
    <2> QED
        BY <1>3, <2>1 DEF Joiners
<1> HIDE DEF l, you
<1>5. Carries(l, k, me, k, you)
    <2> SUFFICES ASSUME NEW waiting, NEW links, NEW roster, NEW playing,
                        Attended(l, k, me, waiting, links, roster, playing)
                 PROVE  Attended(l, k, you, waiting, links, roster, playing)
        BY DEF Carries
    <2> HIDE DEF k, me
    <2> QED
        BY <1>1, <1>2, <1>3, <1>4, OnAttended
<1>6. [link EXCEPT ![l] = k] = link
    BY <1>2, <1>3
<1>7. Lasts(host, [link EXCEPT ![l] = k], [joiner EXCEPT ![p] = you])
    <2>1. Carries(LinkOf(p), link[LinkOf(p)], joiner[p], k, you)
        BY <1>5 DEF l
    <2>2. you \in Joiners /\ you.tries = joiner[p].tries /\ joiner[p].phase # "idle"
        BY <1>2, <1>4
    <2> HIDE DEF k
    <2> QED
        BY <1>3, <2>1, <2>2, JoinerActsLast DEF l
<1>8. \A q \in Players : Trying(joiner[q]) => Trying(joiner'[q])
    BY <1>1, <1>2, <1>4 DEF Trying
<1> QED
    BY <1>1, <1>4, <1>6, <1>7, <1>8

(* The end is read last.                                                    *)
LEMMA EndedIsRead ==
    ASSUME NEW queue \in Queues, NEW n \in {0, Len(queue)}, End \notin Batch(queue, n),
           ~Ended(Rest(queue, n))
    PROVE  ~Ended(queue)
<1>1. CASE n = 0
    BY <1>1, RestIs
<1>2. CASE n = Len(queue)
    <2>1. ASSUME queue # <<>>
          PROVE  Last(queue) \in Batch(queue, n)
        <3>1. Len(queue) \in Nat /\ Len(queue) # 0
            BY <2>1, EmptySeq DEF Queues
        <3>2. Len(queue) \in 1 .. Len(queue)
            BY <3>1
        <3> QED
            BY <1>2, <3>2 DEF Batch, Last
    <2> QED
        BY <2>1 DEF Ended
<1> QED
    BY <1>1, <1>2

LEMMA JoinerPlaysLasts ==
    ASSUME Lasts(host, link, joiner), joiner \in [Players -> Joiners], NEW p \in Players,
           Trying(joiner[p]), NEW n \in {0, Len(link[LinkOf(p)].down)}, NEW quiet,
           JoinerPlays(p, n, quiet)
    PROVE  /\ Lasts(host', link', joiner') /\ joiner' \in [Players -> Joiners]
           /\ \A q \in Players : Trying(joiner[q]) => Trying(joiner'[q])
<1> DEFINE l == LinkOf(p)
           k == link[l]
           me == joiner[p]
           batch == Batch(k.down, n)
           read == ReceiveFar(k, n)
           over == quiet \/ Bye \in batch \/ read.far = "closed"
           absent == me.absent \union {m.slot : m \in {x \in batch : x.kind = "absent"}}
           on == [me EXCEPT !.absent = absent]
           you == IF over THEN Idle(me.tries) ELSE on
           s == IF over THEN CloseFar(read) ELSE read
<1>1. /\ me.phase = "playing" /\ joiner' = [joiner EXCEPT ![p] = you]
      /\ link' = [link EXCEPT ![l] = s] /\ host' = host
    BY DEF JoinerPlays
<1>2. l \in Links /\ Mine(l, me) /\ me.phase # "idle"
    BY <1>1, MyLink
<1>3. k \in Wires /\ me \in Joiners /\ k.down \in Queues /\ me.tries \in Nat
    BY <1>2 DEF Lasts, Kept, Wires, Joiners
<1>4. /\ read \in Wires /\ read.near = k.near /\ read.down = Rest(k.down, n)
      /\ read.far = IF End \in Batch(k.down, n) THEN "closed" ELSE k.far
    <2> HIDE DEF k
    <2>1. n \in {0, Len(k.down)}
        BY DEF k, l
    <2> QED
        BY <1>3, <2>1, ReceiveFarIs
<1>5. CASE over
    <2> DEFINE idle == Idle(me.tries)
               shut == CloseFar(read)
    <2>1. you = idle /\ s = shut
        BY <1>5
    <2> HIDE DEF read, you, s, over
    <2>2. idle \in Joiners /\ idle.tries = me.tries /\ idle.phase = "idle"
        <3> HIDE DEF me
        <3> QED
            BY <1>3, IdleIs
    <2>3. shut \in Wires /\ shut.far = "closed" /\ shut.near = k.near
        BY <1>4, CloseFarIs
    <2> HIDE DEF idle, shut, k, me, l
    <2>4. Carries(l, k, me, shut, idle)
        BY <1>2, <1>3, <2>3, GoneAttended DEF Carries, idle
    <2>5. /\ Carries(LinkOf(p), link[LinkOf(p)], joiner[p], shut, idle)
          /\ idle.tries = joiner[p].tries /\ joiner[p].phase # "idle"
        BY <1>2, <2>2, <2>4 DEF l, k, me
    <2>6. Lasts(host, [link EXCEPT ![LinkOf(p)] = shut], [joiner EXCEPT ![p] = idle])
        BY <2>2, <2>3, <2>5, JoinerActsLast
    <2>7. \A q \in Players : Trying(joiner[q]) => Trying(joiner'[q])
        BY <1>1, <2>1, <2>2, <2>5 DEF Trying
    <2> QED
        BY <1>1, <2>1, <2>2, <2>6, <2>7 DEF l
<1>6. CASE ~over
    <2>1. you = on /\ s = read
        BY <1>6
    <2>2. /\ on \in Joiners /\ on.phase = "playing" /\ on.tries = me.tries
          /\ on.welcomed = me.welcomed /\ on.local = me.local /\ on.roster = me.roster
        <3>1. \A m \in batch : m \in Mails
            <4>1. \A i \in 1 .. n : i \in 1 .. Len(k.down)
                BY <1>3 DEF l, k, Queues
            <4>2. \A i \in 1 .. Len(k.down) : k.down[i] \in Mails
                BY <1>3 DEF Queues
            <4> QED
                BY <4>1, <4>2 DEF Batch
        <3>2. \A m \in Mails : m.kind = "absent" => m.slot \in Slots
            BY DEF Mails
        <3>3. me.absent \in SUBSET Slots
            BY <1>3 DEF Joiners, SlotSets
        <3> HIDE DEF batch
        <3>4. absent \in SlotSets
            <4> HIDE DEF me, Mails
            <4> QED
                BY <3>1, <3>2, <3>3 DEF SlotSets
        <3> HIDE DEF absent, me
        <3> QED
            BY <1>1, <1>3, <3>4 DEF Joiners, me
    <2>3. read.far = "open" /\ ~Ended(read.down) => ~Ended(k.down)
        <3> SUFFICES ASSUME read.far = "open", ~Ended(read.down) PROVE ~Ended(k.down)
            OBVIOUS
        <3> DEFINE queue == k.down
        <3>1. End \notin Batch(queue, n) /\ ~Ended(Rest(queue, n)) /\ n \in {0, Len(queue)} /\ queue \in Queues
            BY <1>3, <1>4 DEF l, k
        <3> HIDE DEF queue
        <3>2. ~Ended(queue)
            BY <3>1, EndedIsRead
        <3> QED
            BY <3>2 DEF queue
    <2>4. read.near = k.near /\ (read.far = k.far \/ read.far = "closed") /\ read \in Wires
        BY <1>4
    <2> HIDE DEF read, on, you, s, over, l
    <2>5. Carries(l, k, me, read, on)
        <3> SUFFICES ASSUME NEW waiting, NEW links, NEW roster, NEW playing,
                            Attended(l, k, me, waiting, links, roster, playing)
                     PROVE  Attended(l, read, on, waiting, links, roster, playing)
            BY DEF Carries
        <3>1. me.phase \in {"starting", "playing"} /\ on.phase \in {"starting", "playing"}
            BY <1>1, <2>2
        <3> HIDE DEF k, me
        <3> QED
            BY <1>2, <1>3, <2>2, <2>3, <2>4, <3>1, OnAttended
    <2>6. /\ Carries(LinkOf(p), link[LinkOf(p)], joiner[p], read, on)
          /\ on.tries = joiner[p].tries /\ joiner[p].phase # "idle"
        BY <1>2, <2>2, <2>5 DEF l
    <2>7. Lasts(host, [link EXCEPT ![LinkOf(p)] = read], [joiner EXCEPT ![p] = on])
        BY <2>2, <2>4, <2>6, JoinerActsLast
    <2>8. \A q \in Players : Trying(joiner[q]) => Trying(joiner'[q])
        BY <1>1, <2>1, <2>2, <2>6 DEF Trying
    <2> QED
        BY <1>1, <2>1, <2>2, <2>7, <2>8 DEF l
<1> QED
    BY <1>5, <1>6

-----------------------------------------------------------------------------
(* A joiner reads on: what is left for it to read tells it the same.        *)

LEMMA ReadsOn ==
    ASSUME NEW me \in Joiners, NEW said \in Joiners, Alike(Fresh(me), Fresh(said)),
           NEW queue \in Queues, NEW n \in {0, Len(queue)}, ~AllTold(me, queue).silent
    PROVE  LET w == Told(Fresh(said), queue, n)
           IN  /\ Reading(w) /\ w.me.tries = said.tries /\ w.silent = FALSE
               /\ n = 0 => w.me = said
               /\ n = Len(queue) => Alike(AllTold(me, queue), w)
               /\ Alike(AllTold(me, queue), AllTold(w.me, Rest(queue, n)))
<1> DEFINE all == AllTold(me, queue)
           w == Told(Fresh(said), queue, n)
           rest == Rest(queue, n)
           next == AllTold(w.me, rest)
<1>1. /\ Reading(Fresh(me)) /\ Reading(Fresh(said)) /\ Fresh(said).me = said
      /\ Fresh(said).silent = FALSE
    BY FreshIs
<1>2. queue \in Seq(Mails) /\ n \in 0 .. Len(queue) /\ Len(queue) \in 0 .. Len(queue)
    BY DEF Queues
<1>3. w \in Beyond(Fresh(said))
    <2> DEFINE x == Fresh(said)
    <2> HIDE DEF x
    <2> QED
        BY <1>1, <1>2, ToldIs DEF x
<1>4. Reading(w) /\ w.me.tries = said.tries /\ w \in Hearings /\ w.me \in Joiners /\ w.silent \in BOOLEAN
    BY <1>1, <1>3 DEF Beyond, Reading, Hearings, Flags
<1>5. Alike(all, AllTold(said, queue))
    <2> DEFINE x == Fresh(me)
               y == Fresh(said)
               m == Len(queue)
    <2> HIDE DEF x, y, m
    <2>1. Alike(Told(x, queue, m), Told(y, queue, m))
        BY <1>1, <1>2, ToldAlike DEF x, y, m
    <2> QED
        BY <2>1 DEF AllTold, x, y, m
<1>6. CASE n = 0
    <2>1. w = Fresh(said)
        <3> DEFINE x == Fresh(said)
        <3> HIDE DEF x
        <3>1. Told(x, queue, 0) = x
            BY <1>1, <1>2, ToldNothing DEF x
        <3> QED
            BY <1>6, <3>1 DEF x
    <2>2. rest = queue
        BY <1>6, RestIs
    <2> HIDE DEF w, rest
    <2>3. w.me = said /\ w.silent = FALSE /\ next = AllTold(said, queue)
        BY <1>1, <2>1, <2>2
    <2>4. n = Len(queue) => Alike(all, w)
        <3> SUFFICES ASSUME Len(queue) = 0 PROVE Alike(all, w)
            BY <1>6
        <3>1. w = AllTold(said, queue)
            BY <1>6 DEF w, AllTold
        <3> QED
            BY <1>5, <3>1
    <2> HIDE DEF next, all
    <2> QED
        BY <1>4, <1>5, <2>3, <2>4 DEF w, next, rest, all
<1>7. CASE n = Len(queue)
    <2>1. w = AllTold(said, queue)
        BY <1>7 DEF AllTold
    <2>2. rest = <<>>
        BY <1>7, RestIs
    <2> HIDE DEF w, rest
    <2>3. Alike(all, w)
        BY <1>5, <2>1
    <2>4. next = Fresh(w.me)
        <3> DEFINE none == <<>>
                   you == w.me
        <3>1. none \in Queues
            BY DEF Queues
        <3> HIDE DEF none, you
        <3>2. AllTold(you, none) = Fresh(you)
            BY <1>4, <3>1, AllToldIs DEF you, none
        <3> QED
            BY <2>2, <3>2 DEF you, none
    <2>5. w.silent = FALSE
        BY <1>4, <2>3 DEF Alike
    <2>6. Fresh(w.me).me = w.me /\ Fresh(w.me).silent = FALSE /\ (Fresh(w.me).over <=> w.me.phase # "joining")
        <3> DEFINE you == w.me
        <3> HIDE DEF you
        <3> QED
            BY <1>4, FreshIs DEF you
    <2>7. Fresh(w.me).over = w.over
        <3>1. Fresh(w.me).over \in BOOLEAN /\ w.over \in BOOLEAN
            BY <1>4 DEF Fresh, Hearings, Flags
        <3> QED
            BY <1>4, <2>6, <3>1 DEF Reading
    <2>8. Alike(all, next)
        BY <2>3, <2>4, <2>5, <2>6, <2>7 DEF Alike
    <2>9. n = 0 => w.me = said
        <3> SUFFICES ASSUME n = 0 PROVE w.me = said
            OBVIOUS
        <3> DEFINE x == Fresh(said)
        <3> HIDE DEF x
        <3>1. Told(x, queue, 0) = x
            BY <1>1, <1>2, ToldNothing DEF x
        <3> QED
            BY <1>1, <3>1 DEF x, w
    <2> HIDE DEF next, all
    <2> QED
        BY <1>4, <2>3, <2>5, <2>8, <2>9 DEF w, next, rest, all
<1> QED
    BY <1>6, <1>7

LEMMA ReadsOnAttended ==
    ASSUME NEW l, NEW k \in Wires, NEW me \in Joiners, NEW waiting, NEW links, NEW roster,
           NEW playing, Attended(l, k, me, waiting, links, roster, playing), Mine(l, me),
           me.phase = "joining",
           NEW said \in Joiners, Alike(Fresh(me), Fresh(said)), said.phase = "joining",
           said.welcomed = me.welcomed, said.local = me.local, said.tries = me.tries,
           NEW n \in {0, Len(k.down)},
           NEW s \in Wires, s.near = k.near, s.down = Rest(k.down, n),
           s.far = IF End \in Batch(k.down, n) THEN "closed" ELSE k.far,
           Told(Fresh(said), k.down, n).me.phase # "idle"
    PROVE  Attended(l, s, Told(Fresh(said), k.down, n).me, waiting, links, roster, playing)
<1> DEFINE queue == k.down
           rest == Rest(queue, n)
           then == AllTold(me, queue)
           w == Told(Fresh(said), queue, n)
           you == w.me
           next == AllTold(you, rest)
           seat == Seat(links, l)
<1>1. queue \in Queues /\ Follows(k, me, seat, roster, playing) /\ Dialing(l, k, me)
    BY DEF Wires, Attended
<1>2. ~then.silent
    BY <1>1 DEF Follows
<1>3. /\ Reading(w) /\ you.tries = me.tries /\ (n = 0 => you = said)
      /\ n = Len(queue) => Alike(then, w)
      /\ Alike(then, next)
    <2> HIDE DEF queue, w, rest, then
    <2> QED
        BY <1>1, <1>2, ReadsOn DEF w, rest, then, queue
<1>4. s.far = k.far \/ s.far = "closed"
    OBVIOUS
<1>5. s.far # "closed" /\ ~Ended(rest) => ~Ended(queue)
    <2> SUFFICES ASSUME s.far # "closed", ~Ended(rest) PROVE ~Ended(queue)
        OBVIOUS
    <2>1. End \notin Batch(queue, n) /\ n \in {0, Len(queue)}
        OBVIOUS
    <2> HIDE DEF queue
    <2> QED
        BY <1>1, <2>1, EndedIsRead
<1> HIDE DEF w, then, next, seat
<1>6. k.near = "open" => (you.welcomed => seat = {you.local})
    <2> SUFFICES ASSUME k.near = "open" PROVE you.welcomed => seat = {you.local}
        OBVIOUS
    <2>1. me.welcomed => seat = {me.local}
        BY <1>1 DEF Follows
    <2>2. then.me.welcomed /\ then.me.phase # "idle" => seat = {then.me.local}
        BY <1>1 DEF Follows, then
    <2>3. CASE n = 0
        BY <1>3, <2>1, <2>3
    <2>4. CASE n = Len(queue)
        <3>1. then.me.welcomed = you.welcomed /\ then.me.local = you.local /\ then.me.phase = you.phase
            BY <1>3, <2>4 DEF Alike
        <3>2. you.phase # "idle"
            BY DEF w
        <3> QED
            BY <2>2, <3>1, <3>2
    <2> QED
        BY <2>3, <2>4
<1>7. Follows(s, you, seat, roster, playing)
    <2>1. /\ next.silent = then.silent /\ next.over = then.over
          /\ next.me.welcomed = then.me.welcomed /\ next.me.local = then.me.local
          /\ next.me.phase = then.me.phase /\ next.me.roster = then.me.roster
        BY <1>3 DEF Alike
    <2>2. s.far = "open" /\ ~Ended(s.down) => k.far = "open" /\ ~Ended(queue)
        BY <1>4, <1>5
    <2>3. next = AllTold(you, s.down)
        BY DEF next
    <2>4. /\ k.near = "open" =>
              /\ then.me.welcomed /\ then.me.phase # "idle" => seat = {then.me.local}
              /\ k.far = "open" /\ ~Ended(queue) =>
                    /\ seat = {} => ~then.over
                    /\ seat # {} => /\ then.me.welcomed
                                    /\ then.me.roster = roster
                                    /\ ~playing => ~then.over
        BY <1>1 DEF Follows, then
    <2> HIDE DEF queue, you, rest
    <2> QED
        BY <1>2, <1>6, <2>1, <2>2, <2>3, <2>4 DEF Follows
<1>8. Dialing(l, s, you)
    <2>1. k.far \in {"none", "dialing", "open", "closed"}
        BY DEF Wires, Fars
    <2>2. Mine(l, you) => l[2] = me.tries
        BY <1>3 DEF Mine
    <2>3. k.far # "none"
        <3>1. me.tries \in Nat /\ l[2] = me.tries
            BY DEF Joiners, Mine
        <3> QED
            BY <1>1, <3>1 DEF Dialing
    <2>4. CASE s.far = "dialing"
        <3>1. k.far = "dialing" /\ k.near = "none" /\ (queue = <<>> \/ Ended(queue))
            BY <1>1, <1>4, <2>4 DEF Dialing
        <3>2. me.phase = "joining" /\ ~me.welcomed
            BY <1>1, <3>1 DEF Dialing
        <3>3. n = 0
            <4>1. CASE n = Len(queue) /\ n # 0
                <5>1. rest = <<>>
                    BY <1>1, <4>1, RestIs
                <5>2. ~Ended(rest)
                    BY <5>1 DEF Ended
                <5>3. ~Ended(queue)
                    BY <1>5, <2>4, <5>2
                <5>4. queue = <<>>
                    BY <3>1, <5>3
                <5>5. Len(queue) = 0
                    BY <5>4
                <5> QED
                    BY <4>1, <5>5
            <4> QED
                BY <4>1
        <3>4. rest = queue
            BY <1>1, <3>3, RestIs
        <3>5. you = said
            BY <1>3, <3>3
        <3>6. l[2] > me.tries <=> k.far = "none"
            BY <1>1 DEF Dialing
        <3> HIDE DEF you, rest, queue
        <3>7. s.down = queue
            BY <3>4 DEF rest, queue
        <3>8. you.phase = "joining" /\ ~you.welcomed
            BY <3>2, <3>5
        <3> QED
            BY <1>3, <2>3, <2>4, <3>1, <3>6, <3>7, <3>8 DEF Dialing
    <2>5. CASE s.far # "dialing"
        <3>1. s.far \notin {"none", "dialing"}
            BY <1>4, <2>3, <2>5
        <3>2. ~(l[2] > me.tries)
            BY <1>1, <2>3 DEF Dialing
        <3> QED
            BY <1>3, <3>1, <3>2 DEF Dialing
    <2> QED
        BY <2>4, <2>5
<1> HIDE DEF you
<1>9. Attended(l, s, you, waiting, links, roster, playing)
    BY <1>7, <1>8 DEF Attended, Served, seat
<1> QED
    BY <1>9 DEF you, w

LEMMA PollJoinLasts ==
    ASSUME Lasts(host, link, joiner), joiner \in [Players -> Joiners], silent = FALSE,
           NEW p \in Players, Trying(joiner[p]), NEW n \in {0, Len(link[LinkOf(p)].down)},
           NEW late, PollJoin(p, n, late)
    PROVE  /\ Lasts(host', link', joiner') /\ joiner' \in [Players -> Joiners] /\ silent' = FALSE
           /\ \A q \in Players : Trying(joiner[q]) => Trying(joiner'[q])
<1> DEFINE l == LinkOf(p)
           k == link[l]
           me == joiner[p]
           read == ReceiveFar(k, n)
           open == read.far = "open"
           hello == IF ~me.said /\ open THEN SendUp(read, [kind |-> "hello"]) ELSE read
           said == [me EXCEPT !.said = @ \/ open]
           begun == [me |-> said, silent |-> silent, over |-> FALSE]
           w == Told(begun, k.down, n)
           lost == read.far = "closed" \/ (~w.me.welcomed /\ late)
           out == ~w.over /\ lost
           you == IF out THEN Idle(me.tries) ELSE w.me
           s == CASE w.me.phase = "idle" -> CloseFar(SendUp(hello, Bye))
                  [] w.me.phase # "idle" /\ ~w.over /\ lost -> CloseFar(hello)
                  [] OTHER -> hello
           kept(x) == x \in Wires /\ x.near = k.near
<1>1. /\ me.phase = "joining" /\ joiner' = [joiner EXCEPT ![p] = you]
      /\ link' = [link EXCEPT ![l] = s] /\ host' = host /\ silent' = w.silent
    BY DEF PollJoin
<1>2. l \in Links /\ Mine(l, me) /\ me.phase # "idle"
    BY <1>1, MyLink
<1>3. k \in Wires /\ me \in Joiners /\ k.down \in Queues /\ me.tries \in Nat /\ n \in {0, Len(k.down)}
    BY <1>2 DEF Lasts, Kept, Wires, Joiners
<1>4. /\ read \in Wires /\ read.near = k.near /\ read.down = Rest(k.down, n)
      /\ read.far = IF End \in Batch(k.down, n) THEN "closed" ELSE k.far
    <2> HIDE DEF k
    <2> QED
        BY <1>3, ReceiveFarIs
<1> HIDE DEF read
<1>5. /\ hello \in Wires /\ hello.near = k.near /\ hello.down = Rest(k.down, n)
      /\ hello.far = IF End \in Batch(k.down, n) THEN "closed" ELSE k.far
    <2> DEFINE m == [kind |-> "hello"]
               x == SendUp(read, m)
    <2>1. m \in Mails
        BY DEF Mails
    <2> HIDE DEF m
    <2>2. x \in Wires /\ x.far = read.far /\ x.near = read.near /\ x.down = read.down
        BY <1>4, <2>1, SendUpIs
    <2>3. hello = read \/ hello = x
        BY DEF m
    <2> HIDE DEF x, hello
    <2> QED
        BY <1>4, <2>2, <2>3
<1>6. /\ said \in Joiners /\ said.phase = "joining" /\ said.tries = me.tries
      /\ said.welcomed = me.welcomed /\ said.local = me.local /\ said.roster = me.roster
    <2> DEFINE told == me.said \/ open
    <2>1. said = [me EXCEPT !.said = told]
        OBVIOUS
    <2>2. told \in Flags
        BY <1>3 DEF Joiners, Flags
    <2> HIDE DEF told, said, Flags, me
    <2> QED
        BY <1>1, <1>3, <2>1, <2>2 DEF Joiners, me
<1> HIDE DEF said, hello
<1>7. begun = Fresh(said)
    BY <1>6 DEF Fresh
<1>8. Alike(Fresh(me), Fresh(said))
    BY <1>1, <1>6 DEF Alike, Fresh
<1>9. w = Told(Fresh(said), k.down, n)
    BY <1>7
<1>10. \A waiting, links, roster, playing : Attended(l, k, me, waiting, links, roster, playing)
           => ~AllTold(me, k.down).silent
    BY <1>2 DEF Attended, Follows
<1>11. PICK waiting, links, roster, playing : Attended(l, k, me, waiting, links, roster, playing)
    <2>1. joiner[l[1]] = me
        BY <1>2, MyLink DEF l
    <2> QED
        BY <1>2, <2>1 DEF Lasts, Kept
<1>12. Reading(w) /\ w.me.tries = said.tries /\ w.silent = FALSE
    <2> DEFINE queue == k.down
    <2>1. ~AllTold(me, queue).silent /\ queue \in Queues /\ n \in {0, Len(queue)}
        BY <1>3, <1>10, <1>11
    <2> HIDE DEF queue, me, w
    <2> QED
        BY <1>3, <1>6, <1>8, <1>9, <2>1, ReadsOn DEF queue
<1>13. w.me \in Joiners
    BY <1>12 DEF Reading, Hearings
<1> HIDE DEF w, begun
<1>14. CASE you.phase = "idle" \/ out
    <2> DEFINE idle == Idle(me.tries)
    <2>1. you \in Joiners /\ you.tries = me.tries /\ you.phase = "idle"
        <3>1. idle \in Joiners /\ idle.tries = me.tries /\ idle.phase = "idle"
            <4> HIDE DEF me
            <4> QED
                BY <1>3, IdleIs
        <3> HIDE DEF idle
        <3>2. CASE out
            BY <3>1, <3>2 DEF idle
        <3>3. CASE ~out
            BY <1>6, <1>12, <1>13, <1>14, <3>3
        <3> QED
            BY <3>2, <3>3
    <2>2. \/ s = CloseFar(SendUp(hello, Bye))
          \/ s = CloseFar(hello)
        <3>1. out \/ w.me.phase = "idle"
            BY <1>14
        <3> HIDE DEF lost
        <3> QED
            BY <3>1
    <2> HIDE DEF s
    <2>3. s \in Wires /\ s.far = "closed" /\ s.near = k.near
        <3> DEFINE x == SendUp(hello, Bye)
        <3>1. x \in Wires /\ x.near = hello.near
            BY <1>5, EndIs, SendUpIs
        <3> HIDE DEF x
        <3>2. /\ CloseFar(x) \in Wires /\ CloseFar(x).far = "closed" /\ CloseFar(x).near = x.near
              /\ CloseFar(hello) \in Wires /\ CloseFar(hello).far = "closed" /\ CloseFar(hello).near = hello.near
            BY <1>5, <3>1, CloseFarIs
        <3> QED
            BY <1>5, <2>2, <3>1, <3>2 DEF x
    <2> HIDE DEF you, k, me, l
    <2>4. Carries(l, k, me, s, you)
        <3> SUFFICES ASSUME NEW others, NEW places, NEW members, NEW begins,
                            Attended(l, k, me, others, places, members, begins)
                     PROVE  Attended(l, s, you, others, places, members, begins)
            BY DEF Carries
        <3>1. ~Mine(l, you)
            BY <2>1 DEF Mine
        <3>2. k.far # "none"
            <4>1. me.tries \in Nat /\ l[2] = me.tries
                BY <1>2, <1>3 DEF Mine
            <4> QED
                BY <4>1 DEF Attended, Dialing
        <3> QED
            BY <2>1, <2>3, <3>1, <3>2 DEF Attended, Dialing, Served
    <2>5. /\ Carries(LinkOf(p), link[LinkOf(p)], joiner[p], s, you)
          /\ you.tries = joiner[p].tries /\ joiner[p].phase # "idle"
        BY <1>2, <2>1, <2>4 DEF l, k, me
    <2>6. Lasts(host, [link EXCEPT ![LinkOf(p)] = s], [joiner EXCEPT ![p] = you])
        BY <2>1, <2>3, <2>5, JoinerActsLast
    <2>7. \A q \in Players : Trying(joiner[q]) => Trying(joiner'[q])
        BY <1>1, <2>1, <2>5 DEF Trying
    <2> QED
        BY <1>1, <1>12, <2>1, <2>6, <2>7 DEF l
<1>15. CASE you.phase # "idle" /\ ~out
    <2>1. you = w.me /\ w.me.phase # "idle"
        BY <1>15
    <2>2. s = hello
        <3> HIDE DEF lost
        <3> QED
            BY <1>15, <2>1
    <2> HIDE DEF s, you, out
    <2>3. Carries(l, k, me, hello, you)
        <3> SUFFICES ASSUME NEW others, NEW places, NEW members, NEW begins,
                            Attended(l, k, me, others, places, members, begins)
                     PROVE  Attended(l, hello, you, others, places, members, begins)
            BY DEF Carries
        <3> HIDE DEF k, me, l
        <3>1. Told(Fresh(said), k.down, n).me.phase # "idle"
            BY <1>9, <2>1
        <3>2. Attended(l, hello, Told(Fresh(said), k.down, n).me, others, places, members, begins)
            BY <1>1, <1>2, <1>3, <1>5, <1>6, <1>8, <3>1, ReadsOnAttended
        <3> QED
            BY <1>9, <2>1, <3>2
    <2>4. /\ Carries(LinkOf(p), link[LinkOf(p)], joiner[p], hello, you)
          /\ you.tries = joiner[p].tries /\ joiner[p].phase # "idle" /\ you \in Joiners
        BY <1>2, <1>6, <1>12, <1>13, <2>1, <2>3 DEF l
    <2> HIDE DEF l
    <2>5. Lasts(host, [link EXCEPT ![LinkOf(p)] = hello], [joiner EXCEPT ![p] = you])
        BY <1>5, <2>4, JoinerActsLast
    <2>6. \A q \in Players : Trying(joiner[q]) => Trying(joiner'[q])
        BY <1>1, <2>4 DEF Trying
    <2> QED
        BY <1>1, <1>12, <2>2, <2>4, <2>5, <2>6 DEF l
<1> QED
    BY <1>14, <1>15

-----------------------------------------------------------------------------
(* A dial, and what becomes of it.                                          *)

LEMMA TriesCounted ==
    ASSUME Lasts(host, link, joiner), joiner \in [Players -> Joiners], NEW p \in Players,
           Trying(joiner[p]), Cardinality(Dialed) < MaxJoins
    PROVE  joiner[p].tries + 1 \in 1 .. MaxJoins
<1> DEFINE t == joiner[p].tries
           mine == {<<p, i>> : i \in 1 .. t}
           f == [i \in 1 .. t |-> <<p, i>>]
<1>1. t \in Nat /\ t <= MaxJoins /\ MaxJoins \in Nat
    BY LobbyConstants DEF Joiners, Trying
<1>2. mine \subseteq Dialed
    <2> SUFFICES ASSUME NEW i \in 1 .. t PROVE <<p, i>> \in Dialed
        OBVIOUS
    <2> DEFINE l == <<p, i>>
    <2>1. l \in Links /\ l[1] = p /\ l[2] = i
        <3>1. i \in 1 .. MaxJoins
            BY <1>1
        <3> QED
            BY <3>1, LinkIs
    <2> HIDE DEF l
    <2>2. Dialing(l, link[l], joiner[p])
        BY <2>1 DEF Lasts, Kept, Attended
    <2>3. ~(i > t)
        BY <1>1
    <2>4. link[l].far # "none"
        BY <2>1, <2>2, <2>3 DEF Dialing
    <2> QED
        BY <2>1, <2>4 DEF Dialed, l
<1>3. IsFiniteSet(Dialed)
    <2>1. IsFiniteSet(1 .. MaxJoins)
        BY <1>1, FS_Interval
    <2>2. IsFiniteSet(Links)
        BY <2>1, LobbyConstants, FS_Product DEF Links
    <2> QED
        BY <2>2, FS_Subset DEF Dialed
<1>4. Cardinality(mine) = t /\ IsFiniteSet(mine)
    <2>1. IsFiniteSet(1 .. t) /\ Cardinality(1 .. t) = t
        <3>1. t \in Nat
            BY <1>1
        <3> HIDE DEF t
        <3>2. IsFiniteSet(1 .. t) /\ Cardinality(1 .. t) = IF 1 > t THEN 0 ELSE t - 1 + 1
            BY <3>1, FS_Interval
        <3> QED
            BY <3>1, <3>2
    <2>2. f \in Bijection(1 .. t, mine)
        BY DEF Bijection, Injection, Surjection, IsInjective
    <2> HIDE DEF f, mine
    <2> QED
        BY <2>1, <2>2, FS_Bijection DEF ExistsBijection
<1>5. Cardinality(mine) <= Cardinality(Dialed) /\ Cardinality(Dialed) \in Nat
    <2> HIDE DEF mine
    <2> QED
        BY <1>2, <1>3, FS_Subset, FS_CardinalityType
<1> QED
    BY <1>1, <1>4, <1>5

LEMMA JoinLasts ==
    ASSUME Lasts(host, link, joiner), joiner \in [Players -> Joiners], NEW p \in Players,
           Trying(joiner[p]), Join(p)
    PROVE  /\ Lasts(host', link', joiner') /\ joiner' \in [Players -> Joiners]
           /\ \A q \in Players : Trying(joiner[q]) => Trying(joiner'[q])
<1> DEFINE me == joiner[p]
           t == me.tries + 1
           l == <<p, t>>
           k == link[l]
           you == [Idle(t) EXCEPT !.phase = "joining"]
           s == [k EXCEPT !.far = "dialing"]
<1>1. /\ me.phase = "idle" /\ joiner' = [joiner EXCEPT ![p] = you] /\ host' = host
      /\ link' = [link EXCEPT ![l].far = "dialing"] /\ Cardinality(Dialed) < MaxJoins
    BY DEF Join
<1>2. t \in 1 .. MaxJoins /\ me \in Joiners /\ me.tries \in Nat /\ t \in Nat
    BY <1>1, TriesCounted DEF Joiners
<1>3. l \in Links /\ l[1] = p /\ l[2] = t
    BY <1>2, LinkIs
<1>4. k \in Wires /\ link \in [Links -> Wires]
    BY <1>3 DEF Lasts, Kept
<1>5. link' = [link EXCEPT ![l] = s]
    BY <1>1
<1>6. /\ you \in Joiners /\ you.tries = t /\ you.phase = "joining" /\ you.welcomed = FALSE
    <2> DEFINE idle == Idle(t)
    <2> HIDE DEF t
    <2>1. idle \in Joiners /\ idle.tries = t /\ idle.welcomed = FALSE
        BY <1>2, IdleIs
    <2>2. "joining" \in Stages
        BY DEF Stages
    <2> HIDE DEF idle, Stages
    <2> QED
        BY <2>1, <2>2 DEF Joiners, idle
<1>7. s \in Wires /\ s.far = "dialing" /\ s.near = k.near /\ s.down = k.down
    <2>1. "dialing" \in Fars
        BY DEF Fars
    <2> HIDE DEF k, Fars
    <2> QED
        BY <1>4, <2>1 DEF Wires
<1> HIDE DEF you, s, k, l
<1>8. Carries(l, k, me, s, you)
    <2> SUFFICES ASSUME NEW waiting, NEW links, NEW roster, NEW playing,
                        Attended(l, k, me, waiting, links, roster, playing)
                 PROVE  Attended(l, s, you, waiting, links, roster, playing)
        BY DEF Carries
    <2>1. k.far = "none" /\ k.near = "none" /\ k.down = <<>>
        <3>1. l[2] > me.tries
            BY <1>2, <1>3
        <3>2. k.far = "none"
            BY <3>1 DEF Attended, Dialing
        <3> QED
            BY <3>2 DEF Attended, Dialing
    <2>2. ~AllTold(you, s.down).silent
        <3> DEFINE queue == s.down
        <3>1. queue = <<>> /\ queue \in Queues
            BY <1>7, <2>1 DEF Wires
        <3> HIDE DEF queue
        <3>2. AllTold(you, queue) = Fresh(you)
            BY <1>6, <3>1, AllToldIs
        <3>3. Fresh(you).silent = FALSE
            BY <1>6, FreshIs
        <3> QED
            BY <3>2, <3>3 DEF queue
    <2>3. Follows(s, you, Seat(links, l), roster, playing)
        BY <1>7, <2>1, <2>2 DEF Follows
    <2>4. Dialing(l, s, you)
        BY <1>2, <1>3, <1>6, <1>7, <2>1 DEF Dialing
    <2> HIDE DEF me
    <2>5. Served(s, l, waiting, links)
        BY <1>7 DEF Attended, Served
    <2> QED
        BY <2>3, <2>4, <2>5 DEF Attended
<1>9. Lasts(host, [link EXCEPT ![l] = s], [joiner EXCEPT ![p] = you])
    <2>1. /\ Again(joiner[p], you) /\ l = <<p, you.tries>>
          /\ Carries(l, link[l], joiner[p], s, you)
        BY <1>1, <1>6, <1>8 DEF Again, l, k
    <2> HIDE DEF me
    <2> QED
        BY <1>3, <1>6, <1>7, <2>1, JoinerLasts
<1>10. \A q \in Players : Trying(joiner[q]) => Trying(joiner'[q])
    BY <1>1, <1>2, <1>6 DEF Trying
<1> QED
    BY <1>1, <1>5, <1>6, <1>9, <1>10

-----------------------------------------------------------------------------
(* The network.                                                             *)

LEMMA ThenAdded ==
    ASSUME NEW S, NEW a \in Seq(S), NEW b \in Seq(S), NEW e \in S
    PROVE  a \o Append(b, e) = Append(a \o b, e)
<1>1. Append(b, e) = b \o <<e>> /\ <<e>> \in Seq(S) /\ a \o b \in Seq(S)
    BY AppendIsConcat, ConcatProperties
<1>2. Append(a \o b, e) = (a \o b) \o <<e>>
    BY <1>1, AppendIsConcat
<1> QED
    BY <1>1, <1>2, ConcatAssociative

LEMMA ConnectLasts ==
    ASSUME Lasts(host, link, joiner), joiner \in [Players -> Joiners], NEW l \in Links, Connect(l)
    PROVE  Lasts(host', link', joiner)
<1> DEFINE k == link[l]
           me == joiner[l[1]]
           all == host.arriving \o host.listener
           waiting == Range(all)
           playing == host.phase = "playing"
           roster == host.roster
           places == host.links
           none == <<>>
<1>1. /\ Kept(host, link, joiner, waiting, {}) /\ Apart(all) /\ Settled(roster, places, waiting, {})
      /\ host \in Hosts /\ link \in [Links -> Wires]
      /\ host.arriving \in Seq(Links) /\ host.listener \in Seq(Links)
      /\ \A o \in Links : Attended(o, link[o], joiner[o[1]], waiting, places, roster, playing)
    BY DEF Lasts, Kept, Hosts, Lines
<1>2. k.far = "dialing" /\ k.down = none
    BY DEF Connect
<1>3. k \in Wires /\ me \in Joiners /\ Attended(l, k, me, waiting, places, roster, playing)
    BY <1>1, LinksAre
<1>4. k.near = "none" /\ l \notin waiting \union Linked(places) /\ Dialing(l, k, me) /\ ~(l[2] > me.tries)
    BY <1>2, <1>3 DEF Attended, Dialing, Served
<1>5. Mine(l, me) => me.phase = "joining" /\ ~me.welcomed
    BY <1>2, <1>4 DEF Dialing
<1>6. Seat(places, l) = {}
    BY <1>4, PlacesAre
<1>7. Mine(l, me) => /\ AllTold(me, none) = Fresh(me) /\ Fresh(me).me = me
                     /\ Fresh(me).silent = FALSE /\ (Fresh(me).over <=> me.phase # "joining")
    <2>1. none \in Queues /\ none = <<>>
        BY DEF Queues
    <2> HIDE DEF none, me
    <2> QED
        BY <1>3, <2>1, AllToldIs, FreshIs
<1>8. CASE host.phase = "hosting"
    <2> DEFINE s == [k EXCEPT !.far = "open", !.near = "open"]
               h == [host EXCEPT !.listener = Append(@, l)]
               now == [link EXCEPT ![l] = s]
               more == Append(host.listener, l)
               wide == waiting \union {l}
               empty == {}
    <2>1. host' = h /\ link' = now
        BY <1>1, <1>8 DEF Connect
    <2>2. s \in Wires /\ s.far = "open" /\ s.near = "open" /\ s.down = none
        <3>1. "open" \in Fars /\ "open" \in Nears
            BY DEF Fars, Nears
        <3> HIDE DEF k, Fars, Nears, none
        <3> QED
            BY <1>2, <1>3, <3>1 DEF Wires
    <2>3. /\ h \in Hosts /\ h.phase = host.phase /\ h.roster = roster /\ h.links = places
          /\ h.arriving = host.arriving /\ h.listener = more
        <3>1. more \in Lines
            BY <1>1, Added DEF Lines
        <3>2. h = [host EXCEPT !.listener = more]
            OBVIOUS
        <3> HIDE DEF more, h, Lines
        <3> QED
            BY <1>1, <3>1, <3>2 DEF Hosts
    <2>4. host.arriving \o more = Append(all, l)
        <3> DEFINE a == host.arriving
                   b == host.listener
        <3>1. a \in Seq(Links) /\ b \in Seq(Links)
            BY <1>1
        <3> HIDE DEF a, b
        <3>2. a \o Append(b, l) = Append(a \o b, l)
            BY <3>1, ThenAdded
        <3> QED
            BY <3>2 DEF a, b
    <2>5. Range(Append(all, l)) = wide /\ Apart(Append(all, l))
        <3>1. all \in Seq(Links)
            BY <1>1
        <3> HIDE DEF all
        <3>2. Range(Append(all, l)) = Range(all) \union {l} /\ Grown(all, Append(all, l), l, Len(all) + 1)
            BY <3>1, Added, AddedRange
        <3>3. \A i \in DOMAIN all : all[i] # l
            BY <1>4 DEF Range
        <3>4. Apart(Append(all, l))
            BY <1>1, <3>2, <3>3 DEF Apart, Grown
        <3> QED
            BY <3>2, <3>4
    <2>6. now \in [Links -> Wires] /\ now[l] = s /\ \A o \in Links : o # l => now[o] = link[o]
        BY <1>1, <2>2
    <2> HIDE DEF now, s, h, more, wide
    <2>7. ASSUME NEW o \in Links
          PROVE  Attended(o, now[o], joiner[o[1]], wide, places, roster, playing)
        <3>1. CASE o # l
            <4>1. Attended(o, link[o], joiner[o[1]], waiting, places, roster, playing) /\ now[o] = link[o]
                BY <1>1, <2>6, <3>1
            <4> HIDE DEF waiting, places, roster, playing
            <4>2. o \in wide <=> o \in waiting
                BY <3>1 DEF wide
            <4> QED
                BY <4>1, <4>2 DEF Attended, Served
        <3>2. CASE o = l
            <4>1. Mine(l, me) => Follows(s, me, Seat(places, l), roster, playing)
                <5> HIDE DEF me, places, roster, playing, k
                <5>1. CASE Mine(l, me)
                    <6>1. AllTold(me, s.down) = Fresh(me)
                        BY <1>7, <2>2, <5>1
                    <6>2. Fresh(me).me = me /\ Fresh(me).silent = FALSE /\ ~Fresh(me).over
                        BY <1>5, <1>7, <5>1
                    <6>3. ~me.welcomed /\ Seat(places, l) = {}
                        BY <1>5, <1>6, <5>1
                    <6> HIDE DEF Fresh
                    <6> QED
                        BY <6>1, <6>2, <6>3 DEF Follows
                <5> QED
                    BY <5>1
            <4>2. Dialing(l, s, me)
                BY <1>4, <2>2 DEF Dialing
            <4>3. Served(s, l, wide, places)
                BY <2>2 DEF Served, wide
            <4> QED
                BY <2>6, <3>2, <4>1, <4>2, <4>3 DEF Attended
        <3> QED
            BY <3>1, <3>2
    <2>8. Settled(roster, places, wide, empty)
        BY <1>1, <1>4 DEF Settled, wide
    <2>9. Kept(h, now, joiner, wide, empty)
        BY <1>8, <2>3, <2>6, <2>7, <2>8 DEF Kept
    <2>10. Lasts(h, now, joiner)
        BY <2>3, <2>4, <2>5, <2>9 DEF Lasts
    <2> QED
        BY <2>1, <2>10
<1>9. CASE host.phase # "hosting"
    <2> DEFINE queue == <<End>>
               s == [k EXCEPT !.down = queue]
               now == [link EXCEPT ![l] = s]
               empty == {}
    <2>1. host' = host /\ link' = now
        BY <1>1, <1>9 DEF Connect
    <2>2. queue \in Queues /\ Ended(queue)
        BY EndIs DEF Queues, Ended, Last
    <2>3. s \in Wires /\ s.far = "dialing" /\ s.near = "none" /\ s.down = queue
        <3> HIDE DEF k, queue
        <3> QED
            BY <1>2, <1>3, <1>4, <2>2 DEF Wires
    <2>4. now \in [Links -> Wires] /\ now[l] = s /\ \A o \in Links : o # l => now[o] = link[o]
        BY <1>1, <2>3
    <2> HIDE DEF now, s
    <2>5. Mine(l, me) => ~AllTold(me, queue).silent
        <3>1. Mine(l, me) => AllTold(me, Put(none, End)) = Heard(AllTold(me, none), End)
            <4>1. none \in Queues /\ ~Ended(none)
                BY DEF Queues, Ended
            <4> HIDE DEF none, me
            <4> QED
                BY <1>3, <4>1, EndIs, ToldPut
        <3>2. Put(none, End) = queue
            BY DEF Put
        <3>3. Mine(l, me) => Heard(Fresh(me), End) = Fresh(me)
            <4> DEFINE x == Fresh(me)
            <4>1. x \in Hearings /\ End.kind = "end"
                BY <1>3, FreshIs DEF Reading, End
            <4> HIDE DEF x
            <4> QED
                BY <4>1, EndIs, HeardNothing DEF x
        <3> HIDE DEF me, none, queue
        <3> QED
            BY <1>7, <3>1, <3>2, <3>3
    <2> HIDE DEF queue
    <2>6. ASSUME NEW o \in Links
          PROVE  Attended(o, now[o], joiner[o[1]], waiting, places, roster, playing)
        <3>1. CASE o # l
            BY <1>1, <2>4, <3>1
        <3>2. CASE o = l
            <4> HIDE DEF waiting, places, roster, playing, k, me
            <4>1. Mine(l, me) => Follows(s, me, Seat(places, l), roster, playing)
                BY <2>3, <2>5, ShutFollows
            <4>2. Dialing(l, s, me)
                BY <1>4, <1>5, <2>2, <2>3 DEF Dialing
            <4>3. Served(s, l, waiting, places)
                BY <1>4, <2>3 DEF Served
            <4> QED
                BY <2>4, <3>2, <4>1, <4>2, <4>3 DEF Attended, me
        <3> QED
            BY <3>1, <3>2
    <2>7. Kept(host, now, joiner, waiting, empty)
        BY <1>1, <2>4, <2>6 DEF Kept
    <2> QED
        BY <1>1, <2>1, <2>7 DEF Lasts
<1> QED
    BY <1>8, <1>9

LEMMA BreakLasts ==
    ASSUME Lasts(host, link, joiner), joiner \in [Players -> Joiners], NEW l \in Links, Break(l)
    PROVE  Lasts(host', link', joiner)
<1> DEFINE k == link[l]
           me == joiner[l[1]]
           waiting == Range(host.arriving \o host.listener)
           playing == host.phase = "playing"
           roster == host.roster
           places == host.links
           queue == <<End>>
           none == <<>>
           s == [k EXCEPT !.up = queue, !.down = queue]
           now == [link EXCEPT ![l] = s]
           empty == {}
<1>1. /\ Kept(host, link, joiner, waiting, {}) /\ Apart(host.arriving \o host.listener)
      /\ host \in Hosts /\ link \in [Links -> Wires]
      /\ \A o \in Links : Attended(o, link[o], joiner[o[1]], waiting, places, roster, playing)
    BY DEF Lasts, Kept
<1>2. k.far = "open" /\ k.near = "open" /\ host' = host /\ link' = now
    BY <1>1 DEF Break
<1>3. k \in Wires /\ me \in Joiners /\ Attended(l, k, me, waiting, places, roster, playing)
    BY <1>1, LinksAre
<1>4. queue \in Queues /\ Ended(queue)
    BY EndIs DEF Queues, Ended, Last
<1>5. AllTold(me, queue) = Fresh(me) /\ Fresh(me).me = me /\ Fresh(me).silent = FALSE
    <2>1. none \in Queues /\ ~Ended(none) /\ none = <<>>
        BY DEF Queues, Ended
    <2>2. Put(none, End) = queue
        BY DEF Put
    <2> HIDE DEF none, me, queue
    <2>3. AllTold(me, none) = Fresh(me) /\ AllTold(me, Put(none, End)) = Heard(AllTold(me, none), End)
        BY <1>3, <2>1, EndIs, ToldPut, AllToldIs
    <2>4. Heard(Fresh(me), End) = Fresh(me)
        <3> DEFINE x == Fresh(me)
        <3>1. x \in Hearings /\ End.kind = "end"
            BY <1>3, FreshIs DEF Reading, End
        <3> HIDE DEF x
        <3> QED
            BY <3>1, EndIs, HeardNothing DEF x
    <2> QED
        BY <1>3, <2>2, <2>3, <2>4, FreshIs
<1>6. s \in Wires /\ s.far = k.far /\ s.near = k.near /\ s.down = queue
    <2> HIDE DEF k, queue
    <2> QED
        BY <1>3, <1>4 DEF Wires
<1>7. now \in [Links -> Wires] /\ now[l] = s /\ \A o \in Links : o # l => now[o] = link[o]
    BY <1>1, <1>6
<1> HIDE DEF now, s, queue, none
<1>8. ASSUME NEW o \in Links
      PROVE  Attended(o, now[o], joiner[o[1]], waiting, places, roster, playing)
    <2>1. CASE o # l
        BY <1>1, <1>7, <2>1
    <2>2. CASE o = l
        <3> HIDE DEF waiting, places, roster, playing, k, me, Fresh
        <3>1. Mine(l, me) => Follows(s, me, Seat(places, l), roster, playing)
            BY <1>2, <1>3, <1>4, <1>5, <1>6 DEF Attended, Follows
        <3>2. s.far \in {"none", "dialing"} => s.down = k.down
            BY <1>2, <1>6
        <3>3. Attended(l, s, me, waiting, places, roster, playing)
            BY <1>3, <1>6, <3>1, <3>2, StillAttended
        <3> QED
            BY <1>7, <2>2, <3>3 DEF me
    <2> QED
        BY <2>1, <2>2
<1>9. Kept(host, now, joiner, waiting, empty)
    BY <1>1, <1>7, <1>8 DEF Kept
<1> QED
    BY <1>1, <1>2, <1>9 DEF Lasts

-----------------------------------------------------------------------------
(* The lobby.                                                               *)

LEMMA SoundAtFirst ==
    Init => Sound
<1> SUFFICES ASSUME Init
             PROVE  Sound
    OBVIOUS
<1> DEFINE first == [slot |-> 0, name |-> Here]
           roster == <<first>>
           none == <<>>
           quiet == [far |-> "none", near |-> "none", up |-> none, down |-> none]
           empty == {}
<1>1. /\ host = [phase |-> "hosting", listener |-> none, arriving |-> none, links |-> none,
                 roster |-> roster, absent |-> empty]
      /\ joiner = [p \in Players |-> Idle(0)] /\ link = [l \in Links |-> quiet]
      /\ breaks = 0 /\ silent = FALSE
    BY DEF Init
<1>2. none \in Lines /\ none \in Tables /\ none \in Queues /\ none \o none = none
    BY DEF Lines, Tables, Queues
<1>3. Range(none) = empty /\ Linked(none) = empty /\ Apart(none) /\ PlacesApart(none)
    BY DEF Range, Linked, Apart, PlacesApart
<1>4. first \in Members /\ first.name \notin Players
    BY LobbyConstants, NamesApart DEF Members, Names, Slots
<1>5. roster \in Rosters /\ Range(roster) = {first} /\ SlotsApart(roster)
    <2> HIDE DEF first
    <2> QED
        BY <1>4 DEF Rosters, Range, SlotsApart
<1>6. quiet \in Wires /\ quiet.far = "none" /\ quiet.near = "none" /\ quiet.down = none
    <2> HIDE DEF none
    <2> QED
        BY <1>2 DEF Wires, Fars, Nears
<1>7. /\ Idle(0) \in Joiners /\ Idle(0).phase = "idle" /\ Idle(0).tries = 0
      /\ Trying(Idle(0))
    <2>1. Idle(0) \in Joiners
        BY IdleIs
    <2>2. Idle(0).phase = "idle" /\ Idle(0).tries = 0
        BY DEF Idle
    <2> QED
        BY <2>1, <2>2, LobbyConstants DEF Trying
<1>8. host \in Hosts
    <2>1. empty \in SlotSets /\ "hosting" \in Phases
        BY DEF SlotSets, Phases
    <2> HIDE DEF none, roster, empty, Phases
    <2> QED
        BY <1>1, <1>2, <1>5, <2>1 DEF Hosts
<1>9. Settled(roster, none, empty, empty)
    <2>1. Peopled(roster, none, empty)
        BY <1>3, <1>4, <1>5 DEF Peopled
    <2> HIDE DEF roster, none
    <2> QED
        BY <1>3, <1>5, <2>1 DEF Settled
<1>10. ASSUME NEW l \in Links
       PROVE  Attended(l, link[l], joiner[l[1]], empty, none, roster, TRUE)
    <2>1. link[l] = quiet /\ joiner[l[1]] = Idle(0) /\ l[2] \in 1 .. MaxJoins
        BY <1>1 DEF Links
    <2>2. l[2] > 0
        BY <2>1, LobbyConstants
    <2> HIDE DEF quiet, none, roster
    <2>3. Served(quiet, l, empty, none)
        BY <1>3, <1>6 DEF Served
    <2>4. Dialing(l, quiet, Idle(0))
        BY <1>6, <1>7, <2>2 DEF Dialing, none, Mine
    <2> QED
        BY <1>7, <2>1, <2>3, <2>4 DEF Attended, Mine
<1>11. /\ host.roster = roster /\ host.links = none /\ host.arriving = none
       /\ host.listener = none /\ host.phase = "hosting"
    BY <1>1
<1>12. link \in [Links -> Wires] /\ joiner \in [Players -> Joiners]
    BY <1>1, <1>6, <1>7
<1>13. ASSUME NEW l \in Links
       PROVE  Attended(l, link[l], joiner[l[1]], empty, none, roster, FALSE)
    <2>1. ~Mine(l, joiner[l[1]])
        BY <1>1, <1>7 DEF Mine, Links
    <2> QED
        BY <1>10, <2>1 DEF Attended
<1> HIDE DEF roster, none, empty
<1>14. Kept(host, link, joiner, empty, {})
    BY <1>8, <1>9, <1>11, <1>12, <1>13 DEF Kept, empty
<1>15. Lasts(host, link, joiner)
    BY <1>2, <1>3, <1>11, <1>14 DEF Lasts
<1> QED
    BY <1>1, <1>7, <1>12, <1>15 DEF Sound

(* Every step keeps the lobby sound: one case for each kind of step.        *)
LEMMA SoundStays ==
    Sound /\ [Next]_vars => Sound'
<1> SUFFICES ASSUME Sound, [Next]_vars
             PROVE  Sound'
    OBVIOUS
<1> USE DEF Sound
<1>1. CASE HostActs
    BY <1>1, HostActsLast
<1>2. ASSUME NEW p \in Players, Join(p) \/ JoinerBegins(p) \/ JoinerLeaves(p)
      PROVE  Sound'
    <2>1. breaks' = breaks /\ silent' = silent
        BY <1>2 DEF Join, JoinerBegins, JoinerLeaves
    <2>2. /\ Lasts(host', link', joiner') /\ joiner' \in [Players -> Joiners]
          /\ \A q \in Players : Trying(joiner[q]) => Trying(joiner'[q])
        BY <1>2, JoinLasts, JoinerBeginsLasts, JoinerLeavesLasts
    <2> QED
        BY <2>1, <2>2
<1>3. ASSUME NEW p \in Players, NEW b \in BOOLEAN, NEW n \in {0, Len(link[LinkOf(p)].down)},
             PollJoin(p, n, b) \/ JoinerPlays(p, n, b)
      PROVE  Sound'
    <2>1. CASE PollJoin(p, n, b)
        <3>1. breaks' = breaks
            BY <2>1 DEF PollJoin
        <3>2. /\ Lasts(host', link', joiner') /\ joiner' \in [Players -> Joiners] /\ silent' = FALSE
              /\ \A q \in Players : Trying(joiner[q]) => Trying(joiner'[q])
            BY <2>1, PollJoinLasts
        <3> QED
            BY <3>1, <3>2
    <2>2. CASE JoinerPlays(p, n, b)
        <3>1. breaks' = breaks /\ silent' = silent
            BY <2>2 DEF JoinerPlays
        <3>2. /\ Lasts(host', link', joiner') /\ joiner' \in [Players -> Joiners]
              /\ \A q \in Players : Trying(joiner[q]) => Trying(joiner'[q])
            BY <2>2, JoinerPlaysLasts
        <3> QED
            BY <3>1, <3>2
    <2> QED
        BY <1>3, <2>1, <2>2
<1>4. ASSUME NEW l \in Links, Connect(l) \/ Break(l)
      PROVE  Sound'
    <2>1. joiner' = joiner /\ silent' = silent /\ breaks' \in Nat
        BY <1>4 DEF Connect, Break
    <2>2. Lasts(host', link', joiner)
        BY <1>4, ConnectLasts, BreakLasts
    <2> QED
        BY <2>1, <2>2
<1>5. CASE UNCHANGED vars
    BY <1>5 DEF vars
<1>6. Next => \/ HostActs
              \/ \E p \in Players : Join(p) \/ JoinerBegins(p) \/ JoinerLeaves(p)
              \/ \E p \in Players, b \in BOOLEAN :
                    \E n \in {0, Len(link[LinkOf(p)].down)} : PollJoin(p, n, b) \/ JoinerPlays(p, n, b)
              \/ \E l \in Links : Connect(l) \/ Break(l)
    BY DEF Next, HostActs
<1> QED
    BY <1>1, <1>2, <1>3, <1>4, <1>5, <1>6

(* The inductive invariant, of every lobby whatever its players, joins,     *)
(* slots and broken links: a link the host serves waits or has a place, a   *)
(* member that is a player is at the end of a link, and what is on its way  *)
(* to a joiner ends in the host's roster (poll_host, admit, poll_join and   *)
(* heard of lobby.rs; depart and settle of play.rs).                        *)
THEOREM LobbyIsSound == Spec => []Sound
<1> QED
    BY SoundAtFirst, SoundStays, PTL DEF Spec

(* No slot is ever two members', the players among the members are those at *)
(* the ends of the host's links, and a joiner plays the slot the host knows *)
(* its link by (free_slot and admit of lobby.rs, heard on the other side).  *)
THEOREM OnePlayerEachSlot == Spec => []SlotsHaveOnePlayer
<1>1. Sound => SlotsHaveOnePlayer
    <2> SUFFICES ASSUME Sound
                 PROVE  SlotsHaveOnePlayer
        OBVIOUS
    <2>1. /\ Lasts(host, link, joiner) /\ joiner \in [Players -> Joiners]
          /\ \A p \in Players : Trying(joiner[p])
        BY DEF Sound
    <2>2. /\ SlotsApart(host.roster) /\ Peopled(host.roster, host.links, {})
          /\ host \in Hosts
        BY <2>1 DEF Lasts, Kept, Settled
    <2>3. {<<m.slot, m.name>> : m \in {x \in Range(host.roster) : x.name \in Players}}
              = {<<e.slot, e.link[1]>> : e \in Range(host.links)}
        <3>1. \A e \in Range(host.links) : e.link[1] \in Players
            <4>1. host.links \in Seq(Places) /\ \A o \in Places : o.link[1] \in Players
                BY <2>2 DEF Hosts, Tables, Places, Links
            <4> QED
                BY <4>1 DEF Range
        <3> QED
            BY <2>2, <3>1 DEF Peopled
    <2>4. ASSUME NEW p \in Players, Open(p), joiner[p].welcomed
          PROVE  Seat(host.links, LinkOf(p)) = {joiner[p].local}
        <3>1. LinkOf(p) \in Links /\ Mine(LinkOf(p), joiner[p]) /\ LinkOf(p)[1] = p
            BY <2>1, <2>4, MyLink DEF Open, LinkOf
        <3>2. Follows(link[LinkOf(p)], joiner[p], Seat(host.links, LinkOf(p)), host.roster,
                      host.phase = "playing")
            BY <2>1, <3>1 DEF Lasts, Kept, Attended
        <3> QED
            BY <2>4, <3>2 DEF Follows, Open
    <2> QED
        BY <2>2, <2>3, <2>4 DEF SlotsHaveOnePlayer, SlotsApart
<1> QED
    BY <1>1, LobbyIsSound, PTL

(* A joiner that is in and has read what the host sent it has the host's    *)
(* roster, in the lobby and in the match (broadcast_roster and begin send   *)
(* it whenever it changed, changed_roster keeps it).                        *)
THEOREM RostersAreCurrent == Spec => []RosterIsCurrent
<1>1. Sound => RosterIsCurrent
    <2> SUFFICES ASSUME Sound, NEW p \in Players, Open(p), joiner[p].welcomed,
                        link[LinkOf(p)].down = <<>>
                 PROVE  joiner[p].roster = host.roster
        BY DEF RosterIsCurrent
    <2> DEFINE me == joiner[p]
               l == LinkOf(p)
               none == <<>>
    <2>1. /\ Lasts(host, link, joiner) /\ joiner \in [Players -> Joiners]
          /\ \A q \in Players : Trying(joiner[q])
        BY DEF Sound
    <2>2. l \in Links /\ Mine(l, me) /\ l[1] = p
        BY <2>1, MyLink DEF Open, LinkOf
    <2>3. Follows(link[l], me, Seat(host.links, l), host.roster, host.phase = "playing")
        BY <2>1, <2>2 DEF Lasts, Kept, Attended
    <2>4. link[l].near = "open" /\ link[l].far = "open" /\ me.welcomed /\ link[l].down = none
        BY DEF Open
    <2>5. AllTold(me, none).me = me /\ ~Ended(none)
        <3>1. none \in Queues /\ none = <<>> /\ me \in Joiners
            BY <2>1 DEF Queues
        <3>2. ~Ended(none)
            BY DEF Ended
        <3> HIDE DEF none, me
        <3> QED
            BY <3>1, <3>2, AllToldIs, FreshIs
    <2> HIDE DEF me, l, none
    <2> QED
        BY <2>3, <2>4, <2>5 DEF Follows, me
<1> QED
    BY <1>1, LobbyIsSound, PTL

(* No roster that arrives replaces a member in its slot, nor does a match   *)
(* start with another roster than its players were told of: a script hears  *)
(* joined and left of every change (changed_roster of lobby.rs compares     *)
(* slots only).                                                             *)
THEOREM ChangesAreTold == Spec => []NobodyChangesUntold
<1>1. Sound => NobodyChangesUntold
    BY DEF Sound, NobodyChangesUntold
<1> QED
    BY <1>1, LobbyIsSound, PTL
=============================================================================
