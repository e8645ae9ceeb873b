---------------------------- MODULE NetSession -----------------------------
(***************************************************************************)
(* Rollback sessions joined by links (balaur_net, netsession.rs): every    *)
(* peer plays one player, sends its input for the tick it is about to run  *)
(* as a datagram that repeats the last few, predicts the others, and       *)
(* compares digests of ticks that have settled. The links make a star:     *)
(* the host relays what it accepts (play.rs begin).                        *)
(*                                                                         *)
(* Datagrams may be lost, delayed and reordered; digests travel reliably   *)
(* and in order. A frame either advances one tick or only reads; which     *)
(* of what is in flight has arrived by then is up to the network.          *)
(***************************************************************************)
EXTENDS Session, SequencesExt

CONSTANTS
    Host,           \* the peer every other one is linked to
    Plays(_, _),    \* the inputs a player's game may hand in for a tick
    Window,         \* INPUT_WINDOW: ticks repeated in a datagram
    Lag,            \* CONFIRM_LAG: how far back digests are exchanged
    Slack,          \* LEAD_SLACK: how far a peer may outpace another
    MaxTick,        \* bound: the last tick that is run
    MaxFlight,      \* bound: a player's datagrams a link carries at once
    MaxLost         \* bound: how many more of them are lost

ASSUME HostAssumption == Host \in Players /\ IsFiniteSet(Players)
ASSUME PlaysAssumption == \A p \in Players, t \in 1 .. MaxTick : Plays(p, t) \subseteq Input
ASSUME PacingAssumption == /\ Window \in Nat \ {0} /\ Lag \in Nat /\ Slack \in Nat
                           /\ Depth <= Ahead
ASSUME BoundAssumption == MaxTick \in Nat /\ MaxLost \in Nat

VARIABLES
    peer,           \* each machine's NetSession
    datagrams,      \* the datagrams in flight
    published,      \* peer -> tick -> the digest it sent, reliably, to every link
    read,           \* peer -> link -> the last of those ticks it has read
    lost            \* how many datagrams were lost

vars == <<peer, datagrams, published, read, lost>>

Linked(p, q) == p # q /\ Host \in {p, q}

Links(p) == {q \in Players : Linked(p, q)}

(* A machine: its session, what it played (mine), the lead each open link  *)
(* last reported, the ticks whose digests were claimed on a link and are   *)
(* not compared yet, the last tick it took for settled (published in the   *)
(* code) and the tick it found its peers to disagree on.                   *)
NewPeer(p) ==
    [ sess      |-> NewSession,
      mine      |-> NoEntries,
      theirLead |-> [q \in Links(p) |-> 0],
      claimed   |-> {},
      settled   |-> 0,
      desync    |-> NoTick ]

OpenLinks(m) == DOMAIN m.theirLead

Init ==
    /\ peer = [p \in Players |-> NewPeer(p)]
    /\ datagrams = {}
    /\ published = [p \in Players |-> NoEntries]
    /\ read = [p \in Players |-> [q \in Links(p) |-> 0]]
    /\ lost = 0

-----------------------------------------------------------------------------
(* Pacing.                                                                 *)

NewestOf(s, q) == IF q \in DOMAIN s.newest THEN s.newest[q] ELSE 0

(* Mutant of Lead: a player who left is still waited for.                 *)
LeadOverAll(p, s) == s.next - Min({NewestOf(s, q) : q \in Players \ {p}})

Lead(p, s) ==
    LET others == {q \in Players \ {p} : IsPresent(s, q, s.next)}
    IN  IF others = {} THEN 0 ELSE s.next - Min({NewestOf(s, q) : q \in others})

(* Mutant of ShouldWait: never asked.                                      *)
NeverWait(p) == FALSE

ShouldWait(p) ==
    LET s == peer[p].sess
    IN  \/ Lead(p, s) >= Depth - Slack
        \/ \E q \in OpenLinks(peer[p]) :
            /\ IsPresent(s, q, s.next)
            /\ Lead(p, s) - peer[p].theirLead[q] > Slack

-----------------------------------------------------------------------------
(* Reading: read_peers and handle.                                         *)

(* Mutant of HearDatagram: only the newest input of a datagram is taken.   *)
HearTheNewest(m, d) ==
    [m EXCEPT !.sess = SubmitTo(@, d.player, d.tick, d.values[d.tick]),
              !.theirLead = IF d.link = d.player THEN [@ EXCEPT ![d.link] = d.lead] ELSE @]

(* Only a player's own datagrams tell how far ahead their machine runs.    *)
HearDatagram(m, d) ==
    LET heard[t \in d.first - 1 .. d.tick] ==
            IF t = d.first - 1 THEN m.sess
            ELSE Bind(heard[t - 1], LAMBDA s : SubmitTo(s, d.player, t, d.values[t]))
    IN  [m EXCEPT !.sess = heard[d.tick],
                  !.theirLead = IF d.link = d.player THEN [@ EXCEPT ![d.link] = d.lead] ELSE @]

HearDatagrams(m, heard) ==
    LET after[i \in 0 .. Len(heard)] ==
            IF i = 0 THEN m ELSE Bind(after[i - 1], LAMBDA n : HearDatagram(n, heard[i]))
    IN  after[Len(heard)]

HearDigests(m, p, upto) ==
    [m EXCEPT !.claimed = @ \union
        {k \in (1 .. MaxTick) \X Links(p) :
            /\ k[1] \in DOMAIN published[k[2]]
            /\ read[p][k[2]] < k[1] /\ k[1] <= upto[k[2]]}]

Hear(p, heard, upto) == HearDigests(HearDatagrams(peer[p], heard), p, upto)

(* A relaying host passes on each datagram as it came, but not back.       *)
Relayed(p, heard) ==
    IF p # Host THEN {}
    ELSE {[h[1] EXCEPT !.link = Host, !.to = h[2]] :
            h \in {x \in ToSet(heard) \X OpenLinks(peer[p]) : x[1].link # x[2]}}

-----------------------------------------------------------------------------
(* Sending: broadcast_inputs.                                              *)

(* Mutant of Sent: nothing is repeated.                                    *)
SentOnce(p, m) ==
    {[link |-> p, to |-> q, player |-> p, first |-> m.sess.next, tick |-> m.sess.next,
      values |-> From(m.sess.next, m.mine), lead |-> Lead(p, m.sess)] : q \in OpenLinks(m)}

Sent(p, m) ==
    LET tick  == m.sess.next
        first == IF tick > Window THEN tick - Window + 1 ELSE 1
    IN  {[link |-> p, to |-> q, player |-> p, first |-> first, tick |-> tick,
          values |-> From(first, m.mine), lead |-> Lead(p, m.sess)] : q \in OpenLinks(m)}

Pressed(p, m, v) ==
    [m EXCEPT !.mine = Put(@, m.sess.next, v),
              !.sess = SubmitTo(@, p, m.sess.next, v)]

-----------------------------------------------------------------------------
(* The desync check: exchange_digests and compare_claims.                  *)

(* Mutant of Over: the lag alone settles a tick.                           *)
OverByLag(s, t) == TRUE

(* Whether a tick is one to wait for no longer: every input arrived, or    *)
(* the ring dropped it and none ever will.                                 *)
Over(s, t) == Confirmed(s, t) \/ BelowRing(s, t)

SettledUpTo(m) ==
    LET limit == m.sess.next - (Lag + 1)
    IN  Max({m.settled} \union
            {t \in m.settled + 1 .. limit : \A u \in m.settled + 1 .. t : Over(m.sess, u)})

ToPublish(m) ==
    Restrict(m.sess.digests, {t \in DOMAIN m.sess.digests :
        Confirmed(m.sess, t) /\ m.settled < t /\ t <= SettledUpTo(m)})

(* One map with the entries of another added.                              *)
Joined(f, g) == [x \in DOMAIN f \union DOMAIN g |-> IF x \in DOMAIN g THEN g[x] ELSE f[x]]

(* Mutant of CompareClaims: whatever has a digest here is compared.        *)
CompareUnsettled(m) ==
    LET compared == {k \in m.claimed : k[1] \in DOMAIN m.sess.digests}
        wrong    == {k \in compared : published[k[2]][k[1]] # m.sess.digests[k[1]]}
    IN  [m EXCEPT !.claimed = @ \ compared,
                  !.desync = IF @ = NoTick /\ wrong # {} THEN Min({k[1] : k \in wrong}) ELSE @]

(* Mutant of CompareClaims: a claim whose digest is gone stops the rest.   *)
CompareUpToTheGone(m) ==
    LET here     == {k \in m.claimed : Over(m.sess, k[1]) /\ k[1] \in DOMAIN m.sess.digests}
        compared == {k \in here : \A j \in m.claimed \ here : k[1] < j[1]}
        wrong    == {k \in compared : published[k[2]][k[1]] # m.sess.digests[k[1]]}
    IN  [m EXCEPT !.claimed = @ \ compared,
                  !.desync = IF @ = NoTick /\ wrong # {} THEN Min({k[1] : k \in wrong}) ELSE @]

(* Claims are taken in tick order, up to the first tick not over here; one *)
(* for a tick whose digest is gone stays claimed while it is confirmed.    *)
CompareClaims(m) ==
    LET reached  == {k \in m.claimed : \A j \in m.claimed : ~Over(m.sess, j[1]) => k[1] < j[1]}
        sure     == {k \in reached : Confirmed(m.sess, k[1])}
        compared == {k \in sure : k[1] \in DOMAIN m.sess.digests}
        wrong    == {k \in compared : published[k[2]][k[1]] # m.sess.digests[k[1]]}
    IN  [m EXCEPT !.claimed = (@ \ reached) \union (sure \ compared),
                  !.desync = IF @ = NoTick /\ wrong # {} THEN Min({k[1] : k \in wrong}) ELSE @]

Exchanged(m) ==
    IF m.sess.next <= Lag THEN m ELSE CompareClaims([m EXCEPT !.settled = SettledUpTo(m)])

-----------------------------------------------------------------------------
(* What has arrived by the time a peer reads: datagrams in any order, each *)
(* link's digests in the order they were sent.                             *)
Inbox(p) == {d \in datagrams : d.to = p /\ d.link \in OpenLinks(peer[p])}

Arrivals(p) == SetToAllKPermutations(Inbox(p))

Reads(p) ==
    {upto \in [Links(p) -> 0 .. MaxTick] : \A q \in Links(p) :
        \/ upto[q] = read[p][q]
        \/ /\ q \in OpenLinks(peer[p])
           /\ upto[q] > read[p][q]
           /\ upto[q] \in DOMAIN published[q]}

(* A link that is full loses the oldest of what it carries for a player.   *)
Carried(sent) ==
    {d \in sent : MaxFlight > Cardinality({e \in sent :
        e.link = d.link /\ e.to = d.to /\ e.player = d.player /\ e.tick > d.tick})}

(* advance: read, send this tick's input, run the tick (rolling back first *)
(* when something asks for it), exchange digests. drive does not call it   *)
(* on a peer that should wait. Settle(m) is what the match does between    *)
(* ticks.                                                                  *)
AdvanceThen(p, heard, upto, v, Settle(_)) ==
    /\ peer[p].sess.next <= MaxTick
    /\ ~ShouldWait(p)
    /\ \E pressed \in {Pressed(p, Hear(p, heard, upto), v)} :
       \E ran \in {[pressed EXCEPT !.sess = AdvanceOf(@)]} :
        /\ peer' = [peer EXCEPT ![p] = Settle(Exchanged(ran))]
        /\ published' = [published EXCEPT ![p] = Joined(@, ToPublish(ran))]
        /\ datagrams' = Carried((datagrams \ ToSet(heard)) \union Relayed(p, heard)
                                                          \union Sent(p, pressed))
    /\ read' = [read EXCEPT ![p] = upto]
    /\ UNCHANGED lost

(* poll: a frame that owes no tick, or waits, only reads.                  *)
PollThen(p, heard, upto, Settle(_)) ==
    /\ peer' = [peer EXCEPT ![p] = Settle(Hear(p, heard, upto))]
    /\ datagrams' = Carried((datagrams \ ToSet(heard)) \union Relayed(p, heard))
    /\ read' = [read EXCEPT ![p] = upto]
    /\ UNCHANGED <<published, lost>>

Advance(p, heard, upto, v) == AdvanceThen(p, heard, upto, v, LAMBDA m : m)

Poll(p, heard, upto) ==
    /\ heard # <<>> \/ upto # read[p]
    /\ PollThen(p, heard, upto, LAMBDA m : m)

Lose(d) ==
    /\ lost < MaxLost
    /\ datagrams' = datagrams \ {d}
    /\ lost' = lost + 1
    /\ UNCHANGED <<peer, published, read>>

Next ==
    \/ \E p \in Players : \E heard \in Arrivals(p), upto \in Reads(p) :
        \/ \E v \in Plays(p, peer[p].sess.next) : Advance(p, heard, upto, v)
        \/ Poll(p, heard, upto)
    \/ \E d \in datagrams : Lose(d)

Spec == Init /\ [][Next]_vars

-----------------------------------------------------------------------------
(* Every machine's state, and what is between them, is of its kind.        *)
TypeOK ==
    /\ \A p \in Players :
        /\ IsSession(peer[p].sess)
        /\ DOMAIN peer[p].mine = 1 .. peer[p].sess.next - 1
        /\ \A t \in DOMAIN peer[p].mine : peer[p].mine[t] \in Plays(p, t)
        /\ \E open \in SUBSET Links(p) : peer[p].theirLead \in [open -> Int]
        /\ peer[p].claimed \subseteq (1 .. MaxTick) \X Links(p)
        /\ \A k \in peer[p].claimed : k[1] \in DOMAIN published[k[2]]
        /\ peer[p].settled \in 0 .. MaxTick
        /\ peer[p].desync \in Nat \union {NoTick}
        /\ DOMAIN published[p] \subseteq 1 .. peer[p].settled
        /\ read[p] \in [Links(p) -> 0 .. MaxTick]
    /\ \A d \in datagrams : Linked(d.link, d.to) /\ DOMAIN d.values = d.first .. d.tick
    /\ lost \in 0 .. MaxLost

(* How far a run lets datagrams go missing: a machine that makes an input  *)
(* has, by then, been heard by every other within its last Window ticks.   *)
(* Windows of 2 * (Depth - Slack - 1) or more leave a run no choice; with  *)
(* the code's 12 at a depth of 16 it is what the network has to grant.     *)
HeardInTime ==
    [][\A p, q \in Players : peer'[p].sess.next # peer[p].sess.next =>
          peer[p].sess.next - NewestOf(peer[q].sess, p) <= Window]_vars

(* What repeating the last inputs buys: whatever is lost or reordered, no  *)
(* input is missing behind a newer one, for any tick that can still run    *)
(* again. Holds of the runs that are HeardInTime.                          *)
GapsAreRepaired ==
    \A p, q \in Players :
        LET s == peer[p].sess
        IN  \A t \in 1 .. NewestOf(s, q) : BelowRing(s, t) \/ t \in DOMAIN s.arrived[q]

(* What waiting buys: the next input to come from any player is for a tick *)
(* not run yet, or one the ring can still answer for.                      *)
LateInputsAreAnswerable ==
    \A p, q \in Players :
        LET s == peer[p].sess
        IN  NewestOf(s, q) + 1 >= s.next \/ NewestOf(s, q) + 1 \in DOMAIN s.ring

(* A digest a peer published is never rewritten by a later correction.     *)
PublishedIsFinal ==
    \A p \in Players : \A t \in DOMAIN published[p] \intersect DOMAIN peer[p].sess.digests :
        published[p][t] = peer[p].sess.digests[t]

(* Peers that play the same game are never told they disagree: not by a    *)
(* late input, a lost one, a digest that overtakes inputs, or predictions  *)
(* the two made differently.                                               *)
NoFalseAlarm == \A p \in Players : peer[p].desync = NoTick

(* The digest of every tick a peer settles is sent, in order, for as long  *)
(* as the ring is deeper than the lag. A ring no deeper (the settings take *)
(* 4, and CONFIRM_LAG is 4) has dropped a tick by the time it settles, and *)
(* the desync check is silent for the whole match.                         *)
SettledIsPublished ==
    \A p \in Players :
        DOMAIN published[p] = IF Depth > Lag THEN 1 .. peer[p].settled ELSE {}

(* What a peer may compare at the end of a tick: what it held, what it read. *)
KnownClaims(p) ==
    peer[p].claimed \union {k \in (1 .. MaxTick) \X Links(p) :
        /\ k[1] \in DOMAIN published[k[2]]
        /\ read[p][k[2]] < k[1] /\ k[1] <= read'[p][k[2]]}

(* No claim is passed over: after a tick, each one a peer knew of was      *)
(* compared, and told of if it differs, unless a claim no later is still   *)
(* open here or its digest has left the ring. One whose digest is gone is  *)
(* never compared: nothing else hides a claim.                             *)
ClaimsAreCompared ==
    [][\A p \in Players : peer'[p].sess.next # peer[p].sess.next /\ peer'[p].sess.next > Lag =>
        LET s == peer'[p].sess
            Gone(k) == k[1] \notin DOMAIN s.digests
            Open(k) == \E j \in KnownClaims(p) : j[1] <= k[1] /\ ~Over(s, j[1])
        IN  \A k \in KnownClaims(p) :
                IF k \in peer'[p].claimed THEN Gone(k) \/ Open(k)
                ELSE \/ Gone(k)
                     \/ /\ ~Open(k)
                        /\ \/ published[k[2]][k[1]] = s.digests[k[1]]
                           \/ peer'[p].desync # NoTick]_vars

(* "a lost input is a misprediction the session repairs rather than a      *)
(* stall it waits out" (balaur_net/tests/suite/faults.rs): while a match   *)
(* goes on, some peer may run its next tick or something is in flight.     *)
NeverStalled ==
    \/ datagrams # {}
    \/ \E p \in Players : peer[p].sess.next > MaxTick \/ ~ShouldWait(p)

(* The oldest tick a session can go back to, and the world before it.      *)
OldestTick(s) == IF DOMAIN s.ring = {} THEN 1 ELSE Min(DOMAIN s.ring)

OldestWorld(s) == IF DOMAIN s.ring = {} THEN Start ELSE s.ring[OldestTick(s)]

(* Underneath the predictions it is lockstep: the worlds peers can no      *)
(* longer take back are steps of one game, each tick with the inputs its   *)
(* players really made.                                                    *)
Game ==
    INSTANCE Lockstep WITH
        played <- [p \in Players |-> peer[p].mine],
        tick   <- [p \in Players |-> OldestTick(peer[p].sess)],
        world  <- [p \in Players |-> OldestWorld(peer[p].sess)]

ImplementsLockstep == Game!Spec
=============================================================================
