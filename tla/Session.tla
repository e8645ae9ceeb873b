------------------------------ MODULE Session ------------------------------
(***************************************************************************)
(* The rollback session of balaur_core (rollback.rs): one peer's tick      *)
(* number, its ring of world snapshots and its journal of inputs, as       *)
(* operators on a record. Rollback.tla drives one session through every    *)
(* order of calls its API allows; NetSession.tla gives one to each peer.   *)
(*                                                                         *)
(* A session s is a record:                                                *)
(*   next     the tick the next advance runs                               *)
(*   world    the app's simulated state                                    *)
(*   ring     tick -> the world that tick started from                     *)
(*   arrived  player -> tick -> the input that arrived                     *)
(*   used     player -> tick -> the input the tick ran with                *)
(*   dirty    the earliest tick to run again, or NoTick                    *)
(*   stale    how many corrections came too late                           *)
(*   digests  tick -> what the world digested to after it                  *)
(*   absent   player -> the first tick they no longer play                 *)
(*   newest   player -> the newest tick an input arrived for               *)
(*   clock    what the engine is told: the tick running, and the tick      *)
(*            before which nothing can be taken back (NoTick until the     *)
(*            first tick: u64::MAX in the code, everything is final)       *)
(***************************************************************************)
EXTENDS Integers, FiniteSets, FiniteSetsExt, Functions

CONSTANTS
    Players,        \* the players of the session
    Input,          \* the values a game may hand in, Nil among them
    Nil,            \* Value::Nil: what an absent player plays
    Depth,          \* ticks of history the ring keeps
    Ahead,          \* INPUT_WINDOW: how far ahead an input may name a tick
    Start,          \* the world before tick 1
    Step(_, _),     \* one deterministic tick: the world and a row of inputs
    Digest(_)       \* what two peers compare of a world

ASSUME DepthAssumption == Depth \in Nat \ {0}
ASSUME AheadAssumption == Ahead \in Nat
ASSUME NilAssumption == Nil \in Input

NoTick == -1

NoEntries == [t \in {} |-> Nil]

-----------------------------------------------------------------------------
(* Maps, as the code's BTreeMaps and its snapshot ring use them.           *)

Put(f, k, v) == [x \in DOMAIN f \union {k} |-> IF x = k THEN v ELSE f[x]]

(* Mutants of Push: one that makes room before it looks for the tick, and  *)
(* one that keeps the first snapshot of a tick that runs again.            *)
PushDroppingFirst(ring, t, w) ==
    IF Cardinality(DOMAIN ring) = Depth
    THEN Put(Restrict(ring, DOMAIN ring \ {Min(DOMAIN ring)}), t, w)
    ELSE Put(ring, t, w)

PushOnce(ring, t, w) == IF t \in DOMAIN ring THEN ring ELSE PushDroppingFirst(ring, t, w)

(* CheckpointRing::push. Ticks are pushed in rising order, so the front of *)
(* the deque, the entry a full ring drops, is the smallest tick in it.     *)
Push(ring, t, w) ==
    IF t \notin DOMAIN ring /\ Cardinality(DOMAIN ring) = Depth
    THEN Put(Restrict(ring, DOMAIN ring \ {Min(DOMAIN ring)}), t, w)
    ELSE Put(ring, t, w)

(* Mutant of From: nothing is ever forgotten.                              *)
FromTheStart(first, f) == f

From(first, f) == Restrict(f, {t \in DOMAIN f : t >= first})

(* Mutant of Prune: a quiet player's last input goes with the rest.        *)
PruneAll(journal, first) == From(first, journal)

(* prune: drop what is below the ring, but keep the newest of those.       *)
Prune(journal, first) ==
    Restrict(journal, {t \in DOMAIN journal :
        t < first => \A u \in DOMAIN journal : u < first => u <= t})

-----------------------------------------------------------------------------
(* The values a session's fields take. A world is the game's own.          *)
Fields == {"next", "world", "ring", "arrived", "used", "dirty", "stale",
           "digests", "absent", "newest", "clock"}

IsJournal(journal) ==
    /\ DOMAIN journal = Players
    /\ \A p \in Players :
        /\ DOMAIN journal[p] \subseteq Nat
        /\ \A t \in DOMAIN journal[p] : journal[p][t] \in Input

IsSession(s) ==
    /\ DOMAIN s = Fields
    /\ s.next \in Nat \ {0}
    /\ s.dirty \in Nat \union {NoTick}
    /\ s.stale \in Nat
    /\ DOMAIN s.ring \subseteq Nat
    /\ DOMAIN s.digests = DOMAIN s.ring
    /\ IsJournal(s.arrived)
    /\ IsJournal(s.used)
    /\ DOMAIN s.absent \subseteq Players
    /\ \A p \in DOMAIN s.absent : s.absent[p] \in Nat

-----------------------------------------------------------------------------
(* What a session says of itself.                                          *)

IsPresent(s, p, t) == p \in DOMAIN s.absent => t < s.absent[p]

(* Whether t fell off the ring. An empty ring has no earliest tick.        *)
BelowRing(s, t) == DOMAIN s.ring # {} /\ \A e \in DOMAIN s.ring : t < e

(* Mutant of Confirmed: one input is enough.                               *)
ConfirmedBySome(s, t) == \E p \in Players : t \in DOMAIN s.arrived[p]

Confirmed(s, t) ==
    \A p \in Players : IsPresent(s, p, t) => t \in DOMAIN s.arrived[p]

(* The player's most recent input before t, or Nil.                        *)
Predict(s, p, t) ==
    LET before == {u \in DOMAIN s.arrived[p] : u < t}
    IN  IF before = {} THEN Nil ELSE s.arrived[p][Max(before)]

InputFor(s, p, t) ==
    IF ~IsPresent(s, p, t) THEN Nil
    ELSE IF t \in DOMAIN s.arrived[p] THEN s.arrived[p][t]
    ELSE Predict(s, p, t)

(* inputs_for: the row of inputs tick t would run with now.                *)
DecidedRow(s, t) == [p \in Players |-> InputFor(s, p, t)]

(* The inputs tick t last ran with.                                        *)
RowOf(s, t) == [p \in Players |-> s.used[p][t]]

-----------------------------------------------------------------------------
(* The operations.                                                         *)

NewSession ==
    [ next    |-> 1,
      world   |-> Start,
      ring    |-> NoEntries,
      arrived |-> [p \in Players |-> NoEntries],
      used    |-> [p \in Players |-> NoEntries],
      dirty   |-> NoTick,
      stale   |-> 0,
      digests |-> NoEntries,
      absent  |-> NoEntries,
      newest  |-> NoEntries,
      clock   |-> [tick |-> 0, settled |-> NoTick] ]

(* Mutants of MarkDirty: one that marks ticks the ring has dropped, and    *)
(* one that forgets the mark already there.                                *)
MarkDirtyUnchecked(s, t) == [s EXCEPT !.dirty = IF @ = NoTick \/ t < @ THEN t ELSE @]

MarkDirtyLatest(s, t) ==
    IF BelowRing(s, t) THEN [s EXCEPT !.stale = @ + 1] ELSE [s EXCEPT !.dirty = t]

(* Tick t ran with an input now known to be wrong: too late when the ring  *)
(* has dropped t, otherwise the next advance runs again from there.        *)
MarkDirty(s, t) ==
    IF BelowRing(s, t) THEN [s EXCEPT !.stale = @ + 1]
    ELSE [s EXCEPT !.dirty = IF @ = NoTick \/ t < @ THEN t ELSE @]

(* Mutant of Refused: any tick is taken, however far ahead.                *)
RefusedByName(s, p, t) == p \notin Players \/ ~IsPresent(s, p, t)

Refused(s, p, t) == p \notin Players \/ t > s.next + Ahead \/ ~IsPresent(s, p, t)

SubmitTo(s, p, t, v) ==
    LET changed == t \notin DOMAIN s.used[p] \/ s.used[p][t] # v
        newest  == IF p \in DOMAIN s.newest /\ t < s.newest[p] THEN s.newest[p] ELSE t
        noted   == [s EXCEPT !.newest = Put(@, p, newest),
                             !.arrived[p] = Put(@, t, v)]
    IN  IF Refused(s, p, t) THEN s
        ELSE IF t < s.next /\ changed THEN MarkDirty(noted, t)
        ELSE noted

SetAbsentOn(s, p, from) ==
    LET left  == [s EXCEPT !.absent = Put(@, p, from),
                           !.arrived[p] = Restrict(@, {t \in DOMAIN @ : t < from})]
        wrong == {t \in DOMAIN s.used[p] : t >= from /\ s.used[p][t] # Nil}
    IN  IF p \notin Players THEN s
        ELSE IF wrong = {} THEN left
        ELSE MarkDirty(left, Min(wrong))

(* run_tick: snapshot the world, decide the inputs, tick the app, digest,  *)
(* then forget what the ring can no longer answer for.                     *)
RunTickOn(s, t) ==
    LET ring  == Push(s.ring, t, s.world)
        first == Min(DOMAIN ring)
        world == Step(s.world, DecidedRow(s, t))
    IN  [s EXCEPT
            !.ring    = ring,
            !.clock   = [tick |-> t, settled |-> first],
            !.world   = world,
            !.used    = [p \in Players |-> Prune(Put(s.used[p], t, InputFor(s, p, t)), first)],
            !.arrived = [p \in Players |-> Prune(s.arrived[p], first)],
            !.digests = From(first, Put(s.digests, t, Digest(world)))]

(* What advance does before its first tick: take the dirty mark, and when  *)
(* the ring still holds that tick, put the world back to it.               *)
CanRewind(s) == s.dirty # NoTick /\ s.dirty \in DOMAIN s.ring

(* Mutants of Rewound: the world is not put back, or put back too far.     *)
RewoundInPlace(s) == [s EXCEPT !.dirty = NoTick]

RewoundToTheOldest(s) == [s EXCEPT !.dirty = NoTick, !.world = s.ring[Min(DOMAIN s.ring)]]

Rewound(s) == [s EXCEPT !.dirty = NoTick, !.world = s.ring[s.dirty]]

NotRewound(s) ==
    [s EXCEPT !.dirty = NoTick, !.stale = IF s.dirty = NoTick THEN @ ELSE @ + 1]

(* F(x). TLC evaluates x once, where it would evaluate an argument of F at *)
(* each use.                                                               *)
Bind(x, F(_)) == CHOOSE y \in {F(z) : z \in {x}} : TRUE

(* advance, whole: rewind, run every tick since again, then the next one.  *)
AdvanceOf(s) ==
    LET begun == IF CanRewind(s) THEN Rewound(s) ELSE NotRewound(s)
        first == IF CanRewind(s) THEN s.dirty ELSE s.next
        ran[t \in first .. s.next + 1] ==
            IF t = first THEN begun ELSE Bind(ran[t - 1], LAMBDA r : RunTickOn(r, t - 1))
    IN  [ran[s.next + 1] EXCEPT !.next = @ + 1]
=============================================================================
