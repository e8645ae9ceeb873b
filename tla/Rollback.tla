----------------------------- MODULE Rollback ------------------------------
(***************************************************************************)
(* One rollback session and everything its API lets happen to it: inputs   *)
(* on time, late, repeated, corrected or out of range, players who leave,  *)
(* and advance, taken one run_tick at a time so that every state inside a  *)
(* re-simulation is a state of the model.                                  *)
(*                                                                         *)
(* advance holds the session exclusively: nothing is submitted between two *)
(* of its ticks, so submit and set_absent are guarded by Idle.             *)
(***************************************************************************)
EXTENDS Session

CONSTANTS
    Strangers,      \* players a peer may name that the session never had
    MaxTick,        \* bound: the last tick that is run
    MaxStale        \* bound: late calls stop once this many came too late

ASSUME MaxTickAssumption == MaxTick \in Nat

VARIABLES
    sess,           \* the Session
    cursor,         \* the tick advance runs next, NoTick outside advance
    resimulating    \* the Resimulating flag the engine's subsystems read

vars == <<sess, cursor, resimulating>>

Ticks == 0 .. MaxTick

Idle == cursor = NoTick

Init ==
    /\ sess = NewSession
    /\ cursor = NoTick
    /\ resimulating = FALSE

Submit(p, t, v) ==
    /\ Idle
    /\ sess.stale < MaxStale
    /\ sess' = SubmitTo(sess, p, t, v)
    /\ UNCHANGED <<cursor, resimulating>>

(* A player leaves once: play.rs marks a slot absent only while it is live.*)
SetAbsent(p, from) ==
    /\ Idle
    /\ sess.stale < MaxStale
    /\ p \notin DOMAIN sess.absent
    /\ sess' = SetAbsentOn(sess, p, from)
    /\ UNCHANGED <<cursor, resimulating>>

(* advance with nothing to run again, or with a mark the ring cannot       *)
(* answer: straight to the next tick.                                      *)
BeginNext ==
    /\ Idle
    /\ sess.next <= MaxTick
    /\ ~CanRewind(sess)
    /\ sess' = NotRewound(sess)
    /\ cursor' = sess.next
    /\ UNCHANGED resimulating

(* Mutant of BeginRewind: the first tick run again is one too early.       *)
BeginRewindEarly ==
    /\ Idle
    /\ sess.next <= MaxTick
    /\ CanRewind(sess)
    /\ sess' = Rewound(sess)
    /\ cursor' = sess.dirty - 1
    /\ resimulating' = TRUE

(* advance with a rollback due: restore, raise the flag.                   *)
BeginRewind ==
    /\ Idle
    /\ sess.next <= MaxTick
    /\ CanRewind(sess)
    /\ sess' = Rewound(sess)
    /\ cursor' = sess.dirty
    /\ resimulating' = (sess.dirty < sess.next)

(* One turn of resimulate's loop; the flag drops after the last.           *)
RunAgain ==
    /\ cursor # NoTick
    /\ cursor < sess.next
    /\ sess' = RunTickOn(sess, cursor)
    /\ cursor' = cursor + 1
    /\ resimulating' = (cursor + 1 < sess.next)

RunNext ==
    /\ cursor = sess.next
    /\ sess' = [RunTickOn(sess, cursor) EXCEPT !.next = @ + 1]
    /\ cursor' = NoTick
    /\ UNCHANGED resimulating

Next ==
    \/ \E p \in Players \union Strangers, t \in Ticks, v \in Input : Submit(p, t, v)
    \/ \E p \in Players, from \in Ticks : SetAbsent(p, from)
    \/ BeginNext
    \/ BeginRewind
    \/ RunAgain
    \/ RunNext

Spec == Init /\ [][Next]_vars

-----------------------------------------------------------------------------
(* Every variable holds a value of its kind: the session is a session, a   *)
(* journal names only players and ticks, and digests match the ring.       *)
TypeOK ==
    /\ IsSession(sess)
    /\ cursor \in Nat \union {NoTick}
    /\ resimulating \in BOOLEAN

-----------------------------------------------------------------------------
(* The tick below which everything that has arrived is played.             *)

Played == IF ~Idle THEN cursor ELSE IF sess.dirty # NoTick THEN sess.dirty ELSE sess.next

(* The ring is the unbroken run of ticks up to the last one run, and holds *)
(* as many of them as its capacity allows (CheckpointRing::push replaces   *)
(* what a re-run captures again, and drops the oldest only for a new tick).*)
RingIsRecent ==
    /\ DOMAIN sess.ring = {t \in 1 .. sess.next - 1 : t + Depth >= sess.next}
    /\ \A p \in Players : DOMAIN sess.ring \subseteq DOMAIN sess.used[p]

(* A tick marked to run again can be restored: resimulate's "the ring no   *)
(* longer holds" branch is left for an input naming tick 0 before any tick *)
(* has run. So no correction submit accepted is ever dropped.              *)
DirtyIsRestorable ==
    /\ sess.dirty # NoTick =>
        /\ Idle
        /\ \/ sess.dirty \in DOMAIN sess.ring
           \/ sess.dirty = 0 /\ sess.next = 1
    /\ ~Idle => cursor = sess.next \/ cursor \in DOMAIN sess.ring
    /\ resimulating <=> (~Idle /\ cursor < sess.next)

(* Every snapshot is the one before it stepped with the inputs recorded as *)
(* used, across any interleaving of rollbacks, and the live world is the   *)
(* last of them. The one gap is behind the cursor of a re-run, whose tick  *)
(* ahead of it still starts from the world about to be replaced.           *)
HistoryIsChained ==
    /\ \A t \in DOMAIN sess.ring :
        t + 1 \in DOMAIN sess.ring /\ t + 1 # cursor =>
            sess.ring[t + 1] = Step(sess.ring[t], RowOf(sess, t))
    /\ LET last == (IF Idle THEN sess.next ELSE cursor) - 1
       IN  IF last \in DOMAIN sess.ring
           THEN sess.world = Step(sess.ring[last], RowOf(sess, last))
           ELSE sess.world = IF last + 1 \in DOMAIN sess.ring THEN sess.ring[last + 1] ELSE Start

(* digest_at answers for every tick the ring holds, with the digest of the *)
(* world that tick led to when it last ran, however often it ran.          *)
DigestsAreOfTheLastRun ==
    \A t \in DOMAIN sess.ring : sess.digests[t] = Digest(Step(sess.ring[t], RowOf(sess, t)))

(* What confirmed claims: a tick below the dirty mark ran with the input   *)
(* that arrived, never with a prediction of it.                            *)
ArrivedIsPlayed ==
    \A p \in Players : \A t \in DOMAIN sess.ring \intersect DOMAIN sess.arrived[p] :
        t < Played => sess.used[p][t] = sess.arrived[p][t]

(* Until a correction comes too late, every tick still in the ring and not *)
(* due to run again played exactly what the session would decide now:      *)
(* arrivals, predictions from the arrivals before it, Nil for the absent.  *)
(* Pruning may not lose an input a prediction still rests on.              *)
PredictionsStand ==
    sess.stale = 0 =>
        \A p \in Players, t \in DOMAIN sess.ring :
            t < Played => sess.used[p][t] = InputFor(sess, p, t)

(* A tick the engine was told is settled never runs again: an effect that  *)
(* left the simulation on the strength of it (an achievement, a save)      *)
(* cannot be undone by a rollback, and the mark never moves back.          *)
SettledIsFinal ==
    [][/\ ~Idle' => cursor' >= sess'.clock.settled
       /\ sess.clock.settled <= sess'.clock.settled]_vars

(* The journal stays bounded however long the session runs: once a tick    *)
(* has run, a player has at most one entry below the ring, and none beyond *)
(* the window submit allows.                                               *)
Trimmed(journal) ==
    /\ Cardinality({t \in DOMAIN journal : BelowRing(sess, t)}) <= 1
    /\ \A t \in DOMAIN journal : t <= sess.next + Ahead

JournalIsTrimmed ==
    [][~Idle => \A p \in Players : Trimmed(sess.arrived[p])' /\ Trimmed(sess.used[p])']_vars

(* The settled past, as SettledHistory promises it: the world the oldest   *)
(* tick in the ring started from.                                          *)
SettledWorld ==
    IF DOMAIN sess.ring = {} THEN Start ELSE sess.ring[Min(DOMAIN sess.ring)]

History ==
    INSTANCE SettledHistory WITH settled <- SettledWorld, Rows <- [Players -> Input]

ImplementsSettledHistory == History!Spec
=============================================================================
