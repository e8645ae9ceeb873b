------------------------------ MODULE HttpProofs ------------------------------
(***************************************************************************)
(* The worker pool and the HTTP requests over it, proved for any number of *)
(* requests and threads and for recordings of any length.                  *)
(*                                                                         *)
(* The order: every step of Http is a step of the pool, leaves it alone or *)
(* begins a process with a new one; what draining reports and doing again  *)
(* what scripts did make of the books of requests, report by report; every *)
(* request is in one place of the pipeline and its outcome is expected by  *)
(* the books (serving); the books of a recorded run are a function of its  *)
(* file, so that playing the file goes through them again (playing).       *)
(***************************************************************************)
EXTENDS Http, Stepwise, FiniteSetTheorems, SequenceTheorems

-----------------------------------------------------------------------------
(***************************************************************************)
(* The pool: any jobs, threads and submitting threads, any limit and any   *)
(* number of threads that do not start.                                    *)
(*                                                                         *)
(* That no job is stranded rests on what the two counters count: a submit  *)
(* decides by them alone, before the thread it counts has started and      *)
(* while sleepers it counts as idle may already be notified.               *)
(***************************************************************************)
Counted == {"ready", "busy", "asleep", "woken"}
Idlers == {"asleep", "woken"}
Starters == {"spawn"}

(* How many of D are somewhere in S.                                        *)
CountIn(f, D, S) == Cardinality({x \in D : f[x] \in S})

One(b) == IF b THEN 1 ELSE 0

Live == CountIn(thread, Threads, Counted)
Resting == CountIn(thread, Threads, Idlers)
Starting == CountIn(caller, Callers, Starters)

(* workers counts threads before they start; idle, until they have the lock.*)
CountsAreTrue ==
    /\ workers = Live + Starting
    /\ idle = Resting
    /\ workers <= Limit

(* A pool that was given work and refused no thread has one.                *)
WorkHasAWorker == taken # {} /\ failures = 0 /\ ~closed => workers > 0

OnlyTheClosedEnd == \A t \in Threads : thread[t] = "ended" => closed

WaitingIsTaken ==
    /\ closed => waiting = <<>>
    /\ taken = {} => waiting = <<>>

Inv == /\ PoolTypeOK /\ CountsAreTrue /\ WorkHasAWorker
       /\ OnlyTheClosedEnd /\ WaitingIsTaken

-----------------------------------------------------------------------------
(* How one update of a function moves the count of what maps into a set.    *)
LEMMA CountMoves ==
    ASSUME NEW D, IsFiniteSet(D), NEW d \in D, NEW f, NEW g, NEW S,
           \A x \in D \ {d} : g[x] = f[x]
    PROVE  CountIn(g, D, S) =
             CountIn(f, D, S) + One(g[d] \in S) - One(f[d] \in S)
<1> DEFINE A == {x \in D : f[x] \in S}
           B == {x \in D : g[x] \in S}
<1>1. IsFiniteSet(A) /\ Cardinality(A) \in Nat
    BY FS_Subset, FS_CardinalityType, A \in SUBSET D
<1>2. d \in A <=> f[d] \in S
    OBVIOUS
<1>3. Cardinality(B) =
        Cardinality(A) + One(g[d] \in S) - One(f[d] \in S)
    <2>1. CASE g[d] \in S
        <3>1. B = A \union {d}
            BY <2>1
        <3>2. Cardinality(B) = IF d \in A THEN Cardinality(A) ELSE Cardinality(A) + 1
            BY <1>1, <3>1, FS_AddElement
        <3> HIDE DEF A, B
        <3> QED
            BY <1>1, <1>2, <2>1, <3>2 DEF One
    <2>2. CASE g[d] \notin S
        <3>1. B = A \ {d}
            BY <2>2
        <3>2. Cardinality(B) = IF d \in A THEN Cardinality(A) - 1 ELSE Cardinality(A)
            BY <1>1, <3>1, FS_RemoveElement
        <3> HIDE DEF A, B
        <3> QED
            BY <1>1, <1>2, <2>2, <3>2 DEF One
    <2> QED
        BY <2>1, <2>2
<1> QED
    BY <1>3 DEF CountIn

(* The counts of the pool are numbers, and who rests is live.               *)
LEMMA CountsAreNumbers ==
    /\ Live \in Nat /\ Resting \in Nat /\ Starting \in Nat
    /\ Resting <= Live
<1> DEFINE L == {x \in Threads : thread[x] \in Counted}
           R == {x \in Threads : thread[x] \in Idlers}
           P == {x \in Callers : caller[x] \in Starters}
<1>1. L \in SUBSET Threads /\ R \in SUBSET L /\ P \in SUBSET Callers
    BY DEF Counted, Idlers
<1>2. IsFiniteSet(L) /\ IsFiniteSet(P)
    BY <1>1, PoolConstants, FS_Subset
<1>3. IsFiniteSet(R) /\ Cardinality(R) <= Cardinality(L)
    BY <1>1, <1>2, FS_Subset
<1>4. Cardinality(L) \in Nat /\ Cardinality(R) \in Nat /\ Cardinality(P) \in Nat
    BY <1>2, <1>3, FS_CardinalityType
<1> QED
    BY <1>3, <1>4 DEF Live, Resting, Starting, CountIn

LEMMA ThreadMoves ==
    ASSUME NEW t \in Threads, \A x \in Threads \ {t} : thread'[x] = thread[x]
    PROVE  /\ Live' = Live + One(thread'[t] \in Counted) - One(thread[t] \in Counted)
           /\ Resting' = Resting + One(thread'[t] \in Idlers) - One(thread[t] \in Idlers)
<1>1. CountIn(thread', Threads, Counted) =
        CountIn(thread, Threads, Counted)
        + One(thread'[t] \in Counted) - One(thread[t] \in Counted)
    BY CountMoves, PoolConstants
<1>2. CountIn(thread', Threads, Idlers) =
        CountIn(thread, Threads, Idlers)
        + One(thread'[t] \in Idlers) - One(thread[t] \in Idlers)
    BY CountMoves, PoolConstants
<1> QED
    BY <1>1, <1>2 DEF Live, Resting

LEMMA CallerMoves ==
    ASSUME NEW c \in Callers, \A x \in Callers \ {c} : caller'[x] = caller[x]
    PROVE  Starting' = Starting + One(caller'[c] \in Starters) - One(caller[c] \in Starters)
<1>1. CountIn(caller', Callers, Starters) =
        CountIn(caller, Callers, Starters)
        + One(caller'[c] \in Starters) - One(caller[c] \in Starters)
    BY CountMoves, PoolConstants
<1> QED
    BY <1>1 DEF Starting

(* What a step leaves alone keeps its counts.                               *)
LEMMA CountsStay ==
    /\ thread' = thread => Live' = Live /\ Resting' = Resting
    /\ caller' = caller => Starting' = Starting
BY DEF Live, Resting, Starting

-----------------------------------------------------------------------------
LEMMA InvInit == PoolInit => Inv
<1> SUFFICES ASSUME PoolInit PROVE Inv
    OBVIOUS
<1>1. PoolTypeOK /\ waiting = <<>> /\ workers = 0 /\ idle = 0
    <2>1. waiting \in Seq(Jobs)
        BY DEF PoolInit
    <2>2. thread \in [Threads -> ThreadStates] /\ job \in [Threads -> Jobs \union {NoJob}]
        BY DEF PoolInit, ThreadStates
    <2>3. caller \in [Callers -> CallerStates]
        BY DEF PoolInit, CallerStates
    <2>4. closed \in BOOLEAN
        BY DEF PoolInit
    <2>5. waiting = <<>> /\ workers = 0 /\ idle = 0 /\ taken = {} /\ failures = 0
        BY DEF PoolInit
    <2> QED
        BY <2>1, <2>2, <2>3, <2>4, <2>5 DEF PoolTypeOK
<1>2. /\ \A t \in Threads : thread[t] = "none"
      /\ \A c \in Callers : caller[c] = "rest"
    BY DEF PoolInit
<1>3. Live = 0 /\ Resting = 0 /\ Starting = 0
    <2>1. /\ {t \in Threads : thread[t] \in Counted} = {}
          /\ {t \in Threads : thread[t] \in Idlers} = {}
          /\ {c \in Callers : caller[c] \in Starters} = {}
        BY <1>2 DEF Counted, Idlers, Starters
    <2> QED
        BY <2>1, FS_EmptySet DEF Live, Resting, Starting, CountIn
<1>4. CountsAreTrue
    BY <1>1, <1>3, PoolConstants DEF CountsAreTrue
<1>5. WorkHasAWorker /\ OnlyTheClosedEnd /\ WaitingIsTaken
    BY <1>1, <1>2 DEF PoolInit, WorkHasAWorker, OnlyTheClosedEnd, WaitingIsTaken
<1> QED
    BY <1>1, <1>4, <1>5 DEF Inv

(* No step takes the state out of its types.                                *)
LEMMA TypeStep == PoolTypeOK /\ [PoolNext]_poolVars => PoolTypeOK'
<1> SUFFICES ASSUME PoolTypeOK, [PoolNext]_poolVars PROVE PoolTypeOK'
    OBVIOUS
<1> USE DEF PoolTypeOK, ThreadStates, CallerStates
<1>1. ASSUME NEW c \in Callers, NEW j \in Jobs, Submit(c, j) PROVE PoolTypeOK'
    BY <1>1 DEF Submit, Wants
<1>2. ASSUME NEW c \in Callers, NEW t \in Threads, Spawn(c, t) PROVE PoolTypeOK'
    BY <1>2 DEF Spawn
<1>3. ASSUME NEW c \in Callers, SpawnFails(c) PROVE PoolTypeOK'
    BY <1>3 DEF SpawnFails
<1>4. ASSUME NEW c \in Callers, NotifyOne(c) PROVE PoolTypeOK'
    BY <1>4 DEF NotifyOne
<1>5. ASSUME NEW c \in Callers, Close(c) PROVE PoolTypeOK'
    BY <1>5 DEF Close
<1>6. ASSUME NEW c \in Callers, NotifyAll(c) PROVE PoolTypeOK'
    BY <1>6 DEF NotifyAll
<1>7. ASSUME NEW t \in Threads, End(t) PROVE PoolTypeOK'
    BY <1>7 DEF End, IdleNow
<1>8. ASSUME NEW t \in Threads, Take(t) PROVE PoolTypeOK'
    BY <1>8 DEF Take, IdleNow
<1>9. ASSUME NEW t \in Threads, Sleep(t) PROVE PoolTypeOK'
    BY <1>9 DEF Sleep, IdleNow
<1>10. ASSUME NEW t \in Threads, Stir(t) PROVE PoolTypeOK'
    BY <1>10 DEF Stir
<1>11. ASSUME NEW t \in Threads, Finish(t) PROVE PoolTypeOK'
    BY <1>11 DEF Finish
<1>12. CASE UNCHANGED poolVars
    BY <1>12 DEF poolVars
<1> QED
    BY <1>1, <1>2, <1>3, <1>4, <1>5, <1>6, <1>7, <1>8, <1>9, <1>10, <1>11, <1>12
       DEF PoolNext, Call, Work

(* The counters follow the threads and the submits through every step.      *)
LEMMA CountsStep == Inv /\ [PoolNext]_poolVars => CountsAreTrue'
<1> SUFFICES ASSUME Inv, [PoolNext]_poolVars PROVE CountsAreTrue'
    OBVIOUS
<1>0. /\ PoolTypeOK /\ CountsAreTrue
      /\ Live \in Nat /\ Resting \in Nat /\ Starting \in Nat /\ Resting <= Live
      /\ Limit \in Nat
    BY CountsAreNumbers, PoolConstants DEF Inv
<1> USE DEF CountsAreTrue, PoolTypeOK, One, Counted, Idlers, Starters
<1>1. ASSUME NEW c \in Callers, NEW j \in Jobs, Submit(c, j) PROVE CountsAreTrue'
    <2>1. Live' = Live /\ Resting' = Resting
        BY <1>1, CountsStay DEF Submit
    <2>2. Starting' = Starting + One(caller'[c] \in Starters) - One(caller[c] \in Starters)
        BY <1>0, <1>1, CallerMoves DEF Submit
    <2>3. caller[c] = "rest" /\ caller'[c] = IF Wants THEN "spawn" ELSE "one"
        BY <1>0, <1>1 DEF Submit
    <2> QED
        BY <1>0, <1>1, <2>1, <2>2, <2>3 DEF Submit, Wants
<1>2. ASSUME NEW c \in Callers, NEW t \in Threads, Spawn(c, t) PROVE CountsAreTrue'
    <2>1. /\ Live' = Live + One(thread'[t] \in Counted) - One(thread[t] \in Counted)
          /\ Resting' = Resting + One(thread'[t] \in Idlers) - One(thread[t] \in Idlers)
        BY <1>0, <1>2, ThreadMoves DEF Spawn
    <2>2. Starting' = Starting + One(caller'[c] \in Starters) - One(caller[c] \in Starters)
        BY <1>0, <1>2, CallerMoves DEF Spawn
    <2>3. /\ thread[t] = "none" /\ thread'[t] = "ready"
          /\ caller[c] = "spawn" /\ caller'[c] = "one"
        BY <1>0, <1>2 DEF Spawn
    <2> QED
        BY <1>0, <1>2, <2>1, <2>2, <2>3 DEF Spawn
<1>3. ASSUME NEW c \in Callers, SpawnFails(c) PROVE CountsAreTrue'
    <2>1. Live' = Live /\ Resting' = Resting
        BY <1>3, CountsStay DEF SpawnFails
    <2>2. Starting' = Starting + One(caller'[c] \in Starters) - One(caller[c] \in Starters)
        BY <1>0, <1>3, CallerMoves DEF SpawnFails
    <2>3. caller[c] = "spawn" /\ caller'[c] = "one"
        BY <1>0, <1>3 DEF SpawnFails
    <2> QED
        BY <1>0, <1>3, <2>1, <2>2, <2>3 DEF SpawnFails
<1>4. ASSUME NEW c \in Callers, NotifyOne(c) PROVE CountsAreTrue'
    <2>1. Starting' = Starting
        <3>1. Starting' = Starting + One(caller'[c] \in Starters) - One(caller[c] \in Starters)
            BY <1>0, <1>4, CallerMoves DEF NotifyOne
        <3>2. caller[c] = "one" /\ caller'[c] = "rest"
            BY <1>0, <1>4 DEF NotifyOne
        <3> QED
            BY <1>0, <3>1, <3>2
    <2>2. Live' = Live /\ Resting' = Resting
        <3>1. CASE thread' = thread
            BY <3>1, CountsStay
        <3>2. CASE thread' # thread
            <4>1. PICK t \in Threads : /\ thread[t] = "asleep"
                                       /\ thread' = [thread EXCEPT ![t] = "woken"]
                BY <1>4, <3>2 DEF NotifyOne
            <4>2. /\ Live' = Live + One(thread'[t] \in Counted) - One(thread[t] \in Counted)
                  /\ Resting' = Resting + One(thread'[t] \in Idlers) - One(thread[t] \in Idlers)
                BY <1>0, <4>1, ThreadMoves
            <4>3. thread'[t] = "woken"
                BY <1>0, <4>1
            <4> QED
                BY <1>0, <4>1, <4>2, <4>3
        <3> QED
            BY <3>1, <3>2
    <2> QED
        BY <1>0, <1>4, <2>1, <2>2 DEF NotifyOne
<1>5. ASSUME NEW c \in Callers, Close(c) PROVE CountsAreTrue'
    <2>1. Live' = Live /\ Resting' = Resting
        BY <1>5, CountsStay DEF Close
    <2>2. Starting' = Starting + One(caller'[c] \in Starters) - One(caller[c] \in Starters)
        BY <1>0, <1>5, CallerMoves DEF Close
    <2>3. caller[c] = "rest" /\ caller'[c] = "all"
        BY <1>0, <1>5 DEF Close
    <2> QED
        BY <1>0, <1>5, <2>1, <2>2, <2>3 DEF Close
<1>6. ASSUME NEW c \in Callers, NotifyAll(c) PROVE CountsAreTrue'
    <2>1. Starting' = Starting + One(caller'[c] \in Starters) - One(caller[c] \in Starters)
        BY <1>0, <1>6, CallerMoves DEF NotifyAll
    <2>2. caller[c] = "all" /\ caller'[c] = "rest"
        BY <1>0, <1>6 DEF NotifyAll
    <2>3. /\ {t \in Threads : thread'[t] \in Counted} = {t \in Threads : thread[t] \in Counted}
          /\ {t \in Threads : thread'[t] \in Idlers} = {t \in Threads : thread[t] \in Idlers}
        BY <1>6 DEF NotifyAll
    <2>4. Live' = Live /\ Resting' = Resting
        BY <2>3 DEF Live, Resting, CountIn
    <2> QED
        BY <1>0, <1>6, <2>1, <2>2, <2>4 DEF NotifyAll
<1>7. ASSUME NEW t \in Threads, Work(t) PROVE CountsAreTrue'
    <2>1. Starting' = Starting
        BY <1>7, CountsStay DEF Work, End, Take, Sleep, Stir, Finish
    <2>2. /\ Live' = Live + One(thread'[t] \in Counted) - One(thread[t] \in Counted)
          /\ Resting' = Resting + One(thread'[t] \in Idlers) - One(thread[t] \in Idlers)
        BY <1>0, <1>7, ThreadMoves DEF Work, End, Take, Sleep, Stir, Finish
    <2>3. CASE End(t)
        <3>1. thread[t] \in {"ready", "woken"} /\ thread'[t] = "ended"
            BY <1>0, <2>3 DEF End, HasLock
        <3> QED
            BY <1>0, <2>1, <2>2, <2>3, <3>1 DEF End, IdleNow
    <2>4. CASE Take(t)
        <3>1. thread[t] \in {"ready", "woken"} /\ thread'[t] = "busy"
            BY <1>0, <2>4 DEF Take, HasLock
        <3> QED
            BY <1>0, <2>1, <2>2, <2>4, <3>1 DEF Take, IdleNow
    <2>5. CASE Sleep(t)
        <3>1. thread[t] \in {"ready", "woken"} /\ thread'[t] = "asleep"
            BY <1>0, <2>5 DEF Sleep, HasLock
        <3> QED
            BY <1>0, <2>1, <2>2, <2>5, <3>1 DEF Sleep, IdleNow
    <2>6. CASE Stir(t)
        <3>1. thread[t] = "asleep" /\ thread'[t] = "woken"
            BY <1>0, <2>6 DEF Stir
        <3> QED
            BY <1>0, <2>1, <2>2, <2>6, <3>1 DEF Stir
    <2>7. CASE Finish(t)
        <3>1. thread[t] = "busy" /\ thread'[t] = "ready"
            BY <1>0, <2>7 DEF Finish
        <3> QED
            BY <1>0, <2>1, <2>2, <2>7, <3>1 DEF Finish
    <2> QED
        BY <1>7, <2>3, <2>4, <2>5, <2>6, <2>7 DEF Work
<1>8. CASE UNCHANGED poolVars
    BY <1>0, <1>8, CountsStay DEF poolVars
<1> QED
    BY <1>1, <1>2, <1>3, <1>4, <1>5, <1>6, <1>7, <1>8 DEF PoolNext, Call

(* What else the promise rests on.                                          *)
LEMMA InvStep == Inv /\ [PoolNext]_poolVars => Inv'
<1> SUFFICES ASSUME Inv, [PoolNext]_poolVars PROVE Inv'
    OBVIOUS
<1>1. PoolTypeOK' /\ CountsAreTrue'
    BY TypeStep, CountsStep DEF Inv
<1>2. WorkHasAWorker'
    <2>0. /\ workers = Live + Starting /\ idle = Resting /\ workers \in Int
          /\ Live \in Nat /\ Resting \in Nat /\ Starting \in Nat /\ Resting <= Live
          /\ Limit \in Nat \ {0} /\ failures \in Nat
        BY CountsAreNumbers, PoolConstants DEF Inv, CountsAreTrue, PoolTypeOK
    <2> USE DEF Inv, WorkHasAWorker
    <2>1. ASSUME NEW c \in Callers, NEW j \in Jobs, Submit(c, j) PROVE WorkHasAWorker'
        BY <2>0, <2>1 DEF Submit, Wants
    <2>2. ASSUME NEW c \in Callers, SpawnFails(c) PROVE WorkHasAWorker'
        BY <2>0, <2>2 DEF SpawnFails
    <2>3. ASSUME NEW c \in Callers, Close(c) PROVE WorkHasAWorker'
        BY <2>3 DEF Close
    <2>4. ASSUME NEW c \in Callers,
                 NotifyOne(c) \/ NotifyAll(c) \/ \E t \in Threads : Spawn(c, t)
          PROVE  WorkHasAWorker'
        BY <2>4 DEF NotifyOne, NotifyAll, Spawn
    <2>5. ASSUME NEW t \in Threads, Work(t) PROVE WorkHasAWorker'
        BY <2>5 DEF Work, End, Take, Sleep, Stir, Finish
    <2>6. CASE UNCHANGED poolVars
        BY <2>6 DEF poolVars
    <2> QED
        BY <2>1, <2>2, <2>3, <2>4, <2>5, <2>6 DEF PoolNext, Call
<1>3. OnlyTheClosedEnd'
    <2> USE DEF Inv, PoolTypeOK, OnlyTheClosedEnd
    <2>1. ASSUME NEW c \in Callers, Call(c) PROVE OnlyTheClosedEnd'
        BY <2>1 DEF Call, Submit, Spawn, SpawnFails, NotifyOne, Close, NotifyAll
    <2>2. ASSUME NEW t \in Threads, Work(t) PROVE OnlyTheClosedEnd'
        BY <2>2 DEF Work, End, Take, Sleep, Stir, Finish
    <2> QED
        BY <2>1, <2>2 DEF PoolNext, poolVars
<1>4. WaitingIsTaken'
    <2> USE DEF Inv, PoolTypeOK, WaitingIsTaken
    <2>1. ASSUME NEW c \in Callers, Call(c) PROVE WaitingIsTaken'
        BY <2>1 DEF Call, Submit, Spawn, SpawnFails, NotifyOne, Close, NotifyAll
    <2>2. ASSUME NEW t \in Threads, Work(t) PROVE WaitingIsTaken'
        BY <2>2 DEF Work, End, Take, Sleep, Stir, Finish
    <2> QED
        BY <2>1, <2>2 DEF PoolNext, poolVars
<1> QED
    BY <1>1, <1>2, <1>3, <1>4 DEF Inv

LEMMA PoolInvariant == PoolSpec => []Inv
BY InvInit, InvStep, PTL DEF PoolSpec

-----------------------------------------------------------------------------
(* The state of a pool is always of its kind: a job a thread runs is one    *)
(* that was submitted, a submit is at one of its steps (task.rs submit, work).*)
THEOREM PoolTypeCorrect == PoolSpec => []PoolTypeOK
<1>1. Inv => PoolTypeOK
    BY DEF Inv
<1> QED
    BY <1>1, PoolInvariant, PTL

(* However many threads submit, and whichever threads do not start, no more *)
(* jobs run at once than the limit (task.rs submit).                        *)
THEOREM PoolLimitIsKept == PoolSpec => []LimitIsKept
<1>1. Inv => LimitIsKept
    <2> SUFFICES ASSUME Inv PROVE LimitIsKept
        OBVIOUS
    <2> DEFINE L == {t \in Threads : thread[t] \in Counted}
               B == {t \in Threads : thread[t] = "busy"}
    <2>1. B \in SUBSET L /\ L \in SUBSET Threads
        BY DEF Counted
    <2>2. IsFiniteSet(L)
        BY <2>1, PoolConstants, FS_Subset
    <2>3. Cardinality(B) <= Cardinality(L) /\ Cardinality(B) \in Nat
        BY <2>1, <2>2, FS_Subset, FS_CardinalityType
    <2>4. Cardinality(L) = Live
        BY DEF Live, CountIn
    <2>5. Live <= Limit
        BY CountsAreNumbers, PoolConstants DEF Inv, CountsAreTrue
    <2> HIDE DEF L, B
    <2>6. Cardinality(B) <= Limit
        BY <2>3, <2>4, <2>5, CountsAreNumbers, PoolConstants
    <2> QED
        BY <2>6 DEF B, LimitIsKept
<1> QED
    BY <1>1, PoolInvariant, PTL

(* The step that matters is the notify that ends a submit and finds nobody  *)
(* asleep: if nobody is awake either there is no thread at all, and by the  *)
(* counts and WorkHasAWorker the system refused one.                        *)
LEMMA StrandedStep == Inv /\ NobodyIsStranded /\ [PoolNext]_poolVars => NobodyIsStranded'
<1> SUFFICES ASSUME Inv, NobodyIsStranded, [PoolNext]_poolVars PROVE NobodyIsStranded'
    OBVIOUS
<1>0. Inv' /\ PoolTypeOK /\ PoolTypeOK' /\ WaitingIsTaken'
    BY InvStep DEF Inv
<1> USE DEF NobodyIsStranded, PoolTypeOK
<1>1. ASSUME NEW c \in Callers, NEW j \in Jobs, Submit(c, j) PROVE NobodyIsStranded'
    <2>1. caller'[c] \in {"spawn", "one"}
        BY <1>0, <1>1 DEF Submit
    <2> QED
        BY <2>1
<1>2. ASSUME NEW c \in Callers, SpawnFails(c) \/ \E t \in Threads : Spawn(c, t)
      PROVE  NobodyIsStranded'
    <2>1. caller'[c] = "one"
        BY <1>0, <1>2 DEF SpawnFails, Spawn
    <2> QED
        BY <2>1
<1>3. ASSUME NEW c \in Callers, NotifyOne(c) PROVE NobodyIsStranded'
    <2>1. CASE \E t \in Threads : thread[t] = "asleep"
        <3>1. PICK t \in Threads : thread' = [thread EXCEPT ![t] = "woken"]
            BY <1>3, <2>1 DEF NotifyOne
        <3>2. thread'[t] = "woken"
            BY <1>0, <3>1
        <3> QED
            BY <3>2
    <2>2. CASE ~\E t \in Threads : thread[t] = "asleep"
        <3>1. thread' = thread
            BY <1>3, <2>2 DEF NotifyOne
        <3> SUFFICES ASSUME waiting' # <<>>,
                            ~\E t \in Threads : thread'[t] \in {"ready", "woken", "busy"},
                            ~\E d \in Callers : caller'[d] \in {"spawn", "one"}
                     PROVE  failures' > 0 /\ workers' = 0
            OBVIOUS
        <3>2. {t \in Threads : thread'[t] \in Counted} = {}
            BY <2>2, <3>1 DEF Counted
        <3>3. {d \in Callers : caller'[d] \in Starters} = {}
            BY DEF Starters
        <3>4. Live' = 0 /\ Starting' = 0
            BY <3>2, <3>3, FS_EmptySet DEF Live, Starting, CountIn
        <3>5. workers' = 0
            BY <1>0, <3>4 DEF Inv, CountsAreTrue
        <3>6. failures' > 0
            BY <1>0, <3>5 DEF Inv, WaitingIsTaken, WorkHasAWorker
        <3> QED
            BY <3>5, <3>6
    <2> QED
        BY <2>1, <2>2
<1>4. ASSUME NEW c \in Callers, Close(c) PROVE NobodyIsStranded'
    BY <1>4 DEF Close
<1>5. ASSUME NEW c \in Callers, NotifyAll(c) PROVE NobodyIsStranded'
    <2>1. /\ waiting' = waiting /\ workers' = workers /\ failures' = failures
          /\ \A t \in Threads : thread[t] \in {"ready", "woken", "busy"} =>
                thread'[t] = thread[t]
          /\ \A d \in Callers : caller[d] \in {"spawn", "one"} => caller'[d] = caller[d]
        BY <1>0, <1>5 DEF NotifyAll
    <2> QED
        BY <2>1
<1>6. ASSUME NEW t \in Threads, End(t) PROVE NobodyIsStranded'
    BY <1>6 DEF End, Inv, WaitingIsTaken
<1>7. ASSUME NEW t \in Threads, Take(t) \/ Stir(t) \/ Finish(t) PROVE NobodyIsStranded'
    <2>1. thread'[t] \in {"ready", "woken", "busy"}
        BY <1>0, <1>7 DEF Take, Stir, Finish
    <2> QED
        BY <2>1
<1>8. ASSUME NEW t \in Threads, Sleep(t) PROVE NobodyIsStranded'
    BY <1>8 DEF Sleep
<1>9. CASE UNCHANGED poolVars
    BY <1>9 DEF poolVars
<1> QED
    BY <1>1, <1>2, <1>3, <1>4, <1>5, <1>6, <1>7, <1>8, <1>9 DEF PoolNext, Call, Work

(* A job waits only while something will look at the queue again: no notify *)
(* is lost between a submit that counts an idle worker and the sleep of     *)
(* that worker (task.rs submit, work).                                      *)
THEOREM PoolStrandsNobody == PoolSpec => []NobodyIsStranded
<1>1. PoolInit => NobodyIsStranded
    BY DEF PoolInit, NobodyIsStranded
<1> QED
    BY <1>1, PoolInvariant, StrandedStep, PTL DEF PoolSpec

-----------------------------------------------------------------------------
(* The requests over it.                                                   *)

(* A step that is the pool's keeps its invariant, with what it promises.    *)
Held == Inv /\ NobodyIsStranded

LEMMA HeldInit == PoolInit => Held
<1>1. PoolInit => NobodyIsStranded
    BY DEF PoolInit, NobodyIsStranded
<1> QED
    BY <1>1, InvInit DEF Held

LEMMA HeldStep == Held /\ [PoolNext]_poolVars => Held'
BY InvStep, StrandedStep DEF Held

(* The pool of a process that plays a recording is a new one.               *)
LEMMA HeldAnew == Replay => Held'
<1> SUFFICES ASSUME Replay PROVE Held'
    OBVIOUS
<1>1. PoolInit'
    BY DEF Replay, PoolInit
<1>2. (PoolInit => Held)'
    BY HeldInit, PTL
<1> QED
    BY <1>1, <1>2

LEMMA HttpStepsThePool ==
    ASSUME [Next]_vars
    PROVE  [PoolNext]_poolVars \/ Replay
<1>1. Main \in Callers
    BY HttpConstants DEF HttpConstants
<1>2. ASSUME NEW t \in Threads, Start(t) PROVE PoolNext
    BY <1>2 DEF Start, PoolNext, Work
<1>3. ASSUME NEW t \in Threads, JobEnds(t) PROVE PoolNext
    BY <1>3 DEF JobEnds, PoolNext, Work
<1>4. ASSUME NEW t \in Threads, Progress(t) \/ Outcome(t) \/ Panics(t) \/ Wake(t) \/ Hook(t)
      PROVE  UNCHANGED poolVars
    BY <1>4 DEF Progress, Outcome, Panics, Wake, Hook
<1>5. ASSUME PoolStep PROVE PoolNext
    <2>1. CASE \E t \in Threads : End(t) \/ Sleep(t) \/ Stir(t)
        BY <2>1 DEF PoolNext, Work
    <2>2. CASE \/ \E t \in Threads : Spawn(Main, t)
               \/ SpawnFails(Main) \/ NotifyOne(Main) \/ NotifyAll(Main)
        BY <1>1, <2>2 DEF PoolNext, Call
    <2> QED
        BY <1>5, <2>1, <2>2 DEF PoolStep
<1>6. ASSUME Request PROVE PoolNext
    BY <1>1, <1>6 DEF Request, PoolNext, Call
<1>7. ASSUME Quit PROVE PoolNext
    BY <1>1, <1>7 DEF Quit, PoolNext, Call
<1>8. ASSUME Owed \/ Waits \/ Roused \/ Input \/ EndFrame \/ Hold \/ Resume
      PROVE  UNCHANGED poolVars
    BY <1>8 DEF Owed, Waits, Roused, Input, EndFrame, Hold, Resume
<1>9. ASSUME Pump PROVE UNCHANGED poolVars
    BY <1>9 DEF Pump
<1>10. ASSUME NEW r \in Jobs, Cancel(r) PROVE UNCHANGED poolVars
    BY <1>10 DEF Cancel
<1>11. ASSUME NEW pauses \in BOOLEAN, Feed(pauses) PROVE UNCHANGED poolVars
    BY <1>11 DEF Feed
<1>12. CASE UNCHANGED vars
    BY <1>12 DEF vars
<1> QED
    BY <1>2, <1>3, <1>4, <1>5, <1>6, <1>7, <1>8, <1>9, <1>10, <1>11, <1>12 DEF Next

(* No request waits in a queue nobody will look at, whatever is cancelled,  *)
(* however frames and workers interleave and whenever a recording is played *)
(* (task.rs under request of balaur_http).                                  *)
THEOREM HttpStrandsNobody == Spec => []NobodyIsStranded
<1>1. Init => Held
    BY HeldInit DEF Init
<1>2. Held /\ [Next]_vars => Held'
    BY HttpStepsThePool, HeldStep, HeldAnew
<1>3. Held => NobodyIsStranded
    BY DEF Held
<1> QED
    BY <1>1, <1>2, <1>3, PTL DEF Spec

-----------------------------------------------------------------------------
(* Where a job is that its worker has yet to report the outcome of.         *)
Unsent == {"going", "over", "progressed", "hooking"}
Working == {job[t] : t \in {u \in Threads : stage[u] \in Unsent}}
Coming == ToSet(waiting) \union Working

Once(seq) == \A i, k \in DOMAIN seq : seq[i] = seq[k] => i = k

LastsOf(events) == {events[i].of : i \in {k \in DOMAIN events : events[k].last}}
LastOnce(events) ==
    \A i, k \in DOMAIN events :
        events[i].last /\ events[k].last /\ events[i].of = events[k].of => i = k

Reports == [of : Jobs, last : BOOLEAN]
Tales == [of : Jobs, kind : {"reply", "progress", "cancelled"}]
Commands == [op : {"request", "cancel"}, of : Jobs]

(* Every request is in one place: in the queue, with one worker, or in the  *)
(* channel with its outcome.                                                *)
Pipeline ==
    /\ stage \in [Threads -> Stages]
    /\ \A t \in Threads : stage[t] = "out" <=> thread[t] # "busy"
    /\ \A t \in Threads : thread[t] = "busy" => job[t] \in taken \ ToSet(waiting)
    /\ \A t, u \in Threads : thread[t] = "busy" /\ thread[u] = "busy" /\ job[t] = job[u] => t = u
    /\ ToSet(waiting) \subseteq taken /\ Once(waiting)
    /\ channel \in Seq(Reports) /\ LastOnce(channel)
    /\ LastsOf(channel) \subseteq taken \ Coming

(* What the state of the requests says of each.                             *)
Books(b) ==
    /\ b \in [inFlight : SUBSET Jobs, cancelled : SUBSET Jobs, now : Seq(Jobs),
              answers : [Jobs -> {0, 1}], told : Seq(Tales)]
    /\ Once(b.now)
    /\ b.inFlight \intersect (b.cancelled \union ToSet(b.now)) = {}
    /\ \A r \in b.inFlight \union ToSet(b.now) : b.answers[r] = 0

(* A request whose outcome is to come is in flight or noted as cancelled.   *)
Accounts ==
    /\ Coming \union LastsOf(channel) \subseteq inFlight \union cancelled
    /\ inFlight \union cancelled \union ToSet(justNow) \subseteq taken
    /\ \A r \in Jobs \ taken : answers[r] = 0

Fresh == [inFlight |-> {}, cancelled |-> {}, now |-> <<>>,
          answers |-> [r \in Jobs |-> 0], told |-> <<>>]

(* What a frame does to that state.                                         *)
Ran(b, f) == [Redone(Pumped(b, f.arrivals), f.did) EXCEPT !.told = <<>>]

Frames == [arrivals : Seq(Reports), did : Seq(Commands), told : Seq(Tales)]

(* past is the states a run that is recorded went through.                  *)
Past(past) ==
    /\ file \in Seq(Frames) /\ DOMAIN past = 0..Len(file)
    /\ past[0] = Fresh
    /\ \A k \in 0..Len(file) : Books(past[k]) /\ past[k].told = <<>>
    /\ \A k \in 1..Len(file) :
          /\ past[k] = Ran(past[k - 1], file[k])
          /\ file[k].told = Pumped(past[k - 1], file[k].arrivals).told

(* A run that is recorded has got to where its file says.                   *)
Recorded(past) ==
    LET last == past[Len(file)]
    IN  IF loop = "scripts"
        THEN /\ frame \in Frames /\ State = Ran(last, frame)
             /\ frame.told = Pumped(last, frame.arrivals).told
        ELSE State = last

(* A run that is played is where the recorded one was at that frame, or has *)
(* told already what the next frame would have told first.                  *)
Played(b) ==
    \/ State = b /\ held = {}
    \/ /\ State = [Opened(b) EXCEPT !.told = <<>>]
       /\ held = ToSet(Opened(b).told)

-----------------------------------------------------------------------------
(* Draining the channel, and doing again what scripts did, step by step.    *)
Book == [inFlight : SUBSET Jobs, cancelled : SUBSET Jobs, now : Seq(Jobs),
         answers : [Jobs -> Nat], told : Seq(Tales)]

(* Books that say the same of the requests.                                 *)
Alike(v, w) ==
    /\ v.inFlight = w.inFlight /\ v.cancelled = w.cancelled
    /\ v.now = w.now /\ v.answers = w.answers

LEMMA ArrivedIs ==
    ASSUME NEW w \in Book, NEW e \in Reports
    PROVE  /\ Arrived(w, e) \in Book /\ Arrived(w, e).now = w.now
           /\ e.of \in w.cancelled =>
                 /\ Arrived(w, e).cancelled = IF e.last THEN w.cancelled \ {e.of} ELSE w.cancelled
                 /\ Arrived(w, e).inFlight = w.inFlight /\ Arrived(w, e).answers = w.answers
                 /\ Arrived(w, e).told = w.told
           /\ e.of \notin w.cancelled =>
                 /\ Arrived(w, e).cancelled = w.cancelled
                 /\ Arrived(w, e).inFlight = IF e.last THEN w.inFlight \ {e.of} ELSE w.inFlight
                 /\ Arrived(w, e).answers =
                      IF e.last THEN [w.answers EXCEPT ![e.of] = @ + 1] ELSE w.answers
                 /\ \E tale \in Tales : /\ tale = Told(e.of, IF e.last THEN "reply" ELSE "progress")
                                        /\ Arrived(w, e).told = Append(w.told, tale)
<1>1. e.of \in Jobs /\ e.last \in BOOLEAN
    BY DEF Reports
<1>2. Told(e.of, "reply") \in Tales /\ Told(e.of, "progress") \in Tales
    BY <1>1 DEF Told, Tales
<1>3. /\ w.inFlight \in SUBSET Jobs /\ w.cancelled \in SUBSET Jobs /\ w.told \in Seq(Tales)
      /\ w.answers \in [Jobs -> Nat] /\ w.now \in Seq(Jobs)
    BY DEF Book
<1>4. CASE e.of \in w.cancelled
    BY <1>3, <1>4 DEF Arrived, Book
<1>5. CASE e.of \notin w.cancelled /\ e.last
    <2> DEFINE told == Append(w.told, Told(e.of, "reply"))
               count == [w.answers EXCEPT ![e.of] = @ + 1]
    <2>1. told \in Seq(Tales) /\ count \in [Jobs -> Nat] /\ w.inFlight \ {e.of} \in SUBSET Jobs
        BY <1>1, <1>2, <1>3
    <2>2. Arrived(w, e) = [w EXCEPT !.told = told, !.inFlight = @ \ {e.of}, !.answers = count]
        BY <1>5 DEF Arrived, Book
    <2> HIDE DEF told, count
    <2>3. /\ Arrived(w, e) \in Book /\ Arrived(w, e).now = w.now
          /\ Arrived(w, e).cancelled = w.cancelled /\ Arrived(w, e).inFlight = w.inFlight \ {e.of}
          /\ Arrived(w, e).answers = count /\ Arrived(w, e).told = told
        BY <2>1, <2>2 DEF Book
    <2> QED
        BY <1>2, <1>5, <2>3 DEF told, count
<1>6. CASE e.of \notin w.cancelled /\ ~e.last
    <2> DEFINE told == Append(w.told, Told(e.of, "progress"))
    <2>1. told \in Seq(Tales)
        BY <1>1, <1>2, <1>3
    <2>2. Arrived(w, e) = [w EXCEPT !.told = told]
        BY <1>6 DEF Arrived, Book
    <2> HIDE DEF told
    <2>3. /\ Arrived(w, e) \in Book /\ Arrived(w, e).now = w.now
          /\ Arrived(w, e).cancelled = w.cancelled /\ Arrived(w, e).inFlight = w.inFlight
          /\ Arrived(w, e).answers = w.answers /\ Arrived(w, e).told = told
        BY <2>1, <2>2 DEF Book
    <2> QED
        BY <1>2, <1>6, <2>3 DEF told
<1> QED
    BY <1>1, <1>4, <1>5, <1>6

LEMMA AgainIs ==
    ASSUME NEW w \in Book, NEW c \in Commands
    PROVE  /\ Again(w, c) \in Book
           /\ Again(w, c).told = w.told /\ Again(w, c).answers = w.answers
           /\ c.op = "request" => /\ Again(w, c).inFlight = w.inFlight \union {c.of}
                                  /\ Again(w, c).cancelled = w.cancelled
                                  /\ Again(w, c).now = w.now
           /\ c.op # "request" => /\ Again(w, c).inFlight = w.inFlight \ {c.of}
                                  /\ Again(w, c).cancelled = w.cancelled \union {c.of}
                                  /\ Again(w, c).now = Append(w.now, c.of)
<1>1. c.of \in Jobs
    BY DEF Commands
<1>2. /\ w.inFlight \in SUBSET Jobs /\ w.cancelled \in SUBSET Jobs /\ w.now \in Seq(Jobs)
      /\ Append(w.now, c.of) \in Seq(Jobs)
    BY <1>1 DEF Book
<1> QED
    BY <1>1, <1>2 DEF Again, Cancelled, Book

LEMMA BookSteps ==
    ASSUME NEW w \in Book, NEW n \in Nat, NEW G \in [1 .. n -> [Book -> Book]]
    PROVE  \E f \in [0 .. n -> Book] : f[0] = w /\ \A i \in 1 .. n : f[i] = G[i][f[i - 1]]
BY StepsExist

LEMMA DrainSteps ==
    ASSUME NEW w \in Book, NEW events \in Seq(Reports)
    PROVE  \E f \in [0 .. Len(events) -> Book] :
              /\ f[0] = w /\ \A i \in 1 .. Len(events) : f[i] = Arrived(f[i - 1], events[i])
              /\ Drained(w, events) = f[Len(events)]
<1> DEFINE n == Len(events)
           F(f) == f = [i \in 0 .. n |-> IF i = 0 THEN w ELSE Arrived(f[i - 1], events[i])]
           after == CHOOSE f : F(f)
<1>1. n \in Nat /\ \A i \in 1 .. n : events[i] \in Reports
    OBVIOUS
<1>2. PICK G \in [1 .. n -> [Book -> Book]] :
          \A i \in 1 .. n : \A x \in Book : G[i][x] = Arrived(x, events[i])
    <2> DEFINE G == [i \in 1 .. n |-> [x \in Book |-> Arrived(x, events[i])]]
    <2>1. G \in [1 .. n -> [Book -> Book]]
        BY <1>1, ArrivedIs
    <2>2. \A i \in 1 .. n : \A x \in Book : G[i][x] = Arrived(x, events[i])
        OBVIOUS
    <2> HIDE DEF G
    <2> QED
        BY <2>1, <2>2
<1>30. PICK f \in [0 .. n -> Book] : f[0] = w /\ \A i \in 1 .. n : f[i] = G[i][f[i - 1]]
    <2>1. n \in Nat /\ w \in Book /\ G \in [1 .. n -> [Book -> Book]]
        BY <1>1, <1>2
    <2> HIDE DEF n
    <2> QED
        BY <2>1, BookSteps
<1>4. \A i \in 1 .. n : i \in 0 .. n /\ i - 1 \in 0 .. n /\ i # 0
    BY <1>1
<1>5. \A i \in 1 .. n : f[i] = Arrived(f[i - 1], events[i])
    BY <1>2, <1>30, <1>4
<1>6. \A i \in 0 .. n : i = 0 \/ i \in 1 .. n
    BY <1>1
<1> HIDE DEF n
<1>70. \A i \in 0 .. n : f[i] = IF i = 0 THEN w ELSE Arrived(f[i - 1], events[i])
    BY <1>30, <1>5, <1>6
<1>7. f = [i \in 0 .. n |-> IF i = 0 THEN w ELSE Arrived(f[i - 1], events[i])]
    BY <1>70
<1>8. F(f)
    BY <1>7
<1>9. Drained(w, events) = after[n]
    BY DEF Drained, n
<1> HIDE DEF F
<1>10. F(after)
    BY <1>8
<1>11. after = [i \in 0 .. n |-> IF i = 0 THEN w ELSE Arrived(after[i - 1], events[i])]
    BY <1>10 DEF F
<1> HIDE DEF after
<1>12. after[0] = w /\ \A i \in 1 .. n : after[i] = Arrived(after[i - 1], events[i])
    BY <1>1, <1>4, <1>11
<1> DEFINE P == {i \in 0 .. n : after[i] \in Book}
<1>13. ASSUME NEW i \in 0 .. n - 1, i \in P PROVE i + 1 \in P
    <2>1. i + 1 \in 1 .. n /\ i + 1 \in 0 .. n /\ i + 1 - 1 = i
        BY <1>1
    <2>2. after[i + 1] = Arrived(after[i], events[i + 1])
        BY <1>12, <2>1
    <2>3. after[i] \in Book
        BY <1>13
    <2>4. events[i + 1] \in Reports
        BY <1>1, <2>1
    <2>5. after[i + 1] \in Book
        BY <2>2, <2>3, <2>4, ArrivedIs
    <2> QED
        BY <2>1, <2>5
<1>14. 0 .. n \subseteq P
    <2>1. 0 \in P
        BY <1>1, <1>12
    <2> HIDE DEF P
    <2> QED
        BY <1>1, <1>13, <2>1, StepByStep
<1>15. after \in [0 .. n -> Book]
    BY <1>11, <1>14
<1> QED
    BY <1>9, <1>12, <1>15 DEF n

LEMMA RedoneSteps ==
    ASSUME NEW w \in Book, NEW commands \in Seq(Commands)
    PROVE  \E f \in [0 .. Len(commands) -> Book] :
              /\ f[0] = w /\ \A i \in 1 .. Len(commands) : f[i] = Again(f[i - 1], commands[i])
              /\ Redone(w, commands) = f[Len(commands)]
<1> DEFINE n == Len(commands)
           F(f) == f = [i \in 0 .. n |-> IF i = 0 THEN w ELSE Again(f[i - 1], commands[i])]
           after == CHOOSE f : F(f)
<1>1. n \in Nat /\ \A i \in 1 .. n : commands[i] \in Commands
    OBVIOUS
<1>2. PICK G \in [1 .. n -> [Book -> Book]] :
          \A i \in 1 .. n : \A x \in Book : G[i][x] = Again(x, commands[i])
    <2> DEFINE G == [i \in 1 .. n |-> [x \in Book |-> Again(x, commands[i])]]
    <2>1. G \in [1 .. n -> [Book -> Book]]
        BY <1>1, AgainIs
    <2>2. \A i \in 1 .. n : \A x \in Book : G[i][x] = Again(x, commands[i])
        OBVIOUS
    <2> HIDE DEF G
    <2> QED
        BY <2>1, <2>2
<1>3. PICK f \in [0 .. n -> Book] : f[0] = w /\ \A i \in 1 .. n : f[i] = G[i][f[i - 1]]
    <2>1. n \in Nat /\ w \in Book /\ G \in [1 .. n -> [Book -> Book]]
        BY <1>1, <1>2
    <2> HIDE DEF n
    <2> QED
        BY <2>1, BookSteps
<1>4. \A i \in 1 .. n : i \in 0 .. n /\ i - 1 \in 0 .. n /\ i # 0
    BY <1>1
<1>5. \A i \in 1 .. n : f[i] = Again(f[i - 1], commands[i])
    BY <1>2, <1>3, <1>4
<1>6. \A i \in 0 .. n : i = 0 \/ i \in 1 .. n
    BY <1>1
<1> HIDE DEF n
<1>7. \A i \in 0 .. n : f[i] = IF i = 0 THEN w ELSE Again(f[i - 1], commands[i])
    BY <1>3, <1>5, <1>6
<1>8. f = [i \in 0 .. n |-> IF i = 0 THEN w ELSE Again(f[i - 1], commands[i])]
    BY <1>3, <1>7
<1>9. F(f)
    BY <1>8
<1>10. Redone(w, commands) = after[n]
    BY DEF Redone, n
<1> HIDE DEF F
<1>11. F(after)
    BY <1>9
<1>12. after = [i \in 0 .. n |-> IF i = 0 THEN w ELSE Again(after[i - 1], commands[i])]
    BY <1>11 DEF F
<1> HIDE DEF after
<1>13. after[0] = w /\ \A i \in 1 .. n : after[i] = Again(after[i - 1], commands[i])
    BY <1>1, <1>4, <1>12
<1> DEFINE P == {i \in 0 .. n : after[i] \in Book}
<1>14. ASSUME NEW i \in 0 .. n - 1, i \in P PROVE i + 1 \in P
    <2>1. i + 1 \in 1 .. n /\ i + 1 \in 0 .. n /\ i + 1 - 1 = i
        BY <1>1
    <2>2. after[i + 1] = Again(after[i], commands[i + 1])
        BY <1>13, <2>1
    <2>3. after[i] \in Book
        BY <1>14
    <2>4. commands[i + 1] \in Commands
        BY <1>1, <2>1
    <2>5. after[i + 1] \in Book
        BY <2>2, <2>3, <2>4, AgainIs
    <2> QED
        BY <2>1, <2>5
<1>15. 0 .. n \subseteq P
    <2>1. 0 \in P
        BY <1>1, <1>13
    <2> HIDE DEF P
    <2> QED
        BY <1>1, <1>14, <2>1, StepByStep
<1>16. after \in [0 .. n -> Book]
    BY <1>12, <1>15
<1> QED
    BY <1>10, <1>13, <1>16 DEF n

(* v is what w comes to when reports are drained and later has those that   *)
(* are yet to come.                                                         *)
Answered(v, w, later) ==
    /\ Books(v) /\ v.now = <<>>
    /\ later \subseteq v.inFlight \union v.cancelled
    /\ v.inFlight \subseteq w.inFlight /\ v.cancelled \subseteq w.cancelled
    /\ \A r \in Jobs \ (w.inFlight \union ToSet(w.now)) : v.answers[r] = w.answers[r]

(* Books that balance go on balancing as the channel is drained, when it    *)
(* has one outcome at most for each request, and it and later only have     *)
(* outcomes of requests in flight or cancelled.                             *)
LEMMA DrainedBalances ==
    ASSUME NEW w, Books(w), w.now = <<>>, NEW events \in Seq(Reports), LastOnce(events),
           NEW later, later \intersect LastsOf(events) = {},
           later \union LastsOf(events) \subseteq w.inFlight \union w.cancelled,
           NEW v, v = Drained(w, events)
    PROVE  Answered(v, w, later)
<1> DEFINE n == Len(events)
<1>0. w \in Book
    BY DEF Books, Book
<1>1. PICK f \in [0 .. n -> Book] :
          /\ f[0] = w /\ \A i \in 1 .. n : f[i] = Arrived(f[i - 1], events[i])
          /\ Drained(w, events) = f[n]
    BY <1>0, DrainSteps
<1>2. n \in Nat /\ \A i \in 1 .. n : events[i] \in Reports
    OBVIOUS
<1>3. \A i \in 1 .. n : events[i].last => events[i].of \in LastsOf(events)
    BY DEF LastsOf
<1>4. \A i, k \in 1 .. n : events[i].last /\ events[k].last /\ events[i].of = events[k].of => i = k
    BY DEF LastOnce
<1> HIDE DEF n
<1> DEFINE Good(i) ==
             /\ Books(f[i]) /\ f[i].now = <<>>
             /\ later \subseteq f[i].inFlight \union f[i].cancelled
             /\ \A k \in i + 1 .. n : events[k].last =>
                    events[k].of \in f[i].inFlight \union f[i].cancelled
             /\ f[i].inFlight \subseteq w.inFlight /\ f[i].cancelled \subseteq w.cancelled
             /\ \A r \in Jobs \ w.inFlight : f[i].answers[r] = w.answers[r]
           P == {i \in 0 .. n : Good(i)}
<1>5. 0 \in P
    BY <1>1, <1>2, <1>3
<1>6. ASSUME NEW i \in 0 .. n - 1, i \in P PROVE i + 1 \in P
    <2> DEFINE e == events[i + 1]
               x == f[i]
               y == f[i + 1]
    <2>1. i + 1 \in 1 .. n /\ i + 1 \in 0 .. n /\ i + 1 - 1 = i /\ i \in 0 .. n
        BY <1>2
    <2>20. \A k \in 1 .. n : f[k] = Arrived(f[k - 1], events[k])
        BY <1>1
    <2>21. y = Arrived(x, e)
        BY <2>1, <2>20
    <2>22. x \in Book /\ e \in Reports
        BY <1>1, <1>2, <2>1
    <2>2. y = Arrived(x, e) /\ x \in Book /\ e \in Reports
        BY <2>21, <2>22
    <2>3. e.of \in Jobs /\ e.last \in BOOLEAN
        BY <2>2 DEF Reports
    <2>4. /\ Books(x) /\ x.now = <<>> /\ later \subseteq x.inFlight \union x.cancelled
          /\ x.inFlight \subseteq w.inFlight /\ x.cancelled \subseteq w.cancelled
          /\ \A r \in Jobs \ w.inFlight : x.answers[r] = w.answers[r]
          /\ \A k \in i + 1 .. n : events[k].last => events[k].of \in x.inFlight \union x.cancelled
        BY <1>6
    <2>5. /\ e.last => e.of \notin later /\ e.of \in x.inFlight \union x.cancelled
          /\ \A k \in i + 2 .. n : e.last /\ events[k].last => events[k].of # e.of
        <3>1. e.last => e.of \in LastsOf(events)
            BY <1>3, <2>1
        <3>2. i + 1 \in i + 1 .. n
            BY <2>1
        <3>3. \A k \in i + 2 .. n : k \in 1 .. n /\ k # i + 1
            BY <1>2, <2>1
        <3> QED
            BY <1>4, <2>1, <2>4, <3>1, <3>2, <3>3
    <2>6. \A k \in i + 1 + 1 .. n : k \in i + 2 .. n /\ k \in i + 1 .. n
        BY <1>2, <2>1
    <2>7. \A k \in i + 1 + 1 .. n : events[k].last =>
              events[k].of \in x.inFlight \union x.cancelled /\ (e.last => events[k].of # e.of)
        BY <2>4, <2>5, <2>6
    <2>8. \A r \in x.inFlight : x.answers[r] = 0 /\ r \notin x.cancelled
        BY <2>4 DEF Books
    <2>9. x.answers \in [Jobs -> {0, 1}] /\ Once(x.now)
        BY <2>4 DEF Books
    <2> HIDE DEF x, y, e
    <2>10. /\ y \in Book /\ y.now = <<>> /\ Once(y.now) /\ ToSet(y.now) = {}
        <3>1. y \in Book /\ y.now = x.now
            BY <2>2, ArrivedIs
        <3>2. ToSet(<<>>) = {}
            BY DEF ToSet
        <3> QED
            BY <2>4, <2>9, <3>1, <3>2
    <2>11. /\ y.answers \in [Jobs -> {0, 1}]
           /\ y.inFlight \intersect y.cancelled = {}
           /\ \A r \in y.inFlight : y.answers[r] = 0
           /\ \A r \in Jobs \ w.inFlight : y.answers[r] = w.answers[r]
           /\ y.inFlight \subseteq x.inFlight /\ y.cancelled \subseteq x.cancelled
           /\ \A r \in x.inFlight \union x.cancelled :
                 (e.last => r # e.of) => r \in y.inFlight \union y.cancelled
        <3>1. CASE e.of \in x.cancelled
            <4>1. /\ y.cancelled = IF e.last THEN x.cancelled \ {e.of} ELSE x.cancelled
                  /\ y.inFlight = x.inFlight /\ y.answers = x.answers
                BY <2>2, <3>1, ArrivedIs
            <4> QED
                BY <2>4, <2>8, <2>9, <4>1
        <3>2. CASE e.of \notin x.cancelled
            <4>1. /\ y.cancelled = x.cancelled
                  /\ y.inFlight = IF e.last THEN x.inFlight \ {e.of} ELSE x.inFlight
                  /\ y.answers = IF e.last THEN [x.answers EXCEPT ![e.of] = @ + 1] ELSE x.answers
                BY <2>2, <3>2, ArrivedIs
            <4>2. e.last => e.of \in x.inFlight /\ x.answers[e.of] = 0
                BY <2>5, <2>8, <3>2
            <4>3. e.last => /\ y.answers = [x.answers EXCEPT ![e.of] = 1]
                            /\ e.of \in w.inFlight
                BY <2>4, <4>1, <4>2
            <4> QED
                BY <2>3, <2>4, <2>8, <2>9, <4>1, <4>3
        <3> QED
            BY <3>1, <3>2
    <2>12. Books(y)
        BY <2>10, <2>11 DEF Books, Book
    <2>13. later \subseteq y.inFlight \union y.cancelled
        BY <2>4, <2>5, <2>11
    <2>14. \A k \in i + 1 + 1 .. n : events[k].last => events[k].of \in y.inFlight \union y.cancelled
        BY <2>7, <2>11
    <2>15. Good(i + 1)
        BY <2>4, <2>10, <2>11, <2>12, <2>13, <2>14 DEF y
    <2> QED
        BY <2>1, <2>15
<1>7. n \in P
    <2> HIDE DEF P
    <2>1. 0 .. n \subseteq P
        BY <1>2, <1>5, <1>6, StepByStep
    <2> QED
        BY <1>2, <2>1
<1> QED
    BY <1>1, <1>7 DEF Answered

(* A request that is in a list once is counted once.                        *)
LEMMA CountedOnce ==
    ASSUME NEW S, NEW seq \in Seq(S), Once(seq), NEW r
    PROVE  Cardinality({i \in DOMAIN seq : seq[i] = r}) = IF r \in ToSet(seq) THEN 1 ELSE 0
<1> DEFINE C == {i \in DOMAIN seq : seq[i] = r}
<1>1. CASE r \in ToSet(seq)
    <2>1. PICK k \in DOMAIN seq : seq[k] = r
        BY <1>1 DEF ToSet
    <2>2. C = {k}
        BY <2>1 DEF Once
    <2> QED
        BY <1>1, <2>2, FS_Singleton
<1>2. CASE r \notin ToSet(seq)
    <2>1. C = {}
        BY <1>2 DEF ToSet
    <2> QED
        BY <1>2, <2>1, FS_EmptySet
<1> QED
    BY <1>1, <1>2

LEMMA OpenedIs ==
    ASSUME NEW b \in Book
    PROVE  /\ Opened(b) \in Book
           /\ Opened(b).now = <<>> /\ Opened(b).inFlight = b.inFlight
           /\ Opened(b).cancelled = b.cancelled
           /\ \A r \in Jobs : Once(b.now) =>
                 Opened(b).answers[r] = b.answers[r] + IF r \in ToSet(b.now) THEN 1 ELSE 0
           /\ DOMAIN Opened(b).told = DOMAIN b.now
           /\ \A i \in DOMAIN b.now : Opened(b).told[i] = Told(b.now[i], "cancelled")
<1> DEFINE C(r) == {i \in DOMAIN b.now : b.now[i] = r}
           count == [r \in Jobs |-> b.answers[r] + Cardinality(C(r))]
           told == [i \in DOMAIN b.now |-> Told(b.now[i], "cancelled")]
<1>1. /\ b.now \in Seq(Jobs) /\ b.answers \in [Jobs -> Nat] /\ b.inFlight \in SUBSET Jobs
      /\ b.cancelled \in SUBSET Jobs
    BY DEF Book
<1>2. \A i \in DOMAIN b.now : b.now[i] \in Jobs /\ Told(b.now[i], "cancelled") \in Tales
    BY <1>1 DEF Told, Tales
<1>3. told \in Seq(Tales)
    <2>1. Len(b.now) \in Nat /\ DOMAIN b.now = 1 .. Len(b.now)
        BY <1>1, LenProperties
    <2>2. told \in [1 .. Len(b.now) -> Tales]
        BY <1>2, <2>1
    <2> QED
        BY <2>1, <2>2
<1>4. ASSUME NEW r \in Jobs PROVE Cardinality(C(r)) \in Nat
    <2>1. Len(b.now) \in Nat /\ DOMAIN b.now = 1 .. Len(b.now)
        BY <1>1, LenProperties
    <2>2. IsFiniteSet(1 .. Len(b.now))
        BY <2>1, FS_Interval
    <2>3. IsFiniteSet(C(r))
        BY <2>1, <2>2, FS_Subset
    <2> QED
        BY <2>3, FS_CardinalityType
<1>5. count \in [Jobs -> Nat]
    BY <1>1, <1>4
<1>6. Opened(b) = [b EXCEPT !.now = <<>>, !.told = told, !.answers = count]
    BY DEF Opened, Book
<1>7. ASSUME NEW r \in Jobs, Once(b.now)
      PROVE  count[r] = b.answers[r] + IF r \in ToSet(b.now) THEN 1 ELSE 0
    BY <1>1, <1>7, CountedOnce
<1>8. /\ DOMAIN told = DOMAIN b.now
      /\ \A i \in DOMAIN b.now : told[i] = Told(b.now[i], "cancelled")
    OBVIOUS
<1> HIDE DEF told, count
<1>9. <<>> \in Seq(Jobs)
    OBVIOUS
<1>10. /\ Opened(b) \in Book /\ Opened(b).now = <<>> /\ Opened(b).inFlight = b.inFlight
       /\ Opened(b).cancelled = b.cancelled
       /\ Opened(b).answers = count /\ Opened(b).told = told
    BY <1>3, <1>5, <1>6, <1>9 DEF Book
<1> QED
    BY <1>7, <1>8, <1>10

LEMMA PumpedIsABook ==
    ASSUME NEW b \in Book, NEW events \in Seq(Reports)
    PROVE  Pumped(b, events) \in Book
<1>1. Opened(b) \in Book
    BY OpenedIs
<1>2. PICK f \in [0 .. Len(events) -> Book] : Drained(Opened(b), events) = f[Len(events)]
    BY <1>1, DrainSteps
<1>3. Len(events) \in 0 .. Len(events)
    OBVIOUS
<1> QED
    BY <1>2, <1>3 DEF Pumped

(* Books balance through a pump.                                            *)
LEMMA PumpedBalances ==
    ASSUME NEW b, Books(b), NEW events \in Seq(Reports), LastOnce(events),
           NEW later, later \intersect LastsOf(events) = {},
           later \union LastsOf(events) \subseteq b.inFlight \union b.cancelled
    PROVE  Answered(Pumped(b, events), b, later)
<1> DEFINE w == Opened(b)
           v == Drained(w, events)
<1>1. b \in Book /\ b.answers \in [Jobs -> {0, 1}] /\ Once(b.now)
    BY DEF Books, Book
<1>2. /\ w \in Book /\ w.now = <<>> /\ w.inFlight = b.inFlight /\ w.cancelled = b.cancelled
      /\ \A r \in Jobs : w.answers[r] = b.answers[r] + IF r \in ToSet(b.now) THEN 1 ELSE 0
    BY <1>1, OpenedIs
<1> HIDE DEF w
<1>3. Books(w)
    <2>1. \A r \in ToSet(b.now) : b.answers[r] = 0 /\ r \notin b.inFlight
        BY DEF Books
    <2>2. \A r \in b.inFlight : b.answers[r] = 0 /\ r \notin b.cancelled
        BY DEF Books
    <2>3. w.answers \in [Jobs -> {0, 1}]
        <3>1. w.answers \in [Jobs -> Nat]
            BY <1>2 DEF Book
        <3>2. \A r \in Jobs : w.answers[r] \in {0, 1}
            BY <1>1, <1>2, <2>1
        <3> QED
            BY <3>1, <3>2
    <2>4. \A r \in w.inFlight : w.answers[r] = 0
        <3>1. w.inFlight \subseteq Jobs
            BY <1>2 DEF Book
        <3> QED
            BY <1>2, <2>1, <2>2, <3>1
    <2>5. Once(<<>>) /\ ToSet(<<>>) = {}
        BY DEF Once, ToSet
    <2> QED
        BY <1>2, <2>2, <2>3, <2>4, <2>5 DEF Books, Book
<1>4. /\ Books(v) /\ v.now = <<>>
      /\ later \subseteq v.inFlight \union v.cancelled
      /\ v.inFlight \subseteq w.inFlight /\ v.cancelled \subseteq w.cancelled
      /\ \A r \in Jobs \ w.inFlight : v.answers[r] = w.answers[r]
    <2>1. later \union LastsOf(events) \subseteq w.inFlight \union w.cancelled
        BY <1>2
    <2>2. w.now = <<>> /\ v = Drained(w, events)
        BY <1>2
    <2> HIDE DEF v
    <2>3. Answered(v, w, later)
        BY <1>3, <2>1, <2>2, DrainedBalances, Zenon
    <2>4. ToSet(w.now) = {}
        BY <2>2 DEF ToSet
    <2> QED
        BY <2>3, <2>4 DEF Answered
<1>5. ASSUME NEW r \in Jobs \ (b.inFlight \union ToSet(b.now))
      PROVE  v.answers[r] = b.answers[r]
    <2>1. v.answers[r] = w.answers[r]
        BY <1>2, <1>4
    <2>2. w.answers[r] = b.answers[r] + 0 /\ b.answers[r] \in {0, 1}
        BY <1>1, <1>2
    <2> QED
        BY <2>1, <2>2
<1>6. v = Pumped(b, events)
    BY DEF Pumped, w
<1> HIDE DEF v
<1> QED
    BY <1>2, <1>4, <1>5, <1>6 DEF Answered

-----------------------------------------------------------------------------
(* A frame run again from the same books.                                   *)
LEMMA BooksEqual ==
    ASSUME NEW v \in Book, NEW w \in Book, Alike(v, w), v.told = w.told
    PROVE  v = w
<1>1. /\ v = [inFlight |-> v.inFlight, cancelled |-> v.cancelled, now |-> v.now,
              answers |-> v.answers, told |-> v.told]
      /\ w = [inFlight |-> w.inFlight, cancelled |-> w.cancelled, now |-> w.now,
              answers |-> w.answers, told |-> w.told]
    BY DEF Book
<1>2. /\ v.inFlight = w.inFlight /\ v.cancelled = w.cancelled /\ v.now = w.now
      /\ v.answers = w.answers /\ v.told = w.told
    BY DEF Alike
<1> QED
    BY <1>1, <1>2, Zenon

LEMMA NothingDrained == ASSUME NEW w \in Book PROVE Drained(w, <<>>) = w
<1> DEFINE none == <<>>
<1>1. none \in Seq(Reports) /\ Len(none) = 0
    OBVIOUS
<1> HIDE DEF none
<1>2. PICK f \in [0 .. Len(none) -> Book] :
          /\ f[0] = w /\ \A i \in 1 .. Len(none) : f[i] = Arrived(f[i - 1], none[i])
          /\ Drained(w, none) = f[Len(none)]
    BY <1>1, DrainSteps, Zenon
<1>3. Drained(w, none) = w
    BY <1>1, <1>2
<1> QED
    BY <1>3 DEF none

LEMMA NothingRedone == ASSUME NEW w \in Book PROVE Redone(w, <<>>) = w
<1> DEFINE none == <<>>
<1>1. none \in Seq(Commands) /\ Len(none) = 0
    OBVIOUS
<1> HIDE DEF none
<1>2. PICK f \in [0 .. Len(none) -> Book] :
          /\ f[0] = w /\ \A i \in 1 .. Len(none) : f[i] = Again(f[i - 1], none[i])
          /\ Redone(w, none) = f[Len(none)]
    BY <1>1, RedoneSteps, Zenon
<1>3. Redone(w, none) = w
    BY <1>1, <1>2
<1> QED
    BY <1>3 DEF none

(* What scripts do tells nobody and answers nothing.                        *)
LEMMA RedoneKeeps ==
    ASSUME NEW w \in Book, NEW commands \in Seq(Commands)
    PROVE  /\ Redone(w, commands) \in Book
           /\ Redone(w, commands).told = w.told /\ Redone(w, commands).answers = w.answers
<1> DEFINE n == Len(commands)
<1>1. PICK f \in [0 .. n -> Book] :
          /\ f[0] = w /\ \A i \in 1 .. n : f[i] = Again(f[i - 1], commands[i])
          /\ Redone(w, commands) = f[n]
    BY RedoneSteps
<1>2. n \in Nat /\ \A i \in 1 .. n : commands[i] \in Commands
    OBVIOUS
<1> HIDE DEF n
<1> DEFINE P == {i \in 0 .. n : f[i].told = w.told /\ f[i].answers = w.answers}
<1>3. 0 \in P
    BY <1>1, <1>2
<1>4. ASSUME NEW i \in 0 .. n - 1, i \in P PROVE i + 1 \in P
    <2>1. i + 1 \in 1 .. n /\ i + 1 \in 0 .. n /\ i + 1 - 1 = i /\ i \in 0 .. n
        BY <1>2
    <2>2. f[i + 1] = Again(f[i], commands[i + 1]) /\ f[i] \in Book /\ commands[i + 1] \in Commands
        BY <1>1, <1>2, <2>1
    <2>3. f[i + 1].told = f[i].told /\ f[i + 1].answers = f[i].answers
        <3> DEFINE x == f[i]
                   c == commands[i + 1]
        <3>1. x \in Book /\ c \in Commands /\ f[i + 1] = Again(x, c)
            BY <2>2
        <3> HIDE DEF x, c
        <3>2. Again(x, c).told = x.told /\ Again(x, c).answers = x.answers
            BY <3>1, AgainIs
        <3> QED
            BY <3>1, <3>2 DEF x
    <2> QED
        BY <1>4, <2>1, <2>3
<1>5. n \in P
    <2> HIDE DEF P
    <2>1. 0 .. n \subseteq P
        BY <1>2, <1>3, <1>4, StepByStep
    <2> QED
        BY <1>2, <2>1
<1> QED
    BY <1>1, <1>2, <1>5

(* One command more is done after the others.                               *)
LEMMA RedoneMore ==
    ASSUME NEW w \in Book, NEW commands \in Seq(Commands), NEW c \in Commands
    PROVE  Redone(w, Append(commands, c)) = Again(Redone(w, commands), c)
<1> DEFINE n == Len(commands)
           more == Append(commands, c)
<1>1. n \in Nat /\ more \in Seq(Commands) /\ Len(more) = n + 1 /\ more[n + 1] = c
      /\ \A i \in 1 .. n : more[i] = commands[i]
    OBVIOUS
<1>2. PICK f \in [0 .. n -> Book] :
          /\ f[0] = w /\ \A i \in 1 .. n : f[i] = Again(f[i - 1], commands[i])
          /\ Redone(w, commands) = f[n]
    BY RedoneSteps
<1> HIDE DEF n, more
<1>3. PICK g \in [0 .. Len(more) -> Book] :
          /\ g[0] = w /\ \A i \in 1 .. Len(more) : g[i] = Again(g[i - 1], more[i])
          /\ Redone(w, more) = g[Len(more)]
    BY <1>1, RedoneSteps
<1>4. \A i \in 1 .. n + 1 : g[i] = Again(g[i - 1], more[i])
    BY <1>1, <1>3
<1> DEFINE P == {i \in 0 .. n : f[i] = g[i]}
<1>5. 0 \in P
    BY <1>1, <1>2, <1>3
<1>6. ASSUME NEW i \in 0 .. n - 1, i \in P PROVE i + 1 \in P
    <2>1. i + 1 \in 1 .. n /\ i + 1 \in 0 .. n /\ i + 1 - 1 = i /\ i + 1 \in 1 .. n + 1
        BY <1>1
    <2>2. f[i + 1] = Again(f[i], commands[i + 1])
        BY <1>2, <2>1
    <2>3. g[i + 1] = Again(g[i], more[i + 1])
        BY <1>4, <2>1
    <2> QED
        BY <1>1, <1>6, <2>1, <2>2, <2>3
<1>7. n \in P
    <2> HIDE DEF P
    <2>1. 0 .. n \subseteq P
        BY <1>1, <1>5, <1>6, StepByStep
    <2> QED
        BY <1>1, <2>1
<1>8. n + 1 \in 1 .. n + 1 /\ n + 1 - 1 = n
    BY <1>1
<1>9. g[n + 1] = Again(g[n], more[n + 1])
    <2> DEFINE m == n + 1
    <2>1. m \in 1 .. n + 1 /\ m - 1 = n
        BY <1>1, <1>8
    <2> HIDE DEF m
    <2>2. g[m] = Again(g[m - 1], more[m])
        BY <1>4, <2>1
    <2> QED
        BY <2>1, <2>2 DEF m
<1>10. Redone(w, more) = g[n + 1] /\ more[n + 1] = c
    BY <1>1, <1>3
<1>11. f[n] = g[n]
    BY <1>7
<1> QED
    BY <1>2, <1>9, <1>10, <1>11 DEF more

LEMMA ToldMore ==
    ASSUME NEW S, NEW seq \in Seq(S), NEW x \in S
    PROVE  ToSet(Append(seq, x)) = ToSet(seq) \union {x}
<1>1. Len(seq) \in Nat /\ DOMAIN seq = 1 .. Len(seq)
      /\ DOMAIN Append(seq, x) = 1 .. Len(seq) + 1
      /\ Append(seq, x)[Len(seq) + 1] = x
      /\ \A i \in 1 .. Len(seq) : Append(seq, x)[i] = seq[i]
    OBVIOUS
<1> QED
    BY <1>1 DEF ToSet

LEMMA ArrivedAlike ==
    ASSUME NEW v \in Book, NEW w \in Book, Alike(v, w), NEW e \in Reports, NEW before,
           ToSet(w.told) = before \union ToSet(v.told)
    PROVE  /\ Alike(Arrived(v, e), Arrived(w, e))
           /\ ToSet(Arrived(w, e).told) = before \union ToSet(Arrived(v, e).told)
<1> DEFINE x == Arrived(v, e)
           y == Arrived(w, e)
           kind == IF e.last THEN "reply" ELSE "progress"
<1>1. /\ v.inFlight = w.inFlight /\ v.cancelled = w.cancelled
      /\ v.now = w.now /\ v.answers = w.answers
    BY DEF Alike
<1>2. x.now = v.now /\ y.now = w.now
    BY ArrivedIs
<1>3. CASE e.of \in v.cancelled
    <2>1. /\ x.cancelled = IF e.last THEN v.cancelled \ {e.of} ELSE v.cancelled
          /\ x.inFlight = v.inFlight /\ x.answers = v.answers /\ x.told = v.told
        BY <1>3, ArrivedIs
    <2>2. /\ y.cancelled = IF e.last THEN w.cancelled \ {e.of} ELSE w.cancelled
          /\ y.inFlight = w.inFlight /\ y.answers = w.answers /\ y.told = w.told
        BY <1>1, <1>3, ArrivedIs
    <2> HIDE DEF x, y
    <2>3. Alike(x, y)
        BY <1>1, <1>2, <2>1, <2>2 DEF Alike
    <2>4. ToSet(y.told) = before \union ToSet(x.told)
        BY <2>1, <2>2
    <2> QED
        BY <2>3, <2>4 DEF x, y
<1>4. CASE e.of \notin v.cancelled
    <2>1. /\ x.cancelled = v.cancelled
          /\ x.inFlight = IF e.last THEN v.inFlight \ {e.of} ELSE v.inFlight
          /\ x.answers = IF e.last THEN [v.answers EXCEPT ![e.of] = @ + 1] ELSE v.answers
          /\ \E tale \in Tales : tale = Told(e.of, kind) /\ x.told = Append(v.told, tale)
        BY <1>4, ArrivedIs
    <2>2. e.of \notin w.cancelled
        BY <1>1, <1>4
    <2>3. /\ y.cancelled = w.cancelled
          /\ y.inFlight = IF e.last THEN w.inFlight \ {e.of} ELSE w.inFlight
          /\ y.answers = IF e.last THEN [w.answers EXCEPT ![e.of] = @ + 1] ELSE w.answers
          /\ \E tale \in Tales : tale = Told(e.of, kind) /\ y.told = Append(w.told, tale)
        BY <2>2, ArrivedIs
    <2> HIDE DEF x, y, kind
    <2>4. Alike(x, y)
        BY <1>1, <1>2, <2>1, <2>3 DEF Alike
    <2>5. PICK tale \in Tales : tale = Told(e.of, kind) /\ x.told = Append(v.told, tale)
        BY <2>1
    <2>6. y.told = Append(w.told, tale)
        BY <2>3, <2>5
    <2>7. v.told \in Seq(Tales) /\ w.told \in Seq(Tales)
        BY DEF Book
    <2>8. /\ ToSet(Append(v.told, tale)) = ToSet(v.told) \union {tale}
          /\ ToSet(Append(w.told, tale)) = ToSet(w.told) \union {tale}
        BY <2>7, ToldMore
    <2>9. ToSet(y.told) = before \union ToSet(x.told)
        BY <2>5, <2>6, <2>8
    <2> QED
        BY <2>4, <2>9 DEF x, y
<1> QED
    BY <1>3, <1>4

(* Books alike stay so, and tell the same more.                             *)
LEMMA DrainedAlike ==
    ASSUME NEW v \in Book, NEW w \in Book, Alike(v, w), v.told = <<>>, NEW events \in Seq(Reports)
    PROVE  /\ Alike(Drained(v, events), Drained(w, events))
           /\ ToSet(Drained(w, events).told) = ToSet(w.told) \union ToSet(Drained(v, events).told)
<1> DEFINE n == Len(events)
<1>1. PICK f \in [0 .. n -> Book] :
          /\ f[0] = v /\ \A i \in 1 .. n : f[i] = Arrived(f[i - 1], events[i])
          /\ Drained(v, events) = f[n]
    BY DrainSteps
<1>2. PICK g \in [0 .. n -> Book] :
          /\ g[0] = w /\ \A i \in 1 .. n : g[i] = Arrived(g[i - 1], events[i])
          /\ Drained(w, events) = g[n]
    BY DrainSteps
<1>3. n \in Nat /\ \A i \in 1 .. n : events[i] \in Reports
    OBVIOUS
<1> HIDE DEF n
<1> DEFINE Good(i) == /\ Alike(f[i], g[i])
                      /\ ToSet(g[i].told) = ToSet(w.told) \union ToSet(f[i].told)
           P == {i \in 0 .. n : Good(i)}
<1>4. 0 \in P
    BY <1>1, <1>2, <1>3 DEF ToSet
<1>5. ASSUME NEW i \in 0 .. n - 1, i \in P PROVE i + 1 \in P
    <2> DEFINE e == events[i + 1]
    <2>1. i + 1 \in 1 .. n /\ i + 1 \in 0 .. n /\ i + 1 - 1 = i /\ i \in 0 .. n
        BY <1>3
    <2>2. f[i + 1] = Arrived(f[i], e) /\ f[i] \in Book /\ e \in Reports
        BY <1>1, <1>3, <2>1
    <2>3. g[i + 1] = Arrived(g[i], e) /\ g[i] \in Book
        BY <1>2, <2>1
    <2>4. Good(i)
        BY <1>5
    <2>5. Good(i + 1)
        BY <2>2, <2>3, <2>4, ArrivedAlike
    <2> QED
        BY <2>1, <2>5
<1>6. n \in P
    <2> HIDE DEF P
    <2>1. 0 .. n \subseteq P
        BY <1>3, <1>4, <1>5, StepByStep
    <2> QED
        BY <1>3, <2>1
<1> QED
    BY <1>1, <1>2, <1>6

LEMMA AgainAlike ==
    ASSUME NEW v \in Book, NEW w \in Book, Alike(v, w), NEW c \in Commands
    PROVE  Alike(Again(v, c), Again(w, c))
<1> DEFINE x == Again(v, c)
           y == Again(w, c)
<1>1. /\ v.inFlight = w.inFlight /\ v.cancelled = w.cancelled
      /\ v.now = w.now /\ v.answers = w.answers
    BY DEF Alike
<1>2. x.answers = v.answers /\ y.answers = w.answers
    BY AgainIs
<1>3. /\ c.op = "request" => /\ x.inFlight = v.inFlight \union {c.of}
                             /\ x.cancelled = v.cancelled /\ x.now = v.now
      /\ c.op # "request" => /\ x.inFlight = v.inFlight \ {c.of}
                             /\ x.cancelled = v.cancelled \union {c.of}
                             /\ x.now = Append(v.now, c.of)
    BY AgainIs
<1>4. /\ c.op = "request" => /\ y.inFlight = w.inFlight \union {c.of}
                             /\ y.cancelled = w.cancelled /\ y.now = w.now
      /\ c.op # "request" => /\ y.inFlight = w.inFlight \ {c.of}
                             /\ y.cancelled = w.cancelled \union {c.of}
                             /\ y.now = Append(w.now, c.of)
    BY AgainIs
<1> HIDE DEF x, y
<1>5. Alike(x, y)
    BY <1>1, <1>2, <1>3, <1>4 DEF Alike
<1> QED
    BY <1>5 DEF x, y

LEMMA RedoneAlike ==
    ASSUME NEW v \in Book, NEW w \in Book, Alike(v, w), NEW commands \in Seq(Commands)
    PROVE  Alike(Redone(v, commands), Redone(w, commands))
<1> DEFINE n == Len(commands)
<1>1. PICK f \in [0 .. n -> Book] :
          /\ f[0] = v /\ \A i \in 1 .. n : f[i] = Again(f[i - 1], commands[i])
          /\ Redone(v, commands) = f[n]
    BY RedoneSteps
<1>2. PICK g \in [0 .. n -> Book] :
          /\ g[0] = w /\ \A i \in 1 .. n : g[i] = Again(g[i - 1], commands[i])
          /\ Redone(w, commands) = g[n]
    BY RedoneSteps
<1>3. n \in Nat /\ \A i \in 1 .. n : commands[i] \in Commands
    OBVIOUS
<1> HIDE DEF n
<1> DEFINE P == {i \in 0 .. n : Alike(f[i], g[i])}
<1>4. 0 \in P
    BY <1>1, <1>2, <1>3
<1>5. ASSUME NEW i \in 0 .. n - 1, i \in P PROVE i + 1 \in P
    <2> DEFINE c == commands[i + 1]
    <2>1. i + 1 \in 1 .. n /\ i + 1 \in 0 .. n /\ i + 1 - 1 = i /\ i \in 0 .. n
        BY <1>3
    <2>2. f[i + 1] = Again(f[i], c) /\ f[i] \in Book /\ c \in Commands
        BY <1>1, <1>3, <2>1
    <2>3. g[i + 1] = Again(g[i], c) /\ g[i] \in Book
        BY <1>2, <2>1
    <2>4. Alike(f[i], g[i])
        BY <1>5
    <2>5. Alike(f[i + 1], g[i + 1])
        BY <2>2, <2>3, <2>4, AgainAlike
    <2> QED
        BY <2>1, <2>5
<1>6. n \in P
    <2> HIDE DEF P
    <2>1. 0 .. n \subseteq P
        BY <1>3, <1>4, <1>5, StepByStep
    <2> QED
        BY <1>3, <2>1
<1> QED
    BY <1>1, <1>2, <1>6

(* What a frame leaves.                                                     *)
LEMMA RanIs ==
    ASSUME NEW b \in Book, NEW f \in Frames
    PROVE  /\ f.arrivals \in Seq(Reports) /\ f.did \in Seq(Commands)
           /\ Ran(b, f) \in Book /\ Ran(b, f).told = <<>>
           /\ Alike(Ran(b, f), Redone(Pumped(b, f.arrivals), f.did))
           /\ Ran(b, f).answers = Pumped(b, f.arrivals).answers
<1> DEFINE w == Pumped(b, f.arrivals)
           d == Redone(w, f.did)
<1>1. f.arrivals \in Seq(Reports) /\ f.did \in Seq(Commands)
    BY DEF Frames
<1>2. w \in Book
    BY <1>1, PumpedIsABook
<1> HIDE DEF w
<1>3. d \in Book /\ d.answers = w.answers
    BY <1>1, <1>2, RedoneKeeps
<1> HIDE DEF d
<1> DEFINE x == [d EXCEPT !.told = <<>>]
<1>4. <<>> \in Seq(Tales)
    OBVIOUS
<1>5. /\ x \in Book /\ x.told = <<>> /\ x.inFlight = d.inFlight /\ x.cancelled = d.cancelled
      /\ x.now = d.now /\ x.answers = d.answers
    BY <1>3, <1>4 DEF Book
<1> HIDE DEF x
<1>6. Alike(x, d)
    BY <1>5 DEF Alike
<1>7. x = Ran(b, f)
    BY DEF Ran, x, d, w
<1> QED
    BY <1>1, <1>3, <1>5, <1>6, <1>7 DEF d, w

(* A pump with nobody to tell first changes nothing there.                  *)
LEMMA NothingOpened ==
    ASSUME NEW c \in Book, c.now = <<>>, c.told = <<>>
    PROVE  Opened(c) = c
<1> DEFINE p == Opened(c)
<1>1. /\ p \in Book /\ p.now = <<>> /\ p.inFlight = c.inFlight /\ p.cancelled = c.cancelled
      /\ DOMAIN p.told = DOMAIN c.now
      /\ Once(c.now) => \A r \in Jobs :
            p.answers[r] = c.answers[r] + IF r \in ToSet(c.now) THEN 1 ELSE 0
    BY OpenedIs
<1>2. Once(c.now) /\ ToSet(c.now) = {}
    BY DEF Once, ToSet
<1> HIDE DEF p
<1>3. p.told = <<>>
    <2>1. p.told \in Seq(Tales)
        BY <1>1 DEF Book
    <2>2. DOMAIN p.told = {}
        BY <1>1
    <2>3. Len(p.told) \in Nat /\ DOMAIN p.told = 1 .. Len(p.told)
        BY <2>1, LenProperties
    <2>4. Len(p.told) = 0
        <3>1. Len(p.told) # 0 => 1 \in 1 .. Len(p.told)
            BY <2>3
        <3>2. 1 .. Len(p.told) = {}
            BY <2>2, <2>3, Zenon
        <3> QED
            BY <3>1, <3>2
    <2> QED
        BY <2>1, <2>4
<1>4. p.answers = c.answers
    <2>1. p.answers \in [Jobs -> Nat] /\ c.answers \in [Jobs -> Nat]
        BY <1>1 DEF Book
    <2>2. \A r \in Jobs : p.answers[r] = c.answers[r] + 0
        BY <1>1, <1>2
    <2>3. \A r \in Jobs : p.answers[r] = c.answers[r]
        BY <2>1, <2>2
    <2> QED
        BY <2>1, <2>3
<1>5. Alike(p, c) /\ p.told = c.told
    BY <1>1, <1>3, <1>4 DEF Alike
<1>6. p = c
    BY <1>1, <1>5, BooksEqual
<1> QED
    BY <1>6 DEF p

(* The books of a pump that drained nothing, which another has nothing to   *)
(* add to.                                                                  *)
Rested(b) == [Opened(b) EXCEPT !.told = <<>>]

LEMMA RestedIs ==
    ASSUME NEW b \in Book
    PROVE  /\ Rested(b) \in Book /\ Rested(b).told = <<>>
           /\ Alike(Rested(b), Opened(b)) /\ Opened(Rested(b)) = Rested(b)
<1> DEFINE o == Opened(b)
           c == Rested(b)
<1>1. o \in Book /\ o.now = <<>>
    BY OpenedIs
<1>2. <<>> \in Seq(Tales)
    OBVIOUS
<1>3. /\ c \in Book /\ c.told = <<>> /\ c.inFlight = o.inFlight /\ c.cancelled = o.cancelled
      /\ c.now = <<>> /\ c.answers = o.answers /\ o.now = <<>>
    <2> HIDE DEF o
    <2>1. c = [o EXCEPT !.told = <<>>]
        BY DEF o, Rested
    <2> HIDE DEF c
    <2> QED
        BY <1>1, <1>2, <2>1 DEF Book
<1>4. Alike(c, o)
    <2> HIDE DEF c, o
    <2> QED
        BY <1>3 DEF Alike
<1>5. Opened(c) = c
    <2> HIDE DEF c, o
    <2>1. c \in Book /\ c.now = <<>> /\ c.told = <<>>
        BY <1>3
    <2> QED
        BY <2>1, NothingOpened, Zenon
<1> QED
    BY <1>3, <1>4, <1>5 DEF c, o

(* A frame whose pump ran in two goes does and tells what it would in one.  *)
LEMMA ToldEarlier ==
    ASSUME NEW b \in Book, NEW f \in Frames
    PROVE  /\ Ran(Rested(b), f) = Ran(b, f)
           /\ ToSet(Pumped(b, f.arrivals).told) =
                 ToSet(Opened(b).told) \union ToSet(Pumped(Rested(b), f.arrivals).told)
<1> DEFINE o == Opened(b)
           c == Rested(b)
           v == Pumped(c, f.arrivals)
           w == Pumped(b, f.arrivals)
<1>1. f.arrivals \in Seq(Reports) /\ f.did \in Seq(Commands)
    BY DEF Frames
<1>2. o \in Book /\ c \in Book /\ c.told = <<>> /\ Alike(c, o) /\ Opened(c) = c
    BY OpenedIs, RestedIs
<1>3. v = Drained(c, f.arrivals) /\ w = Drained(o, f.arrivals)
    BY <1>2 DEF Pumped
<1>4. v \in Book /\ w \in Book
    BY <1>1, <1>2, PumpedIsABook
<1> HIDE DEF v, w, c, o
<1> DEFINE events == f.arrivals
<1> HIDE DEF events
<1>5. Alike(v, w) /\ ToSet(w.told) = ToSet(o.told) \union ToSet(v.told)
    <2>1. events \in Seq(Reports) /\ v = Drained(c, events) /\ w = Drained(o, events)
        BY <1>1, <1>3 DEF events
    <2>2. /\ Alike(Drained(c, events), Drained(o, events))
          /\ ToSet(Drained(o, events).told) = ToSet(o.told) \union ToSet(Drained(c, events).told)
        BY <1>2, <2>1, DrainedAlike
    <2> QED
        BY <2>1, <2>2
<1>6. Alike(Redone(v, f.did), Redone(w, f.did))
    BY <1>1, <1>4, <1>5, RedoneAlike
<1>7. Ran(c, f) = Ran(b, f)
    <2> DEFINE x == Ran(c, f)
               y == Ran(b, f)
    <2>1. x \in Book /\ x.told = <<>> /\ Alike(x, Redone(v, f.did))
        BY <1>2, RanIs DEF v
    <2>2. y \in Book /\ y.told = <<>> /\ Alike(y, Redone(w, f.did))
        BY <1>2, RanIs DEF w
    <2> HIDE DEF x, y
    <2>3. Alike(x, y)
        BY <1>6, <2>1, <2>2 DEF Alike
    <2>4. x = y
        BY <2>1, <2>2, <2>3, BooksEqual
    <2> QED
        BY <2>4 DEF x, y
<1> QED
    BY <1>5, <1>7 DEF c, o, v, w

(* Books that balance do when what they tell is taken off, and after a pump *)
(* that drained nothing.                                                    *)
LEMMA RestedBalances ==
    ASSUME NEW b, Books(b)
    PROVE  Books(Rested(b))
<1> DEFINE o == Pumped(b, <<>>)
           c == Rested(b)
<1>1. b \in Book
    BY DEF Books, Book
<1>2. /\ <<>> \in Seq(Reports) /\ LastOnce(<<>>) /\ LastsOf(<<>>) = {}
      /\ {} \intersect LastsOf(<<>>) = {} /\ {} \union LastsOf(<<>>) \subseteq b.inFlight \union b.cancelled
    BY DEF LastOnce, LastsOf
<1>3. Books(o) /\ o.now = <<>>
    <2>1. Answered(o, b, {})
        BY <1>2, PumpedBalances, Zenon
    <2> QED
        BY <2>1 DEF Answered
<1>4. o = Opened(b)
    BY <1>1, OpenedIs, NothingDrained DEF Pumped
<1>5. c \in Book /\ c.told = <<>> /\ Alike(c, o)
    BY <1>1, <1>4, RestedIs
<1> HIDE DEF o, c
<1>6. Books(c)
    BY <1>3, <1>5 DEF Books, Book, Alike
<1> QED
    BY <1>6 DEF c

-----------------------------------------------------------------------------
(* Lists that gain a member at one end or lose one at the other.            *)
LEMMA OnceMore ==
    ASSUME NEW S, NEW seq \in Seq(S), NEW x \in S, Once(seq), x \notin ToSet(seq)
    PROVE  Once(Append(seq, x))
<1>1. /\ Len(seq) \in Nat /\ DOMAIN seq = 1 .. Len(seq)
      /\ DOMAIN Append(seq, x) = 1 .. Len(seq) + 1
      /\ Append(seq, x)[Len(seq) + 1] = x
      /\ \A i \in 1 .. Len(seq) : Append(seq, x)[i] = seq[i]
    OBVIOUS
<1>2. \A i \in 1 .. Len(seq) : seq[i] # x
    BY <1>1 DEF ToSet
<1>3. \A i \in 1 .. Len(seq) + 1 : i = Len(seq) + 1 \/ i \in 1 .. Len(seq)
    BY <1>1
<1> QED
    BY <1>1, <1>2, <1>3 DEF Once

LEMMA OneLess ==
    ASSUME NEW S, NEW seq \in Seq(S), seq # <<>>, Once(seq)
    PROVE  /\ Head(seq) \in S /\ Tail(seq) \in Seq(S) /\ Once(Tail(seq))
           /\ ToSet(seq) = ToSet(Tail(seq)) \union {Head(seq)}
           /\ Head(seq) \notin ToSet(Tail(seq))
<1> DEFINE n == Len(seq)
           rest == Tail(seq)
<1>1. /\ n \in Nat /\ n > 0 /\ Head(seq) = seq[1] /\ Head(seq) \in S
      /\ DOMAIN seq = 1 .. n
    OBVIOUS
<1>2. /\ rest \in Seq(S) /\ DOMAIN rest = 1 .. n - 1
      /\ \A i \in 1 .. n - 1 : rest[i] = seq[i + 1]
    OBVIOUS
<1> HIDE DEF n, rest
<1>3. \A i \in 1 .. n - 1 : i + 1 \in 1 .. n /\ i + 1 # 1
    BY <1>1
<1>4. \A i \in 1 .. n : i = 1 \/ (i - 1 \in 1 .. n - 1 /\ i - 1 + 1 = i)
    BY <1>1
<1>5. 1 \in 1 .. n
    BY <1>1
<1>6. Once(rest)
    <2>1. ASSUME NEW i \in 1 .. n - 1, NEW k \in 1 .. n - 1, rest[i] = rest[k] PROVE i = k
        <3>1. seq[i + 1] = seq[k + 1] /\ i + 1 \in 1 .. n /\ k + 1 \in 1 .. n
            BY <1>2, <1>3, <2>1
        <3>2. i + 1 = k + 1
            BY <1>1, <3>1 DEF Once
        <3> QED
            BY <3>2
    <2> QED
        BY <1>2, <2>1 DEF Once
<1>7. ToSet(seq) = ToSet(rest) \union {Head(seq)}
    <2>1. ToSet(seq) \subseteq ToSet(rest) \union {Head(seq)}
        <3> SUFFICES ASSUME NEW i \in 1 .. n, i # 1 PROVE seq[i] \in ToSet(rest)
            BY <1>1 DEF ToSet
        <3>1. i - 1 \in 1 .. n - 1 /\ rest[i - 1] = seq[i]
            BY <1>2, <1>4
        <3> QED
            BY <1>2, <3>1 DEF ToSet
    <2>2. Head(seq) \in ToSet(seq)
        BY <1>1, <1>5 DEF ToSet
    <2>3. \A i \in 1 .. n - 1 : rest[i] \in ToSet(seq)
        <3>1. \A i \in 1 .. n - 1 : rest[i] = seq[i + 1] /\ i + 1 \in DOMAIN seq
            BY <1>1, <1>2, <1>3
        <3> QED
            BY <3>1 DEF ToSet
    <2>4. \A x \in ToSet(rest) : x \in ToSet(seq)
        BY <1>2, <2>3 DEF ToSet
    <2> QED
        BY <2>1, <2>2, <2>4
<1>8. Head(seq) \notin ToSet(rest)
    <2> SUFFICES ASSUME NEW i \in 1 .. n - 1, rest[i] = seq[1] PROVE FALSE
        BY <1>1, <1>2 DEF ToSet
    <2>1. seq[i + 1] = seq[1] /\ i + 1 \in 1 .. n /\ i + 1 # 1
        BY <1>2, <1>3
    <2> QED
        BY <1>1, <1>5, <2>1 DEF Once
<1> QED
    BY <1>1, <1>2, <1>6, <1>7, <1>8 DEF rest

LEMMA OneReportMore ==
    ASSUME NEW events \in Seq(Reports), NEW e \in Reports, LastOnce(events),
           e.last => e.of \notin LastsOf(events)
    PROVE  /\ Append(events, e) \in Seq(Reports) /\ LastOnce(Append(events, e))
           /\ LastsOf(Append(events, e)) = LastsOf(events) \union IF e.last THEN {e.of} ELSE {}
<1> DEFINE n == Len(events)
           more == Append(events, e)
<1>1. /\ n \in Nat /\ DOMAIN events = 1 .. n /\ DOMAIN more = 1 .. n + 1 /\ more[n + 1] = e
      /\ \A i \in 1 .. n : more[i] = events[i]
      /\ more \in Seq(Reports)
    OBVIOUS
<1> HIDE DEF n, more
<1>2. \A i \in 1 .. n + 1 : i = n + 1 \/ i \in 1 .. n
    BY <1>1
<1>3. n + 1 \in 1 .. n + 1 /\ \A i \in 1 .. n : i \in 1 .. n + 1
    BY <1>1
<1>4. LastsOf(more) = LastsOf(events) \union IF e.last THEN {e.of} ELSE {}
    BY <1>1, <1>2, <1>3 DEF LastsOf
<1>5. ASSUME NEW i \in 1 .. n + 1, NEW k \in 1 .. n + 1,
             more[i].last, more[k].last, more[i].of = more[k].of
      PROVE  i = k
    <2>1. \A j \in 1 .. n : events[j].last => events[j].of \in LastsOf(events)
        BY <1>1 DEF LastsOf
    <2>2. CASE i \in 1 .. n /\ k \in 1 .. n
        BY <1>1, <1>5, <2>2 DEF LastOnce
    <2>3. CASE i = n + 1 /\ k \in 1 .. n
        BY <1>1, <1>5, <2>1, <2>3
    <2>4. CASE k = n + 1 /\ i \in 1 .. n
        BY <1>1, <1>5, <2>1, <2>4
    <2> QED
        BY <1>2, <2>2, <2>3, <2>4
<1>6. LastOnce(more)
    BY <1>1, <1>5 DEF LastOnce
<1> QED
    BY <1>1, <1>4, <1>6 DEF more

-----------------------------------------------------------------------------
(* The pipeline, step by step.                                              *)
Pending == Coming \union LastsOf(channel)

LEMMA StartPipes ==
    ASSUME Pipeline, PoolTypeOK, NEW t \in Threads, Start(t)
    PROVE  Pipeline' /\ Pending' \subseteq Pending
<1> DEFINE h == Head(waiting)
           s == IF h \in flagged THEN "over" ELSE "going"
<1>1. /\ waiting \in Seq(Jobs) /\ waiting # <<>> /\ waiting' = Tail(waiting)
      /\ thread[t] \in {"ready", "woken"} /\ thread' = [thread EXCEPT ![t] = "busy"]
      /\ job' = [job EXCEPT ![t] = h] /\ stage' = [stage EXCEPT ![t] = s]
      /\ taken' = taken /\ channel' = channel /\ s \in {"over", "going"}
    BY DEF Start, Take, HasLock, PoolTypeOK
<1>2. /\ h \in Jobs /\ Tail(waiting) \in Seq(Jobs) /\ Once(Tail(waiting))
      /\ ToSet(waiting) = ToSet(Tail(waiting)) \union {h} /\ h \notin ToSet(Tail(waiting))
    BY <1>1, OneLess DEF Pipeline
<1> HIDE DEF h, s
<1>3. /\ stage \in [Threads -> Stages] /\ thread \in [Threads -> ThreadStates]
      /\ job \in [Threads -> Jobs \union {NoJob}]
    BY DEF Pipeline, PoolTypeOK
<1>4. /\ stage' \in [Threads -> Stages]
      /\ thread'[t] = "busy" /\ job'[t] = h /\ stage'[t] = s
      /\ \A u \in Threads \ {t} : /\ thread'[u] = thread[u] /\ job'[u] = job[u]
                                  /\ stage'[u] = stage[u]
    BY <1>1, <1>3 DEF Stages
<1>5. h \in taken /\ h \notin LastsOf(channel)
    BY <1>2 DEF Pipeline, Coming
<1>6. \A u \in Threads : thread[u] = "busy" => job[u] # h /\ job[u] \in taken /\ job[u] \notin ToSet(waiting)
    BY <1>2 DEF Pipeline
<1>7. Working' \subseteq Working \union {h}
    BY <1>4 DEF Working, Unsent
<1>8. ToSet(waiting') \union {h} \subseteq ToSet(waiting) /\ Once(waiting')
    BY <1>1, <1>2
<1>9. \A u \in Threads : stage'[u] = "out" <=> thread'[u] # "busy"
    BY <1>1, <1>4 DEF Pipeline
<1>10. \A u \in Threads : thread'[u] = "busy" => job'[u] \in taken' \ ToSet(waiting')
    BY <1>1, <1>2, <1>4, <1>5, <1>6
<1>11. \A u, v \in Threads : thread'[u] = "busy" /\ thread'[v] = "busy" /\ job'[u] = job'[v] => u = v
    <2>1. \A u, v \in Threads : thread[u] = "busy" /\ thread[v] = "busy" /\ job[u] = job[v] => u = v
        BY DEF Pipeline
    <2> QED
        BY <1>4, <1>6, <2>1
<1>12. Coming' \subseteq Coming
    BY <1>7, <1>8 DEF Coming
<1>13. /\ channel' \in Seq(Reports) /\ LastOnce(channel') /\ LastsOf(channel') = LastsOf(channel)
       /\ LastsOf(channel) \subseteq taken \ Coming /\ ToSet(waiting) \subseteq taken
    BY <1>1 DEF Pipeline
<1>14. Pipeline'
    BY <1>1, <1>4, <1>8, <1>9, <1>10, <1>11, <1>12, <1>13 DEF Pipeline
<1> QED
    BY <1>12, <1>13, <1>14 DEF Pending

(* A busy thread goes from one stage to another, and perhaps reports.       *)
LEMMA StagePipes ==
    ASSUME Pipeline, PoolTypeOK, NEW t \in Threads, stage[t] # "out",
           UNCHANGED poolVars, NEW s \in Stages \ {"out"}, stage' = [stage EXCEPT ![t] = s],
           s \in Unsent => stage[t] \in Unsent,
           \/ channel' = channel
           \/ \E e \in Reports : /\ channel' = Append(channel, e) /\ e.of = job[t]
                                 /\ e.last => stage[t] \in Unsent /\ s \notin Unsent
    PROVE  Pipeline' /\ Pending' \subseteq Pending
<1>1. /\ waiting' = waiting /\ thread' = thread /\ job' = job /\ taken' = taken
    BY DEF poolVars
<1>2. /\ stage \in [Threads -> Stages] /\ \A u \in Threads : stage[u] = "out" <=> thread[u] # "busy"
      /\ thread[t] = "busy" /\ job[t] \in taken \ ToSet(waiting)
      /\ \A u \in Threads : thread[u] = "busy" /\ job[u] = job[t] => u = t
    BY DEF Pipeline
<1>3. /\ stage' \in [Threads -> Stages] /\ stage'[t] = s
      /\ \A u \in Threads \ {t} : stage'[u] = stage[u]
    BY <1>2
<1>4. \A u \in Threads : stage'[u] = "out" <=> thread'[u] # "busy"
    BY <1>1, <1>2, <1>3
<1>5. Working' \subseteq Working
    BY <1>1, <1>3 DEF Working
<1>6. Coming' \subseteq Coming
    BY <1>1, <1>5 DEF Coming
<1>7. stage[t] \in Unsent /\ s \notin Unsent => job[t] \in Coming /\ job[t] \notin Coming'
    <2> SUFFICES ASSUME stage[t] \in Unsent, s \notin Unsent
                 PROVE  job[t] \in Coming /\ job[t] \notin Coming'
        OBVIOUS
    <2>1. job[t] \in Working
        BY DEF Working
    <2>2. \A u \in Threads : stage'[u] \in Unsent => thread[u] = "busy" /\ u # t
        BY <1>2, <1>3 DEF Unsent
    <2>3. job[t] \notin Working'
        BY <1>1, <1>2, <2>2 DEF Working
    <2> QED
        BY <1>1, <1>2, <2>1, <2>3 DEF Coming
<1>8. channel \in Seq(Reports) /\ LastOnce(channel) /\ LastsOf(channel) \subseteq taken \ Coming
    BY DEF Pipeline
<1>9. /\ channel' \in Seq(Reports) /\ LastOnce(channel')
      /\ LastsOf(channel') \subseteq taken \ Coming' /\ Pending' \subseteq Pending
    <2>1. CASE channel' = channel
        BY <1>6, <1>8, <2>1 DEF Pending
    <2>2. CASE \E e \in Reports : /\ channel' = Append(channel, e) /\ e.of = job[t]
                                  /\ e.last => stage[t] \in Unsent /\ s \notin Unsent
        <3>1. PICK e \in Reports : /\ channel' = Append(channel, e) /\ e.of = job[t]
                                   /\ e.last => stage[t] \in Unsent /\ s \notin Unsent
            BY <2>2
        <3>2. e.last => e.of \notin LastsOf(channel)
            BY <1>7, <1>8, <3>1
        <3>3. /\ channel' \in Seq(Reports) /\ LastOnce(channel')
              /\ LastsOf(channel') = LastsOf(channel) \union IF e.last THEN {e.of} ELSE {}
            BY <1>8, <3>1, <3>2, OneReportMore
        <3> QED
            BY <1>2, <1>6, <1>7, <1>8, <3>1, <3>3 DEF Pending
    <2> QED
        BY <2>1, <2>2
<1>10. Pipeline'
    BY <1>1, <1>3, <1>4, <1>9 DEF Pipeline
<1> QED
    BY <1>9, <1>10

LEMMA ReportPipes ==
    ASSUME Pipeline, PoolTypeOK, NEW t \in Threads,
           Progress(t) \/ Outcome(t) \/ Panics(t) \/ Wake(t) \/ Hook(t)
    PROVE  Pipeline' /\ Pending' \subseteq Pending
<1>0. /\ stage \in [Threads -> Stages] /\ \A u \in Threads : stage[u] = "out" <=> thread[u] # "busy"
      /\ \A u \in Threads : thread[u] = "busy" => job[u] \in taken
      /\ taken \subseteq Jobs
    BY DEF Pipeline, PoolTypeOK
<1>1. CASE Progress(t)
    <2> DEFINE e == [of |-> job[t], last |-> FALSE]
    <2>1. stage[t] = "going" /\ job[t] \in Jobs
        BY <1>0, <1>1 DEF Progress
    <2>2. e \in Reports /\ e.of = job[t] /\ ~e.last
        BY <2>1 DEF Reports
    <2>3. channel' = Append(channel, e)
        BY <1>1 DEF Progress
    <2> HIDE DEF e
    <2>4. /\ stage' = [stage EXCEPT ![t] = "progressed"] /\ "progressed" \in Stages \ {"out"}
          /\ stage[t] # "out" /\ stage[t] \in Unsent /\ UNCHANGED poolVars
        BY <1>1, <2>1 DEF Progress, Stages, Unsent
    <2> QED
        BY <2>2, <2>3, <2>4, StagePipes
<1>2. CASE Outcome(t)
    <2> DEFINE e == [of |-> job[t], last |-> TRUE]
    <2>1. stage[t] \in {"over", "going"}
        BY <1>2 DEF Outcome
    <2>2. thread[t] = "busy"
        BY <1>0, <2>1
    <2>3. e \in Reports /\ e.of = job[t]
        BY <1>0, <2>2 DEF Reports
    <2>4. channel' = Append(channel, e)
        BY <1>2 DEF Outcome
    <2> HIDE DEF e
    <2>5. /\ stage' = [stage EXCEPT ![t] = "sent"] /\ "sent" \in Stages \ {"out"}
          /\ stage[t] # "out" /\ stage[t] \in Unsent /\ "sent" \notin Unsent /\ UNCHANGED poolVars
        BY <1>2, <2>1 DEF Outcome, Stages, Unsent
    <2> QED
        BY <2>3, <2>4, <2>5, StagePipes
<1>3. CASE Wake(t) \/ Hook(t)
    <2>1. \E s \in Stages \ {"out"} : /\ stage' = [stage EXCEPT ![t] = s]
                                      /\ s \in Unsent => stage[t] \in Unsent
        <3>1. CASE Wake(t)
            <4> DEFINE s == IF woken THEN After[stage[t]]
                            ELSE IF stage[t] = "sent" THEN "calling" ELSE "hooking"
            <4>1. stage' = [stage EXCEPT ![t] = s] /\ stage[t] \in {"sent", "progressed"}
                BY <3>1 DEF Wake
            <4>2. s \in Stages \ {"out"} /\ (s \in Unsent => stage[t] \in Unsent)
                BY <4>1 DEF After, Stages, Unsent
            <4> HIDE DEF s
            <4> QED
                BY <4>1, <4>2
        <3>2. CASE Hook(t)
            <4> DEFINE s == After[stage[t]]
            <4>1. stage' = [stage EXCEPT ![t] = s] /\ stage[t] \in {"calling", "hooking"}
                BY <3>2 DEF Hook
            <4>2. s \in Stages \ {"out"} /\ (s \in Unsent => stage[t] \in Unsent)
                BY <4>1 DEF After, Stages, Unsent
            <4> HIDE DEF s
            <4> QED
                BY <4>1, <4>2
        <3> QED
            BY <1>3, <3>1, <3>2
    <2>2. stage[t] # "out" /\ UNCHANGED poolVars /\ channel' = channel
        BY <1>3 DEF Wake, Hook
    <2> QED
        BY <2>1, <2>2, StagePipes
<1>4. CASE Panics(t)
    <2>1. stage[t] \in {"going", "over"}
        BY <1>4 DEF Panics
    <2>2. /\ stage' = [stage EXCEPT ![t] = "done"] /\ "done" \in Stages \ {"out"}
          /\ stage[t] # "out" /\ "done" \notin Unsent /\ UNCHANGED poolVars
          /\ channel' = channel
        BY <1>4, <2>1 DEF Panics, Stages, Unsent
    <2> QED
        BY <2>2, StagePipes
<1> QED
    BY <1>1, <1>2, <1>3, <1>4

(* A thread that is not busy goes on, or one is done with its job.          *)
LEMMA ThreadPipes ==
    ASSUME Pipeline, PoolTypeOK, channel' = channel, taken' = taken,
           waiting' = waiting \/ waiting' = <<>>,
           stage' \in [Threads -> Stages],
           \A t \in Threads :
               \/ stage'[t] = stage[t] /\ job'[t] = job[t] /\ (thread'[t] = "busy" <=> thread[t] = "busy")
               \/ stage[t] \notin Unsent /\ stage'[t] = "out" /\ thread'[t] # "busy"
    PROVE  Pipeline' /\ Pending' \subseteq Pending
<1>1. Working' \subseteq Working
    BY DEF Working, Unsent
<1>2. ToSet(waiting') \subseteq ToSet(waiting) /\ Once(waiting')
    <2>1. ToSet(<<>>) = {} /\ Once(<<>>)
        BY DEF ToSet, Once
    <2> QED
        BY <2>1 DEF Pipeline
<1>3. Coming' \subseteq Coming
    BY <1>1, <1>2 DEF Coming
<1>4. \A t \in Threads : stage'[t] = "out" <=> thread'[t] # "busy"
    BY DEF Pipeline
<1>5. \A t \in Threads : thread'[t] = "busy" => thread[t] = "busy" /\ job'[t] = job[t]
    OBVIOUS
<1>6. \A t \in Threads : thread'[t] = "busy" => job'[t] \in taken' \ ToSet(waiting')
    BY <1>2, <1>5 DEF Pipeline
<1>7. \A t, u \in Threads : thread'[t] = "busy" /\ thread'[u] = "busy" /\ job'[t] = job'[u] => t = u
    BY <1>5 DEF Pipeline
<1>8. /\ channel' \in Seq(Reports) /\ LastOnce(channel') /\ LastsOf(channel') = LastsOf(channel)
      /\ LastsOf(channel) \subseteq taken \ Coming /\ ToSet(waiting) \subseteq taken
    BY DEF Pipeline
<1>9. Pipeline'
    BY <1>2, <1>3, <1>4, <1>6, <1>7, <1>8 DEF Pipeline
<1> QED
    BY <1>3, <1>8, <1>9 DEF Pending

LEMMA PoolPipes ==
    ASSUME Pipeline, PoolTypeOK,
           \/ PoolStep \/ Quit \/ \E t \in Threads : JobEnds(t)
    PROVE  Pipeline' /\ Pending' \subseteq Pending
<1>0. /\ stage \in [Threads -> Stages] /\ thread \in [Threads -> ThreadStates]
      /\ job \in [Threads -> Jobs \union {NoJob}]
    BY DEF Pipeline, PoolTypeOK
<1>1. CASE \E t \in Threads : JobEnds(t)
    <2>1. PICK t \in Threads : JobEnds(t)
        BY <1>1
    <2>2. /\ stage[t] = "done" /\ stage' = [stage EXCEPT ![t] = "out"]
          /\ thread' = [thread EXCEPT ![t] = "ready"] /\ job' = [job EXCEPT ![t] = NoJob]
          /\ waiting' = waiting /\ taken' = taken /\ channel' = channel
        BY <2>1 DEF JobEnds, Finish
    <2>3. /\ stage' \in [Threads -> Stages] /\ stage'[t] = "out" /\ thread'[t] = "ready"
          /\ \A u \in Threads \ {t} : /\ thread'[u] = thread[u] /\ job'[u] = job[u]
                                      /\ stage'[u] = stage[u]
        BY <1>0, <2>2 DEF Stages
    <2>4. \A u \in Threads :
               \/ stage'[u] = stage[u] /\ job'[u] = job[u] /\ (thread'[u] = "busy" <=> thread[u] = "busy")
               \/ stage[u] \notin Unsent /\ stage'[u] = "out" /\ thread'[u] # "busy"
        BY <2>2, <2>3 DEF Unsent
    <2> QED
        BY <2>2, <2>3, <2>4, ThreadPipes
<1>2. CASE Quit
    <2>1. /\ waiting' = <<>> /\ thread' = thread /\ job' = job /\ taken' = taken
          /\ stage' = stage /\ channel' = channel
        BY <1>2 DEF Quit, Close
    <2> QED
        BY <1>0, <2>1, ThreadPipes
<1>3. CASE PoolStep
    <2>1. channel' = channel /\ stage' = stage
        BY <1>3 DEF PoolStep, httpVars
    <2>2. /\ waiting' = waiting /\ job' = job /\ taken' = taken
          /\ \A u \in Threads : thread'[u] = "busy" <=> thread[u] = "busy"
        <3>1. ASSUME NEW t \in Threads, End(t) \/ Sleep(t) \/ Stir(t) \/ Spawn(Main, t)
              PROVE  <2>2!:
            BY <1>0, <3>1 DEF End, Sleep, Stir, Spawn, HasLock
        <3>2. ASSUME SpawnFails(Main) PROVE <2>2!:
            BY <3>2 DEF SpawnFails
        <3>3. ASSUME NotifyOne(Main) PROVE <2>2!:
            BY <1>0, <3>3 DEF NotifyOne
        <3>4. ASSUME NotifyAll(Main) PROVE <2>2!:
            BY <1>0, <3>4 DEF NotifyAll
        <3> QED
            BY <1>3, <3>1, <3>2, <3>3, <3>4 DEF PoolStep
    <2> QED
        BY <1>0, <2>1, <2>2, ThreadPipes
<1> QED
    BY <1>1, <1>2, <1>3

(* A request made is one more that is to come.                              *)
LEMMA RequestPipes ==
    ASSUME Pipeline, PoolTypeOK, Request
    PROVE  Pipeline' /\ Pending' \subseteq Pending \union {asked + 1}
<1> DEFINE j == asked + 1
<1>1. /\ waiting \in Seq(Jobs) /\ waiting' = Append(waiting, j) /\ taken' = taken \union {j}
      /\ j \in Jobs /\ j \notin taken
      /\ thread' = thread /\ job' = job /\ stage' = stage /\ channel' = channel
    BY DEF Request, Submit, PoolTypeOK
<1> HIDE DEF j
<1>2. j \notin ToSet(waiting) /\ Once(waiting) /\ ToSet(waiting) \subseteq taken
    BY <1>1 DEF Pipeline
<1>3. Once(waiting') /\ ToSet(waiting') = ToSet(waiting) \union {j}
    BY <1>1, <1>2, OnceMore, ToldMore
<1>4. Working' = Working
    BY <1>1 DEF Working
<1>5. Coming' = Coming \union {j}
    BY <1>3, <1>4 DEF Coming
<1>6. Pipeline'
    BY <1>1, <1>3, <1>5 DEF Pipeline
<1> QED
    BY <1>1, <1>5, <1>6 DEF Pending, j

(* Whatever else happens, what is to come does not.                         *)
LEMMA OtherPipes ==
    ASSUME Pipeline, UNCHANGED <<poolVars, stage>>, channel' = channel \/ channel' = <<>>
    PROVE  Pipeline' /\ Coming' = Coming /\ Pending' \subseteq Pending
<1>1. /\ waiting' = waiting /\ thread' = thread /\ job' = job /\ taken' = taken /\ stage' = stage
    BY DEF poolVars
<1>2. Coming' = Coming
    BY <1>1 DEF Coming, Working
<1>3. /\ channel' \in Seq(Reports) /\ LastOnce(channel')
      /\ LastsOf(channel') \subseteq LastsOf(channel)
    <2>1. <<>> \in Seq(Reports) /\ LastOnce(<<>>) /\ LastsOf(<<>>) = {}
        BY DEF LastOnce, LastsOf
    <2> QED
        BY <2>1 DEF Pipeline
<1>4. Pipeline'
    BY <1>1, <1>2, <1>3 DEF Pipeline
<1> QED
    BY <1>2, <1>3, <1>4 DEF Pending

-----------------------------------------------------------------------------
(* The process that serves requests, and the one that plays a recording.    *)
Loops == {"scripts", "top", "asleep", "frame", "gone"}

Serving ==
    /\ loop \in Loops
    /\ cursor = 0 /\ feed = 0 /\ ~paused /\ held = {} /\ heard = {}
    /\ Accounts /\ Books(State)
    /\ recording => \E past : Past(past) /\ Recorded(past)
    /\ ~recording => file = <<>>

Playing ==
    /\ loop = "player" /\ waiting = <<>> /\ \A t \in Threads : thread[t] = "none"
    /\ cursor \in 0 .. Len(file) /\ (paused => feed = 0)
    /\ \E past : Past(past) /\ Played(past[cursor])
    /\ cursor > 0 => heard = ToSet(file[cursor].told)

HttpInv ==
    /\ Held /\ Pipeline /\ mode \in {"live", "replay"}
    /\ mode = "live" => Serving
    /\ mode = "replay" => Playing

LEMMA StateIs ==
    ASSUME Books(State)
    PROVE  /\ State \in Book /\ State.inFlight = inFlight /\ State.cancelled = cancelled
           /\ State.now = justNow /\ State.answers = answers /\ State.told = <<>>
BY DEF State, Books, Book

LEMMA FreshIs == Books(Fresh) /\ Fresh \in Book
<1>1. <<>> \in Seq(Jobs) /\ <<>> \in Seq(Tales) /\ Once(<<>>) /\ ToSet(<<>>) = {}
    BY DEF Once, ToSet
<1> QED
    BY <1>1 DEF Books, Book, Fresh

LEMMA NoFrameIs == NoFrame \in Frames
<1>1. <<>> \in Seq(Reports) /\ <<>> \in Seq(Tales) /\ <<>> \in Seq(Commands)
    OBVIOUS
<1> QED
    BY <1>1 DEF NoFrame, Frames

(* One frame in which scripts did one thing more.                           *)
LEMMA DidMore ==
    ASSUME NEW b \in Book, NEW f \in Frames, NEW c \in Commands,
           NEW g, g = [f EXCEPT !.did = Append(@, c)]
    PROVE  /\ g \in Frames /\ g.told = f.told /\ g.arrivals = f.arrivals
           /\ Ran(b, g) = Again(Ran(b, f), c)
<1>1. f.arrivals \in Seq(Reports) /\ f.did \in Seq(Commands) /\ f.told \in Seq(Tales)
    BY DEF Frames
<1>2. Append(f.did, c) \in Seq(Commands)
    BY <1>1
<1>3. g \in Frames /\ g.told = f.told /\ g.arrivals = f.arrivals /\ g.did = Append(f.did, c)
    BY <1>2 DEF Frames
<1> DEFINE w == Pumped(b, f.arrivals)
           d == Redone(w, f.did)
           e == Redone(w, g.did)
           x == Ran(b, f)
           y == Ran(b, g)
           z == Again(x, c)
<1>4. w \in Book
    BY <1>1, PumpedIsABook
<1>5. d \in Book /\ x \in Book /\ x.told = <<>> /\ Alike(x, d)
    BY <1>1, <1>4, RedoneKeeps, RanIs
<1>6. y \in Book /\ y.told = <<>> /\ Alike(y, e)
    BY <1>3, RanIs
<1>7. e = Again(d, c)
    BY <1>1, <1>3, <1>4, RedoneMore
<1> HIDE DEF w, d, e, x, y
<1>8. z \in Book /\ z.told = <<>> /\ Alike(z, e)
    BY <1>5, <1>7, AgainIs, AgainAlike
<1> HIDE DEF z
<1>9. Alike(y, z)
    BY <1>6, <1>8 DEF Alike
<1>10. y = z
    BY <1>6, <1>8, <1>9, BooksEqual
<1> QED
    BY <1>3, <1>10 DEF x, y, z

(* Where a frame begins its scripts.                                        *)
LEMMA PumpedFrame ==
    ASSUME NEW b \in Book, NEW events \in Seq(Reports), NEW f,
           f = [arrivals |-> events, did |-> <<>>, told |-> Pumped(b, events).told]
    PROVE  /\ f \in Frames /\ Ran(b, f) = [Pumped(b, events) EXCEPT !.told = <<>>]
<1>1. Pumped(b, events) \in Book
    BY PumpedIsABook
<1>2. Pumped(b, events).told \in Seq(Tales) /\ <<>> \in Seq(Commands)
    BY <1>1 DEF Book
<1>3. f \in Frames /\ f.did = <<>> /\ f.arrivals = events
    BY <1>2 DEF Frames
<1>4. Redone(Pumped(b, events), <<>>) = Pumped(b, events)
    BY <1>1, NothingRedone
<1> QED
    BY <1>3, <1>4 DEF Ran

-----------------------------------------------------------------------------
(* Serving, step by step.                                                   *)
LEMMA ServingInit == Init => Pipeline /\ Serving
<1> SUFFICES ASSUME Init PROVE Pipeline /\ Serving
    OBVIOUS
<1>1. /\ waiting = <<>> /\ taken = {} /\ channel = <<>> /\ stage = [t \in Threads |-> "out"]
      /\ thread = [t \in Threads |-> "none"]
      /\ loop = "scripts" /\ cursor = 0 /\ feed = 0 /\ ~paused /\ held = {} /\ heard = {}
      /\ inFlight = {} /\ cancelled = {} /\ justNow = <<>> /\ answers = [r \in Jobs |-> 0]
      /\ frame = NoFrame /\ file = <<>>
    BY DEF Init, PoolInit, HttpInit
<1>2. <<>> \in Seq(Reports) /\ LastOnce(<<>>) /\ LastsOf(<<>>) = {} /\ Once(<<>>) /\ ToSet(<<>>) = {}
    BY DEF LastOnce, LastsOf, Once, ToSet
<1>3. Working = {} /\ Coming = {}
    BY <1>1, <1>2 DEF Working, Unsent, Coming
<1>4. Pipeline
    BY <1>1, <1>2, <1>3 DEF Pipeline, Stages
<1>5. Accounts
    BY <1>1, <1>2, <1>3 DEF Accounts
<1>6. State = Fresh
    BY <1>1 DEF State, Fresh
<1>7. Books(State)
    BY <1>6, FreshIs
<1>8. \E past : Past(past) /\ Recorded(past)
    <2> DEFINE past == [k \in 0 .. 0 |-> Fresh]
    <2>1. DOMAIN past = 0 .. 0 /\ past[0] = Fresh /\ \A k \in 0 .. 0 : past[k] = Fresh
        OBVIOUS
    <2>2. file \in Seq(Frames) /\ Len(file) = 0 /\ \A k \in 1 .. Len(file) : FALSE
        BY <1>1
    <2> HIDE DEF past
    <2>3. Fresh.told = <<>> /\ Fresh.now = <<>>
        BY DEF Fresh
    <2>4. Past(past)
        BY <2>1, <2>2, <2>3, FreshIs DEF Past
    <2> DEFINE w == Pumped(Fresh, <<>>)
    <2>5. w = Fresh
        BY <2>3, FreshIs, NothingOpened, NothingDrained DEF Pumped
    <2>6. Redone(Fresh, <<>>) = Fresh /\ NoFrame.arrivals = <<>> /\ NoFrame.did = <<>>
        BY FreshIs, NothingRedone DEF NoFrame
    <2>7. Ran(Fresh, NoFrame) = [Fresh EXCEPT !.told = <<>>]
        BY <2>5, <2>6 DEF Ran
    <2>8. Ran(Fresh, NoFrame) = Fresh
        BY <2>7 DEF Fresh
    <2>9. NoFrame.told = <<>> /\ NoFrame.arrivals = <<>>
        BY DEF NoFrame
    <2>10. frame \in Frames /\ State = Ran(past[Len(file)], frame)
           /\ frame.told = Pumped(past[Len(file)], frame.arrivals).told
        BY <1>1, <1>6, <2>1, <2>2, <2>3, <2>5, <2>8, <2>9, NoFrameIs
    <2>11. Recorded(past)
        BY <1>1, <2>10 DEF Recorded
    <2> QED
        BY <2>4, <2>11
<1> QED
    BY <1>1, <1>4, <1>5, <1>7, <1>8 DEF Serving, Loops

(* What is to come is accounted for as long as only that changes.           *)
LEMMA QuietServes ==
    ASSUME Serving, Pending' \subseteq Pending, taken' = taken,
           UNCHANGED <<inFlight, cancelled, justNow, answers, frame, replayVars, file>>,
           \/ loop' = loop
           \/ loop # "scripts" /\ loop' \in Loops \ {"scripts"}
    PROVE  Serving'
<1>1. /\ cursor = 0 /\ feed = 0 /\ ~paused /\ held = {} /\ heard = {}
      /\ Accounts /\ Books(State) /\ loop \in Loops
    BY DEF Serving
<1>2. /\ cursor' = cursor /\ feed' = feed /\ paused' = paused /\ held' = held /\ heard' = heard
      /\ recording' = recording /\ file' = file
    BY DEF replayVars
<1>3. Accounts'
    BY <1>1 DEF Accounts, Pending
<1>4. State' = State
    BY DEF State
<1>5. Books(State)'
    BY <1>1, <1>4 DEF Books
<1>6. \A past : Past(past) /\ Recorded(past) => (Past(past) /\ Recorded(past))'
    BY <1>2, <1>4 DEF Past, Recorded
<1>7. /\ recording => \E past : Past(past) /\ Recorded(past)
      /\ ~recording => file = <<>>
    BY DEF Serving
<1>8. /\ recording' => \E past : (Past(past) /\ Recorded(past))'
      /\ ~recording' => file' = <<>>
    BY <1>2, <1>6, <1>7
<1> QED
    BY <1>1, <1>2, <1>3, <1>5, <1>8 DEF Serving, Loops

(* A recorded frame goes on with what a script does.                        *)
LEMMA DidServes ==
    ASSUME Serving, loop = "scripts", NEW c \in Commands,
           frame' = Noted([frame EXCEPT !.did = Append(@, c)]),
           State' = Again(State, c), Books(State)', Accounts',
           UNCHANGED <<loop, replayVars, file>>
    PROVE  Serving'
<1>1. /\ cursor = 0 /\ feed = 0 /\ ~paused /\ held = {} /\ heard = {} /\ loop \in Loops
      /\ Books(State)
    BY DEF Serving
<1>2. /\ cursor' = cursor /\ feed' = feed /\ paused' = paused /\ held' = held /\ heard' = heard
      /\ recording' = recording /\ file' = file
    BY DEF replayVars
<1>3. ASSUME recording PROVE \E past : (Past(past) /\ Recorded(past))'
    <2>1. PICK past : Past(past) /\ Recorded(past)
        BY <1>3 DEF Serving
    <2>2. Past(past)'
        BY <1>2, <2>1 DEF Past
    <2> DEFINE b == past[Len(file)]
               g == [frame EXCEPT !.did = Append(@, c)]
    <2>3. frame \in Frames /\ State = Ran(b, frame) /\ frame.told = Pumped(b, frame.arrivals).told
        BY <2>1 DEF Recorded
    <2>4. b \in Book
        <3>1. Len(file) \in 0 .. Len(file)
            BY <2>1 DEF Past
        <3>2. Books(b)
            BY <2>1, <3>1 DEF Past
        <3> HIDE DEF b
        <3> QED
            BY <3>2 DEF Books, Book
    <2>5. frame' = g
        BY <1>3 DEF Noted
    <2> HIDE DEF b, g
    <2>6. /\ g \in Frames /\ g.told = frame.told /\ g.arrivals = frame.arrivals
          /\ Ran(b, g) = Again(Ran(b, frame), c)
        BY <2>3, <2>4, DidMore DEF g
    <2>7. /\ frame' \in Frames /\ State' = Ran(b, frame')
          /\ frame'.told = Pumped(b, frame'.arrivals).told
        BY <2>3, <2>5, <2>6
    <2>8. Recorded(past)'
        BY <1>2, <2>7 DEF Recorded, b
    <2> QED
        BY <2>2, <2>8
<1>4. ~recording' => file' = <<>>
    BY <1>2 DEF Serving
<1> QED
    BY <1>1, <1>2, <1>3, <1>4 DEF Serving, Loops

LEMMA CancelServes ==
    ASSUME Pipeline, Serving, NEW r \in Jobs, Cancel(r)
    PROVE  Pipeline' /\ Serving'
<1>1. /\ loop = "scripts" /\ r \in inFlight /\ UNCHANGED <<poolVars, stage>> /\ channel' = channel
      /\ answers' = answers /\ UNCHANGED <<loop, replayVars, file>>
      /\ frame' = Noted([frame EXCEPT !.did = Append(@, [op |-> "cancel", of |-> r])])
    BY DEF Cancel
<1>2. Pipeline' /\ Pending' \subseteq Pending /\ taken' = taken
    BY <1>1, OtherPipes DEF poolVars
<1>3. Books(State) /\ Accounts
    BY DEF Serving
<1>4. /\ inFlight' = inFlight \ {r} /\ cancelled' = cancelled \union {r}
      /\ justNow' = Append(justNow, r)
    BY DEF Cancel, Cancelled, State
<1>5. [op |-> "cancel", of |-> r] \in Commands
    BY DEF Commands
<1>6. State' = Again(State, [op |-> "cancel", of |-> r])
    BY <1>1, <1>4 DEF State, Again, Cancelled
<1>7. /\ inFlight \in SUBSET Jobs /\ cancelled \in SUBSET Jobs /\ justNow \in Seq(Jobs)
      /\ answers \in [Jobs -> {0, 1}] /\ Once(justNow)
      /\ inFlight \intersect (cancelled \union ToSet(justNow)) = {}
      /\ \A s \in inFlight \union ToSet(justNow) : answers[s] = 0
    BY <1>3 DEF Books, State
<1>8. /\ Once(justNow') /\ ToSet(justNow') = ToSet(justNow) \union {r} /\ justNow' \in Seq(Jobs)
    <2>1. r \notin ToSet(justNow)
        BY <1>1, <1>7
    <2> QED
        BY <1>4, <1>7, <2>1, OnceMore, ToldMore
<1>9. Books(State)'
    <2>1. <<>> \in Seq(Tales)
        OBVIOUS
    <2>2. /\ inFlight' \intersect (cancelled' \union ToSet(justNow')) = {}
          /\ \A s \in inFlight' \union ToSet(justNow') : answers'[s] = 0
          /\ inFlight' \in SUBSET Jobs /\ cancelled' \in SUBSET Jobs
          /\ answers' \in [Jobs -> {0, 1}]
        BY <1>1, <1>4, <1>7, <1>8
    <2> QED
        BY <1>8, <2>1, <2>2 DEF Books, State
<1>10. Accounts'
    <2>1. /\ Pending \subseteq inFlight \union cancelled
          /\ inFlight \union cancelled \union ToSet(justNow) \subseteq taken
          /\ \A s \in Jobs \ taken : answers[s] = 0
        BY <1>3 DEF Accounts, Pending
    <2>2. Pending' \subseteq inFlight' \union cancelled'
        BY <1>2, <1>4, <2>1
    <2>3. inFlight' \union cancelled' \union ToSet(justNow') \subseteq taken'
        BY <1>1, <1>2, <1>4, <1>8, <2>1
    <2> QED
        BY <1>1, <1>2, <2>1, <2>2, <2>3 DEF Accounts, Pending
<1>11. Serving'
    BY <1>1, <1>5, <1>6, <1>9, <1>10, DidServes
<1> QED
    BY <1>2, <1>11

LEMMA RequestServes ==
    ASSUME Pipeline, PoolTypeOK, Serving, Request
    PROVE  Pipeline' /\ Serving'
<1> DEFINE r == asked + 1
<1>1. /\ loop = "scripts" /\ r \in Jobs /\ r \notin taken /\ taken' = taken \union {r}
      /\ answers' = answers /\ UNCHANGED <<loop, replayVars, file>>
      /\ inFlight' = inFlight \union {r} /\ cancelled' = cancelled /\ justNow' = justNow
      /\ frame' = Noted([frame EXCEPT !.did = Append(@, [op |-> "request", of |-> r])])
    BY DEF Request, Submit
<1>2. Pipeline' /\ Pending' \subseteq Pending \union {r}
    BY RequestPipes
<1> HIDE DEF r
<1>3. Books(State) /\ Accounts
    BY DEF Serving
<1>4. [op |-> "request", of |-> r] \in Commands
    BY <1>1 DEF Commands
<1>5. State' = Again(State, [op |-> "request", of |-> r])
    BY <1>1 DEF State, Again
<1>6. /\ inFlight \in SUBSET Jobs /\ cancelled \in SUBSET Jobs /\ justNow \in Seq(Jobs)
      /\ answers \in [Jobs -> {0, 1}] /\ Once(justNow)
      /\ inFlight \intersect (cancelled \union ToSet(justNow)) = {}
      /\ \A s \in inFlight \union ToSet(justNow) : answers[s] = 0
    BY <1>3 DEF Books, State
<1>7. /\ Pending \subseteq inFlight \union cancelled
      /\ inFlight \union cancelled \union ToSet(justNow) \subseteq taken
      /\ \A s \in Jobs \ taken : answers[s] = 0
    BY <1>3 DEF Accounts, Pending
<1>8. Books(State)'
    <2>1. <<>> \in Seq(Tales)
        OBVIOUS
    <2>2. /\ inFlight' \intersect (cancelled' \union ToSet(justNow')) = {}
          /\ \A s \in inFlight' \union ToSet(justNow') : answers'[s] = 0
          /\ inFlight' \in SUBSET Jobs
        BY <1>1, <1>6, <1>7
    <2> QED
        BY <1>1, <1>6, <2>1, <2>2 DEF Books, State
<1>9. Accounts'
    BY <1>1, <1>2, <1>7 DEF Accounts, Pending
<1>10. Serving'
    BY <1>1, <1>4, <1>5, <1>8, <1>9, DidServes
<1> QED
    BY <1>2, <1>10

LEMMA PumpServes ==
    ASSUME Pipeline, Serving, Pump
    PROVE  Pipeline' /\ Serving'
<1> DEFINE w == Pumped(State, channel)
<1>1. /\ loop = "frame" /\ UNCHANGED <<poolVars, stage>> /\ channel' = <<>> /\ loop' = "scripts"
      /\ UNCHANGED <<replayVars, file>>
      /\ inFlight' = w.inFlight /\ cancelled' = w.cancelled /\ justNow' = w.now
      /\ answers' = w.answers
      /\ frame' = Noted([arrivals |-> channel, did |-> <<>>, told |-> w.told])
    BY DEF Pump
<1>2. Pipeline' /\ Coming' = Coming /\ taken' = taken
    BY <1>1, OtherPipes DEF poolVars
<1>3. Books(State) /\ Accounts /\ State \in Book
    BY StateIs DEF Serving
<1>4. /\ State.inFlight = inFlight /\ State.cancelled = cancelled /\ State.now = justNow
      /\ State.answers = answers
    BY <1>3, StateIs
<1>5. Answered(w, State, Coming)
    <2>1. /\ channel \in Seq(Reports) /\ LastOnce(channel) /\ Coming \intersect LastsOf(channel) = {}
        BY DEF Pipeline
    <2>2. Coming \union LastsOf(channel) \subseteq State.inFlight \union State.cancelled
        BY <1>3, <1>4 DEF Accounts
    <2> QED
        BY <1>3, <2>1, <2>2, PumpedBalances, Zenon
<1>6. channel \in Seq(Reports)
    BY DEF Pipeline
<1>7. w \in Book
    BY <1>3, <1>6, PumpedIsABook
<1>8. /\ Books(w) /\ w.now = <<>> /\ Coming \subseteq w.inFlight \union w.cancelled
      /\ w.inFlight \subseteq inFlight /\ w.cancelled \subseteq cancelled
      /\ \A r \in Jobs \ (inFlight \union ToSet(justNow)) : w.answers[r] = answers[r]
    BY <1>4, <1>5 DEF Answered
<1> DEFINE f == [arrivals |-> channel, did |-> <<>>, told |-> w.told]
<1>9. ASSUME recording
      PROVE  /\ frame' = f /\ f.arrivals = channel /\ f.told = w.told
             /\ f \in Frames /\ Ran(State, f) = [w EXCEPT !.told = <<>>]
    <2>1. frame' = f
        BY <1>1, <1>9 DEF Noted
    <2>2. f = [arrivals |-> channel, did |-> <<>>, told |-> Pumped(State, channel).told]
        OBVIOUS
    <2>3. f.arrivals = channel /\ f.told = w.told
        OBVIOUS
    <2> HIDE DEF f
    <2> QED
        BY <1>3, <1>6, <2>1, <2>2, <2>3, PumpedFrame
<1> HIDE DEF w, f
<1>10. State' = [w EXCEPT !.told = <<>>]
    <2>1. w = [inFlight |-> w.inFlight, cancelled |-> w.cancelled, now |-> w.now,
               answers |-> w.answers, told |-> w.told]
        BY <1>7 DEF Book
    <2>2. [w EXCEPT !.told = <<>>] =
              [inFlight |-> w.inFlight, cancelled |-> w.cancelled, now |-> w.now,
               answers |-> w.answers, told |-> <<>>]
        BY <2>1
    <2> QED
        BY <1>1, <2>2 DEF State
<1>11. Books(State)'
    <2>1. <<>> \in Seq(Tales)
        OBVIOUS
    <2> QED
        BY <1>1, <1>8, <2>1 DEF Books, State
<1>12. Accounts'
    <2>1. LastsOf(channel') = {} /\ ToSet(justNow') = {}
        BY <1>1, <1>8 DEF LastsOf, ToSet
    <2>2. /\ inFlight \union cancelled \union ToSet(justNow) \subseteq taken
          /\ \A r \in Jobs \ taken : answers[r] = 0
        BY <1>3 DEF Accounts
    <2>3. Coming' \union LastsOf(channel') \subseteq inFlight' \union cancelled'
        BY <1>1, <1>2, <1>8, <2>1
    <2>4. inFlight' \union cancelled' \union ToSet(justNow') \subseteq taken'
        BY <1>1, <1>2, <1>8, <2>1, <2>2
    <2>5. \A r \in Jobs \ taken' : answers'[r] = 0
        BY <1>1, <1>2, <1>8, <2>2
    <2> QED
        BY <2>3, <2>4, <2>5 DEF Accounts
<1>13. /\ cursor = 0 /\ feed = 0 /\ ~paused /\ held = {} /\ heard = {}
       /\ cursor' = cursor /\ feed' = feed /\ paused' = paused /\ held' = held /\ heard' = heard
       /\ recording' = recording /\ file' = file
    BY <1>1 DEF Serving, replayVars
<1>14. ASSUME recording PROVE \E past : (Past(past) /\ Recorded(past))'
    <2>1. PICK past : Past(past) /\ Recorded(past)
        BY <1>14 DEF Serving
    <2>2. Past(past)'
        BY <1>13, <2>1 DEF Past
    <2>3. State = past[Len(file)]
        BY <1>1, <2>1 DEF Recorded
    <2>4. /\ frame' \in Frames /\ State' = Ran(past[Len(file)], frame')
          /\ frame'.told = Pumped(past[Len(file)], frame'.arrivals).told
        <3>1. /\ frame' = f /\ f \in Frames /\ State' = Ran(State, f)
              /\ f.told = Pumped(State, channel).told /\ f.arrivals = channel
            BY <1>9, <1>10, <1>14 DEF w
        <3> QED
            BY <2>3, <3>1
    <2>5. Recorded(past)'
        BY <1>1, <1>13, <2>4 DEF Recorded
    <2> QED
        BY <2>2, <2>5
<1>15. ~recording' => file' = <<>>
    BY <1>13 DEF Serving
<1>16. Serving'
    BY <1>1, <1>11, <1>12, <1>13, <1>14, <1>15 DEF Serving, Loops
<1> QED
    BY <1>2, <1>16

LEMMA EndFrameServes ==
    ASSUME Pipeline, Serving, EndFrame
    PROVE  Pipeline' /\ Serving'
<1>1. /\ loop = "scripts" /\ UNCHANGED <<poolVars, stage>> /\ channel' = channel /\ loop' = "top"
      /\ UNCHANGED <<inFlight, cancelled, justNow, answers, replayVars>>
      /\ file' = IF recording THEN Append(file, frame) ELSE file
    BY DEF EndFrame
<1>2. Pipeline' /\ Pending' \subseteq Pending /\ taken' = taken
    BY <1>1, OtherPipes DEF poolVars
<1>3. /\ cursor = 0 /\ feed = 0 /\ ~paused /\ held = {} /\ heard = {} /\ Books(State) /\ Accounts
    BY DEF Serving
<1>4. /\ cursor' = cursor /\ feed' = feed /\ paused' = paused /\ held' = held /\ heard' = heard
      /\ recording' = recording
    BY <1>1 DEF replayVars
<1>5. Accounts'
    BY <1>1, <1>2, <1>3 DEF Accounts, Pending
<1>6. State' = State
    BY <1>1 DEF State
<1>7. Books(State)'
    BY <1>3, <1>6 DEF Books
<1>8. ASSUME recording PROVE \E past : (Past(past) /\ Recorded(past))'
    <2>1. PICK past : Past(past) /\ Recorded(past)
        BY <1>8 DEF Serving
    <2>0. PICK n : n = Len(file)
        OBVIOUS
    <2>2. /\ file \in Seq(Frames) /\ n \in Nat /\ DOMAIN past = 0 .. n /\ past[0] = Fresh
          /\ \A k \in 0 .. n : Books(past[k]) /\ past[k].told = <<>>
          /\ \A k \in 1 .. n : /\ past[k] = Ran(past[k - 1], file[k])
                               /\ file[k].told = Pumped(past[k - 1], file[k].arrivals).told
        BY <2>0, <2>1 DEF Past
    <2>3. /\ frame \in Frames /\ State = Ran(past[n], frame)
          /\ frame.told = Pumped(past[n], frame.arrivals).told
        BY <1>1, <2>0, <2>1 DEF Recorded
    <2>4. /\ file' \in Seq(Frames) /\ Len(file') = n + 1 /\ file'[n + 1] = frame
          /\ \A k \in 1 .. n : file'[k] = file[k]
        BY <1>1, <1>8, <2>0, <2>2, <2>3
    <2>5. PICK then : /\ DOMAIN then = 0 .. n + 1 /\ then[n + 1] = State
                      /\ \A k \in 0 .. n : then[k] = past[k]
        <3> DEFINE then == [k \in 0 .. n + 1 |-> IF k = n + 1 THEN State ELSE past[k]]
        <3>1. /\ DOMAIN then = 0 .. n + 1 /\ then[n + 1] = State
              /\ \A k \in 0 .. n : then[k] = past[k]
            BY <2>2
        <3> HIDE DEF then
        <3> QED
            BY <3>1
    <2>6. /\ \A k \in 0 .. n + 1 : k = n + 1 \/ k \in 0 .. n
          /\ \A k \in 1 .. n + 1 : k = n + 1 \/ k \in 1 .. n
          /\ \A k \in 1 .. n : k - 1 \in 0 .. n /\ k \in 0 .. n
          /\ n + 1 - 1 = n /\ n \in 0 .. n /\ 0 \in 0 .. n
        BY <2>2
    <2>7. \A k \in 0 .. n + 1 : Books(then[k]) /\ then[k].told = <<>>
        BY <1>3, <2>2, <2>5, <2>6, StateIs
    <2>8. ASSUME NEW k \in 1 .. n + 1
          PROVE  /\ then[k] = Ran(then[k - 1], file'[k])
                 /\ file'[k].told = Pumped(then[k - 1], file'[k].arrivals).told
        <3>1. CASE k = n + 1
            <4>1. then[k - 1] = past[n] /\ file'[k] = frame /\ then[k] = State
                BY <2>4, <2>5, <2>6, <3>1
            <4> QED
                BY <2>3, <4>1
        <3>2. CASE k \in 1 .. n
            <4>1. then[k - 1] = past[k - 1] /\ file'[k] = file[k] /\ then[k] = past[k]
                BY <2>4, <2>5, <2>6, <3>2
            <4> QED
                BY <2>2, <3>2, <4>1
        <3> QED
            BY <2>6, <3>1, <3>2
    <2>9. Past(then)'
        BY <2>2, <2>4, <2>5, <2>6, <2>7, <2>8 DEF Past
    <2>10. Recorded(then)'
        BY <1>1, <1>6, <2>4, <2>5 DEF Recorded
    <2> QED
        BY <2>9, <2>10
<1>9. ~recording' => file' = <<>>
    BY <1>1, <1>4 DEF Serving
<1>10. Serving'
    BY <1>1, <1>3, <1>4, <1>5, <1>7, <1>8, <1>9 DEF Serving, Loops
<1> QED
    BY <1>2, <1>10

-----------------------------------------------------------------------------
(* Playing, step by step.                                                   *)
LEMMA IdlePipes ==
    ASSUME waiting = <<>>, channel = <<>>, stage = [t \in Threads |-> "out"],
           thread = [t \in Threads |-> "none"]
    PROVE  Pipeline
<1>1. <<>> \in Seq(Reports) /\ LastOnce(<<>>) /\ LastsOf(<<>>) = {} /\ Once(<<>>) /\ ToSet(<<>>) = {}
    BY DEF LastOnce, LastsOf, Once, ToSet
<1> QED
    BY <1>1 DEF Pipeline, Stages

LEMMA ReplayPlays ==
    ASSUME Serving, Replay
    PROVE  Pipeline' /\ Playing'
<1>1. /\ waiting' = <<>> /\ channel' = <<>> /\ stage' = [t \in Threads |-> "out"]
      /\ thread' = [t \in Threads |-> "none"]
      /\ inFlight' = {} /\ cancelled' = {} /\ justNow' = <<>> /\ answers' = [r \in Jobs |-> 0]
      /\ loop' = "player" /\ file # <<>>
      /\ cursor' = cursor /\ feed' = feed /\ paused' = paused /\ held' = held /\ file' = file
    BY DEF Replay
<1>2. /\ cursor = 0 /\ feed = 0 /\ ~paused /\ held = {} /\ recording
    BY <1>1 DEF Serving
<1>3. Pipeline'
    <2>1. (/\ waiting = <<>> /\ channel = <<>> /\ stage = [t \in Threads |-> "out"]
           /\ thread = [t \in Threads |-> "none"])'
        BY <1>1
    <2>2. (/\ waiting = <<>> /\ channel = <<>> /\ stage = [t \in Threads |-> "out"]
           /\ thread = [t \in Threads |-> "none"]) => Pipeline
        BY IdlePipes
    <2>3. ((/\ waiting = <<>> /\ channel = <<>> /\ stage = [t \in Threads |-> "out"]
            /\ thread = [t \in Threads |-> "none"]) => Pipeline)'
        BY IdlePipes, PTL
    <2> QED
        BY <2>1, <2>3
<1>4. PICK past : Past(past)
    BY <1>2 DEF Serving
<1>5. Past(past)'
    BY <1>1, <1>4 DEF Past
<1>6. State' = Fresh
    BY <1>1 DEF State, Fresh
<1>7. past[0] = Fresh /\ Len(file) \in Nat
    BY <1>4 DEF Past
<1>8. Played(past[0])'
    BY <1>1, <1>2, <1>6, <1>7 DEF Played
<1> QED
    BY <1>1, <1>2, <1>3, <1>5, <1>7, <1>8 DEF Playing

(* What a run went through is a book that balances.                         *)
LEMMA PastIs ==
    ASSUME NEW past, Past(past), NEW k \in 0 .. Len(file)
    PROVE  past[k] \in Book /\ Books(past[k]) /\ past[k].told = <<>>
<1>1. Books(past[k]) /\ past[k].told = <<>>
    BY DEF Past
<1> QED
    BY <1>1 DEF Books, Book

LEMMA FeedPlays ==
    ASSUME Playing, NEW pauses \in BOOLEAN, Feed(pauses)
    PROVE  Playing'
<1>1. PICK past : Past(past) /\ Played(past[cursor])
    BY DEF Playing
<1>2. PICK k : k = cursor + 1
    OBVIOUS
<1> DEFINE b == past[cursor]
           f == file[k]
           w == Pumped(State, f.arrivals)
           d == Redone(w, f.did)
<1>3. /\ cursor \in 0 .. Len(file) /\ cursor < Len(file) /\ Len(file) \in Nat
      /\ cursor' = k /\ feed' = Fed(k, pauses)
      /\ inFlight' = d.inFlight /\ cancelled' = d.cancelled /\ justNow' = d.now
      /\ heard' = held \union ToSet(w.told) /\ held' = {} /\ answers' = w.answers
      /\ paused' = (pauses \/ k = Len(file))
      /\ UNCHANGED <<poolVars, loop, file>>
    BY <1>1, <1>2 DEF Playing, Feed, Past
<1>4. k \in 1 .. Len(file) /\ k \in 0 .. Len(file) /\ k - 1 = cursor
    BY <1>2, <1>3
<1>5. b \in Book /\ b.told = <<>>
    BY <1>1, <1>3, PastIs
<1>6. f \in Frames /\ past[k] = Ran(b, f) /\ f.told = Pumped(b, f.arrivals).told
    BY <1>1, <1>4 DEF Past
<1>7. \/ State = b /\ held = {}
      \/ State = Rested(b) /\ held = ToSet(Opened(b).told)
    <2>1. Played(b)
        BY <1>1
    <2> HIDE DEF b
    <2> QED
        BY <2>1, Zenon DEF Played, Rested
<1>8. State \in Book
    BY <1>5, <1>7, RestedIs
<1>9. Past(past)'
    BY <1>1, <1>3 DEF Past
<1> HIDE DEF b, f, w, d
<1>10. Ran(State, f) = Ran(b, f)
    BY <1>5, <1>6, <1>7, ToldEarlier
<1>11. heard' = ToSet(f.told)
    <2>1. CASE State = b /\ held = {}
        BY <1>3, <1>6, <2>1 DEF w
    <2>2. CASE State = Rested(b) /\ held = ToSet(Opened(b).told)
        <3>1. ToSet(Pumped(b, f.arrivals).told) =
                 ToSet(Opened(b).told) \union ToSet(Pumped(Rested(b), f.arrivals).told)
            BY <1>5, <1>6, ToldEarlier
        <3> QED
            BY <1>3, <1>6, <2>2, <3>1 DEF w
    <2> QED
        BY <1>7, <2>1, <2>2
<1>12. State' = Ran(State, f)
    <2> DEFINE x == Ran(State, f)
    <2>1. /\ f.arrivals \in Seq(Reports) /\ f.did \in Seq(Commands)
          /\ x \in Book /\ x.told = <<>> /\ Alike(x, d) /\ x.answers = w.answers
        BY <1>6, <1>8, RanIs DEF w, d
    <2> HIDE DEF x
    <2>2. x = [inFlight |-> x.inFlight, cancelled |-> x.cancelled, now |-> x.now,
               answers |-> x.answers, told |-> x.told]
        BY <2>1 DEF Book
    <2>3. /\ inFlight' = x.inFlight /\ cancelled' = x.cancelled /\ justNow' = x.now
          /\ answers' = x.answers
        BY <1>3, <2>1 DEF Alike
    <2>4. State' = x
        BY <2>1, <2>2, <2>3 DEF State
    <2> QED
        BY <2>4 DEF x
<1>13. Played(past[k])'
    BY <1>3, <1>6, <1>10, <1>12 DEF Played
<1>14. paused' => feed' = 0
    BY <1>3 DEF Fed
<1>15. waiting' = <<>> /\ loop' = "player" /\ \A t \in Threads : thread'[t] = "none"
    BY <1>3 DEF Playing, poolVars
<1> QED
    BY <1>3, <1>4, <1>9, <1>11, <1>13, <1>14, <1>15 DEF Playing, f

LEMMA HoldPlays ==
    ASSUME Playing, Hold
    PROVE  Playing'
<1>1. PICK past : Past(past) /\ Played(past[cursor])
    BY DEF Playing
<1> DEFINE b == past[cursor]
           w == Pumped(State, <<>>)
<1>2. /\ cursor \in 0 .. Len(file) /\ feed = 0 /\ paused
      /\ inFlight' = w.inFlight /\ cancelled' = w.cancelled /\ justNow' = w.now
      /\ held' = held \union ToSet(w.told) /\ answers' = w.answers
      /\ UNCHANGED <<poolVars, loop, file, cursor, feed, paused, heard>>
    BY DEF Playing, Hold
<1>3. b \in Book /\ b.told = <<>>
    BY <1>1, <1>2, PastIs
<1>4. \/ State = b /\ held = {}
      \/ State = Rested(b) /\ held = ToSet(Opened(b).told)
    <2>1. Played(b)
        BY <1>1
    <2> HIDE DEF b
    <2> QED
        BY <2>1, Zenon DEF Played, Rested
<1>5. Past(past)'
    BY <1>1, <1>2 DEF Past
<1> DEFINE o == Opened(b)
<1>6. o \in Book
    BY <1>3, OpenedIs
<1>7. Rested(b) \in Book /\ Rested(b).told = <<>> /\ Opened(Rested(b)) = Rested(b)
      /\ Alike(Rested(b), o)
    BY <1>3, RestedIs
<1>8. State = b => w = o
    BY <1>6, NothingDrained DEF Pumped
<1>9. State = Rested(b) => w = Rested(b)
    BY <1>7, NothingDrained DEF Pumped
<1> HIDE DEF b, w, o
<1>10. /\ w.inFlight = Rested(b).inFlight /\ w.cancelled = Rested(b).cancelled
       /\ w.now = Rested(b).now /\ w.answers = Rested(b).answers
    BY <1>4, <1>7, <1>8, <1>9 DEF Alike
<1>11. held' = ToSet(o.told)
    <2>1. ToSet(<<>>) = {}
        BY DEF ToSet
    <2> QED
        BY <1>2, <1>4, <1>7, <1>8, <1>9, <2>1 DEF o
<1>12. State' = Rested(b)
    <2> DEFINE x == Rested(b)
    <2>1. x \in Book /\ x.told = <<>>
        BY <1>7
    <2> HIDE DEF x
    <2>2. x = [inFlight |-> x.inFlight, cancelled |-> x.cancelled, now |-> x.now,
               answers |-> x.answers, told |-> x.told]
        BY <2>1 DEF Book
    <2>3. /\ inFlight' = x.inFlight /\ cancelled' = x.cancelled /\ justNow' = x.now
          /\ answers' = x.answers
        BY <1>2, <1>10 DEF x
    <2>4. State' = x
        BY <2>1, <2>2, <2>3 DEF State
    <2> QED
        BY <2>4 DEF x
<1>13. Played(past[cursor])'
    <2>1. State' = [Opened(b) EXCEPT !.told = <<>>] /\ held' = ToSet(Opened(b).told)
        BY <1>11, <1>12 DEF Rested, o
    <2> QED
        BY <1>2, <2>1 DEF Played, b
<1>14. waiting' = <<>> /\ loop' = "player" /\ \A t \in Threads : thread'[t] = "none"
    BY <1>2 DEF Playing, poolVars
<1> QED
    BY <1>1, <1>2, <1>5, <1>13, <1>14 DEF Playing

LEMMA StillPlays ==
    ASSUME Playing, UNCHANGED <<inFlight, cancelled, justNow, answers, waiting, thread, loop,
                                file, cursor, feed, heard, held>>,
           paused' = FALSE \/ paused' = paused
    PROVE  Playing'
<1>1. PICK past : Past(past) /\ Played(past[cursor])
    BY DEF Playing
<1>2. State' = State
    BY DEF State
<1>3. Past(past)'
    BY <1>1 DEF Past
<1>4. Played(past[cursor])'
    BY <1>1, <1>2 DEF Played
<1> QED
    BY <1>3, <1>4 DEF Playing

-----------------------------------------------------------------------------
LEMMA HttpStep == HttpInv /\ [Next]_vars => HttpInv'
<1> SUFFICES ASSUME HttpInv, [Next]_vars PROVE HttpInv'
    OBVIOUS
<1>1. Held'
    BY HttpStepsThePool, HeldStep, HeldAnew DEF HttpInv
<1>2. /\ Held /\ Pipeline /\ PoolTypeOK /\ mode \in {"live", "replay"}
      /\ mode = "live" => Serving
      /\ mode = "replay" => Playing
    BY DEF HttpInv, Held, Inv
<1> DEFINE Goal == /\ Pipeline' /\ mode' \in {"live", "replay"}
                   /\ mode' = "live" => Serving'
                   /\ mode' = "replay" => Playing'
(* A thread that plays no recording has a job to go on with.                *)
<1>3. mode = "replay" => \A t \in Threads : stage[t] = "out" /\ waiting = <<>>
    BY <1>2 DEF Playing, Pipeline
<1>4. ASSUME NEW t \in Threads,
             \/ Start(t) \/ Progress(t) \/ Outcome(t) \/ Panics(t)
             \/ Wake(t) \/ Hook(t) \/ JobEnds(t)
      PROVE  Goal
    <2>1. /\ mode' = mode /\ taken' = taken /\ loop' = loop
          /\ UNCHANGED <<inFlight, cancelled, justNow, answers, frame, replayVars, file>>
        BY <1>4 DEF Start, Take, Progress, Outcome, Panics, Wake, Hook, JobEnds, Finish, replayVars,
                     poolVars
    <2>2. mode # "replay"
        BY <1>3, <1>4 DEF Start, Take, Progress, Outcome, Panics, Wake, Hook, JobEnds
    <2>3. Pipeline' /\ Pending' \subseteq Pending
        BY <1>2, <1>4, StartPipes, ReportPipes, PoolPipes
    <2>4. Serving'
        BY <1>2, <2>1, <2>2, <2>3, QuietServes
    <2> QED
        BY <1>2, <2>1, <2>2, <2>3, <2>4
<1>5. ASSUME PoolStep \/ Quit PROVE Goal
    <2>1. mode = "live" /\ mode' = mode
        BY <1>5 DEF PoolStep, Quit, replayVars
    <2>2. /\ UNCHANGED <<inFlight, cancelled, justNow, answers, frame, replayVars, file>>
          /\ \/ loop' = loop
             \/ loop # "scripts" /\ loop' \in Loops \ {"scripts"}
        BY <1>5 DEF PoolStep, Quit, httpVars, Loops
    <2>3. taken' = taken
        BY <1>5 DEF PoolStep, Quit, Close, End, Sleep, Stir, Spawn, SpawnFails, NotifyOne, NotifyAll
    <2>4. Pipeline' /\ Pending' \subseteq Pending
        BY <1>2, <1>5, PoolPipes
    <2>5. Serving'
        BY <1>2, <2>1, <2>2, <2>3, <2>4, QuietServes
    <2> QED
        BY <2>1, <2>4, <2>5
<1>6. ASSUME Owed \/ Waits \/ Roused \/ Input PROVE Goal
    <2>1. mode = "live" /\ mode' = mode
        BY <1>6 DEF Owed, Waits, Roused, Input, replayVars
    <2>2. /\ UNCHANGED <<inFlight, cancelled, justNow, answers, frame, replayVars, file>>
          /\ UNCHANGED <<poolVars, stage>> /\ channel' = channel
          /\ loop # "scripts" /\ loop' \in Loops \ {"scripts"}
        BY <1>6 DEF Owed, Waits, Roused, Input, Loops
    <2>3. Pipeline' /\ Pending' \subseteq Pending /\ taken' = taken
        BY <1>2, <2>2, OtherPipes DEF poolVars
    <2>4. Serving'
        BY <1>2, <2>1, <2>2, <2>3, QuietServes
    <2> QED
        BY <2>1, <2>3, <2>4
<1>7. ASSUME Pump PROVE Goal
    <2>1. mode = "live" /\ mode' = mode
        BY <1>2, <1>7 DEF Pump, Playing, replayVars
    <2> QED
        BY <1>2, <1>7, <2>1, PumpServes
<1>8. ASSUME Request PROVE Goal
    <2>1. mode = "live" /\ mode' = mode
        BY <1>8 DEF Request, replayVars
    <2> QED
        BY <1>2, <1>8, <2>1, RequestServes
<1>9. ASSUME NEW r \in Jobs, Cancel(r) PROVE Goal
    <2>1. mode = "live" /\ mode' = mode
        BY <1>9 DEF Cancel, replayVars
    <2> QED
        BY <1>2, <1>9, <2>1, CancelServes
<1>10. ASSUME EndFrame PROVE Goal
    <2>1. mode = "live" /\ mode' = mode
        BY <1>10 DEF EndFrame, replayVars
    <2> QED
        BY <1>2, <1>10, <2>1, EndFrameServes
<1>11. ASSUME Replay PROVE Goal
    <2>1. mode = "live" /\ mode' = "replay"
        BY <1>11 DEF Replay
    <2> QED
        BY <1>2, <1>11, <2>1, ReplayPlays
<1>12. ASSUME Hold \/ Resume \/ \E pauses \in BOOLEAN : Feed(pauses) PROVE Goal
    <2>1. mode = "replay" /\ mode' = mode /\ UNCHANGED <<poolVars, stage>> /\ channel' = channel
        BY <1>12 DEF Hold, Resume, Feed, httpVars
    <2>2. Pipeline'
        BY <1>2, <2>1, OtherPipes
    <2>3. Playing'
        <3>1. ASSUME Resume PROVE Playing'
            BY <1>2, <2>1, <3>1, StillPlays DEF Resume, httpVars, poolVars
        <3> QED
            BY <1>2, <1>12, <2>1, <3>1, HoldPlays, FeedPlays
    <2> QED
        BY <2>1, <2>2, <2>3
<1>13. ASSUME UNCHANGED vars PROVE Goal
    <2>1. /\ UNCHANGED <<poolVars, stage>> /\ channel' = channel /\ mode' = mode
          /\ UNCHANGED <<inFlight, cancelled, justNow, answers, frame, replayVars, file>>
          /\ loop' = loop
        BY <1>13 DEF vars, httpVars, replayVars
    <2>2. Pipeline' /\ Pending' \subseteq Pending /\ taken' = taken
        BY <1>2, <2>1, OtherPipes DEF poolVars
    <2>3. mode = "live" => Serving'
        BY <1>2, <2>1, <2>2, QuietServes
    <2>4. mode = "replay" => Playing'
        BY <1>2, <2>1, StillPlays DEF poolVars, replayVars
    <2> QED
        BY <1>2, <2>1, <2>2, <2>3, <2>4
<1>14. Goal
    <2> HIDE DEF Goal
    <2> QED
        BY <1>4, <1>5, <1>6, <1>7, <1>8, <1>9, <1>10, <1>11, <1>12, <1>13 DEF Next
<1> QED
    BY <1>1, <1>14 DEF HttpInv

LEMMA HttpInvariant == Spec => []HttpInv
<1>1. Init => HttpInv
    BY HeldInit, ServingInit DEF Init, HttpInv
<1> QED
    BY <1>1, HttpStep, PTL DEF Spec

(* A request is answered once, with its reply or its cancelling, whatever   *)
(* reports are in the channel as it is cancelled and whichever frames are   *)
(* played back (cancel and pump_http_system of balaur_http).                *)
THEOREM HttpAnswersOnce == Spec => []AnsweredOnce
<1>1. HttpInv => AnsweredOnce
    <2> SUFFICES ASSUME HttpInv PROVE AnsweredOnce
        OBVIOUS
    <2>1. Books(State)
        <3>1. CASE mode = "live"
            BY <3>1 DEF HttpInv, Serving
        <3>2. CASE mode = "replay"
            <4>1. PICK past : Past(past) /\ Played(past[cursor])
                BY <3>2 DEF HttpInv, Playing
            <4> DEFINE b == past[cursor]
            <4>2. cursor \in 0 .. Len(file)
                BY <3>2 DEF HttpInv, Playing
            <4>3. Books(b) /\ Played(b)
                BY <4>1, <4>2, PastIs
            <4> HIDE DEF b
            <4>4. State = b \/ State = Rested(b)
                BY <4>3, Zenon DEF Played, Rested
            <4>5. Books(Rested(b))
                BY <4>3, RestedBalances
            <4> QED
                BY <4>3, <4>4, <4>5, Zenon
        <3> QED
            BY <3>1, <3>2 DEF HttpInv
    <2>2. answers \in [Jobs -> {0, 1}] /\ \A r \in inFlight : answers[r] = 0
        BY <2>1 DEF Books, State
    <2> QED
        BY <2>2 DEF AnsweredOnce
<1> QED
    BY <1>1, HttpInvariant, PTL

(* Playing a recording tells the scripts of each frame what the recorded    *)
(* frame told them, wherever the player was paused and however many frames  *)
(* it drew meanwhile (after_frame in replay.rs).                            *)
THEOREM HttpReplayTellsTheSame == Spec => []ReplayTellsTheSame
<1>1. HttpInv => ReplayTellsTheSame
    BY DEF HttpInv, Playing, ReplayTellsTheSame
<1> QED
    BY <1>1, HttpInvariant, PTL
=============================================================================
