------------------------------- MODULE Match -------------------------------
(***************************************************************************)
(* Leaving a match (balaur_multiplayer, play.rs): the host notices that a  *)
(* guest's link closed, said goodbye or fell silent, closes it, plays the  *)
(* slot as absent and tells the others with the leaver's last inputs. The  *)
(* rest is NetSession: each frame is one of its frames, and what settle    *)
(* does with goodbyes and notices at the end of it.                        *)
(*                                                                         *)
(* The notice travels reliably, apart from the datagrams it races. A guest *)
(* the host gave up on takes no further part: the host neither reads nor   *)
(* writes its link, so nothing it still does reaches another machine.      *)
(***************************************************************************)
EXTENDS NetSession

CONSTANTS
    LastInputs,     \* LAST_INPUTS: how many of a leaver's inputs go with the notice
    MaxGone         \* bound: how many guests leave

ASSUME LastAssumption == LastInputs \in Nat /\ MaxGone \in Nat

VARIABLES
    notices,        \* the notices the host has sent, in order
    told            \* guest -> how many of them it has read

matchVars == <<vars, notices, told>>

InMatch(p) == p = Host \/ p \in OpenLinks(peer[Host])

Guests == Players \ {Host}

MatchInit ==
    /\ Init
    /\ notices = <<>>
    /\ told = [p \in Guests |-> 0]

-----------------------------------------------------------------------------
(* The host's side: depart.                                                *)

(* The first tick a leaver is not heard from.                              *)
FirstMissing(s, q) == NewestOf(s, q) + 1

Departed(m, q) ==
    [m EXCEPT !.sess = SetAbsentOn(@, q, FirstMissing(@, q)),
              !.theirLead = Restrict(@, DOMAIN @ \ {q})]

(* Each of those the host gives up on in a frame, in turn.                 *)
AllDeparted(m, gone) ==
    LET after[i \in 0 .. Len(gone)] ==
            IF i = 0 THEN m ELSE Bind(after[i - 1], LAMBDA n : Departed(n, gone[i]))
    IN  after[Len(gone)]

(* Mutant of NoticeOf: only the newest input goes with it.                 *)
NoticeOfTheNewest(s, q) ==
    LET from == s.absent[q]
    IN  [slot |-> q, from |-> from, first |-> Max({from - 1, 1}),
         values |-> [t \in Max({from - 1, 1}) .. from - 1 |-> s.arrived[q][t]]]

(* What the host tells of a leaver: an input it holds no more goes as Nil. *)
NoticeOf(s, q) ==
    LET from  == s.absent[q]
        first == IF from > LastInputs THEN Max({from - LastInputs, 1}) ELSE 1
    IN  [slot |-> q, from |-> from, first |-> first,
         values |-> [t \in first .. from - 1 |->
                        IF t \in DOMAIN s.arrived[q] THEN s.arrived[q][t] ELSE Nil]]

-----------------------------------------------------------------------------
(* A guest's side: settle, for an Absent notice.                           *)

(* Mutant of Noticed: the inputs are taken, the leaver is not marked.      *)
NoticedPresent(m, notice) ==
    LET passed[t \in notice.first - 1 .. notice.from - 1] ==
            IF t = notice.first - 1 THEN m.sess
            ELSE Bind(passed[t - 1], LAMBDA s : SubmitTo(s, notice.slot, t, notice.values[t]))
    IN  [m EXCEPT !.sess = passed[notice.from - 1]]

Noticed(m, notice) ==
    LET passed[t \in notice.first - 1 .. notice.from - 1] ==
            IF t = notice.first - 1 THEN m.sess
            ELSE Bind(passed[t - 1], LAMBDA s : SubmitTo(s, notice.slot, t, notice.values[t]))
    IN  [m EXCEPT !.sess = SetAbsentOn(passed[notice.from - 1], notice.slot, notice.from)]

(* The notices since the first ones it has read, in the order they came.   *)
AllNoticed(m, first, known) ==
    LET after[i \in first .. known] ==
            IF i = first THEN m ELSE Bind(after[i - 1], LAMBDA n : Noticed(n, notices[i]))
    IN  after[known]

-----------------------------------------------------------------------------

Leavers ==
    UNION {SetToAllKPermutations(gone) : gone \in
        {s \in SUBSET OpenLinks(peer[Host]) : Cardinality(s) + Len(notices) <= MaxGone}}

HostFrame(heard, upto, gone) ==
    LET Settle(m) == AllDeparted(m, gone)
    IN  /\ \/ \E v \in Plays(Host, peer[Host].sess.next) :
                AdvanceThen(Host, heard, upto, v, Settle)
           \/ /\ heard # <<>> \/ upto # read[Host] \/ gone # <<>>
              /\ PollThen(Host, heard, upto, Settle)
        /\ notices' = notices \o
              [i \in DOMAIN gone |-> NoticeOf(peer'[Host].sess, gone[i])]
        /\ UNCHANGED told

GuestFrame(p, heard, upto, known) ==
    LET Settle(m) == AllNoticed(m, told[p], known)
    IN  /\ InMatch(p)
        /\ \/ \E v \in Plays(p, peer[p].sess.next) : AdvanceThen(p, heard, upto, v, Settle)
           \/ /\ heard # <<>> \/ upto # read[p] \/ known # told[p]
              /\ PollThen(p, heard, upto, Settle)
        /\ told' = [told EXCEPT ![p] = known]
        /\ UNCHANGED notices

MatchNext ==
    \/ \E heard \in Arrivals(Host), upto \in Reads(Host), gone \in Leavers :
            HostFrame(heard, upto, gone)
    \/ \E p \in Guests : \E heard \in Arrivals(p), upto \in Reads(p), known \in told[p] .. Len(notices) :
            GuestFrame(p, heard, upto, known)
    \/ \E d \in datagrams : Lose(d) /\ UNCHANGED <<notices, told>>

MatchSpec == MatchInit /\ [][MatchNext]_matchVars

Everything(p) ==
    [q \in Links(p) |->
        IF q \in OpenLinks(peer[p]) THEN Max(DOMAIN published[q] \union {read[p][q]})
        ELSE read[p][q]]

(* Every machine still in the match goes on running frames, and what is on *)
(* its way is handed over by some frame; nobody has to leave.              *)
HostCatchesUp ==
    \E heard \in Arrivals(Host) :
        ToSet(heard) = Inbox(Host) /\ HostFrame(heard, Everything(Host), <<>>)

GuestCatchesUp(p) ==
    \E heard \in Arrivals(p) :
        ToSet(heard) = Inbox(p) /\ GuestFrame(p, heard, Everything(p), Len(notices))

MatchFairSpec ==
    /\ MatchSpec
    /\ WF_matchVars(HostCatchesUp)
    /\ \A p \in Guests : WF_matchVars(GuestCatchesUp(p))

(* How far a run lets what guests send go missing: a guest that is still   *)
(* in the match has, whenever it makes an input, been heard by the host    *)
(* within its last Window ticks.                                           *)
HostHearsInTime ==
    [][\A p \in Guests : InMatch(p) /\ peer'[p].sess.next # peer[p].sess.next =>
          peer[p].sess.next - NewestOf(peer[Host].sess, p) <= Window]_matchVars

-----------------------------------------------------------------------------
(* Every machine's state is of its kind, a slot is told absent once, and a *)
(* machine knows of the leavers it was told of.                            *)
MatchTypeOK ==
    /\ TypeOK
    /\ \A i, j \in DOMAIN notices : notices[i].slot = notices[j].slot => i = j
    /\ \A p \in Guests : told[p] \in 0 .. Len(notices)
    /\ \A p \in Players : InMatch(p) =>
        DOMAIN peer[p].sess.absent =
            {notices[i].slot : i \in 1 .. (IF p = Host THEN Len(notices) ELSE told[p])}

(* A notice tells what its leaver played.                                  *)
TellsTruly(notice) ==
    \A t \in DOMAIN notice.values :
        /\ t \in DOMAIN peer[notice.slot].mine
        /\ notice.values[t] = peer[notice.slot].mine[t]

(* The inputs of the match: what each player's machine sent, and Nil from  *)
(* the tick a leaver is absent from.                                       *)
Played(q, t) ==
    IF \E i \in DOMAIN notices : notices[i].slot = q /\ notices[i].from <= t
    THEN Nil ELSE peer[q].mine[t]

MatchWorld(t) ==
    LET world[u \in 1 .. t] ==
            IF u = 1 THEN Start
            ELSE Step(world[u - 1], [q \in Players |-> Played(q, u - 1)])
    IN  world[t]

(* The inputs that a notice p has read tells as others than were made: the *)
(* host sends Nil for one it holds no more (play.rs, depart).              *)
Mistold(p) ==
    IF p = Host THEN {}
    ELSE UNION {{<<notices[i].slot, t>> : t \in
                    {u \in DOMAIN notices[i].values :
                        notices[i].values[u] # peer[notices[i].slot].mine[u]}} :
                i \in 1 .. told[p]}

(* The world of a machine that took some of those for what was played.     *)
WorldTaking(false, t) ==
    LET world[u \in 1 .. t] ==
            IF u = 1 THEN Start
            ELSE Step(world[u - 1], [q \in Players |->
                    IF <<q, u - 1>> \in false THEN Nil ELSE Played(q, u - 1)])
    IN  world[t]

(* A leaver's last inputs reach everyone: the worlds the machines still in *)
(* the match can no longer take back are those of the inputs really made,  *)
(* Nil for the absent, whatever of the leaver's datagrams each had heard;  *)
(* a guest may differ by the inputs a notice it has read mistells, and by  *)
(* no other.                                                               *)
WorldsAreTrue ==
    \A p \in Players : InMatch(p) =>
        \E false \in SUBSET Mistold(p) :
            OldestWorld(peer[p].sess) = WorldTaking(false, OldestTick(peer[p].sess))

(* "`values` are its last inputs, one per tick from `first`" (wire.rs).    *)
NoticesAreTrue == \A i \in DOMAIN notices : TellsTruly(notices[i])

(* A leaver holds nobody back: the machines left run the match to its end. *)
TheRestFinish ==
    <>(\A p \in Players : InMatch(p) => peer[p].sess.next > MaxTick)
=============================================================================
