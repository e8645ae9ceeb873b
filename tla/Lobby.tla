-------------------------------- MODULE Lobby --------------------------------
(* A host's lobby and its joiners, from the first dial to the match: who    *)
(* is in, as which slot, and what each machine is told of it (lobby.rs of   *)
(* balaur_multiplayer, and what play.rs says on the same links: the start,  *)
(* who left, the end).                                                      *)
(*                                                                          *)
(* A poll of a machine reads a batch of what has arrived on each of its     *)
(* links, acts on it in order and stops where the code returns: which       *)
(* messages one batch holds is where the order of things is decided.        *)
EXTENDS Naturals, Sequences, FiniteSets, SequencesExt, FiniteSetsExt

CONSTANTS
    Players,     \* the machines that may join
    Strangers,   \* the links of joiners with another protocol or token
    Cap,         \* options.players, 0 for no limit of the game's own
    MostSlots,   \* MOST_SLOTS
    MaxJoins,    \* bound: joins, of all players together
    MaxBots,     \* bound: bots the host adds
    MaxBreaks    \* bound: links the network breaks

ASSUME LobbyConstants ==
    /\ IsFiniteSet(Players)
    /\ Strangers \subseteq Players \X (Nat \ {0})
    /\ Cap \in Nat /\ MostSlots \in Nat \ {0}
    /\ MaxJoins \in Nat /\ MaxBots \in Nat /\ MaxBreaks \in Nat

VARIABLES
    host,      \* phase, listener, arriving, links, roster and absent slots
    joiner,    \* [Players -> phase, said_hello, welcomed, local, roster, absent]
    link,      \* both ends of every link, and what is on its way
    breaks,    \* links the network broke
    silent     \* whether a member ever changed without its player told

vars == <<host, joiner, link, breaks, silent>>

Links == Players \X (1..MaxJoins)
Here == "host"         \* the name of the host's own member
Bot == "bot"
Slots == 0..MostSlots-1
NoSlot == MostSlots

ASSUME NamesApart == {Here, Bot} \cap Players = {}

(* The elements of a sequence that are in a set, in their order.            *)
Only(seq, A) ==
    LET chosen[i \in 0 .. Len(seq)] ==
            IF i = 0 THEN <<>>
            ELSE IF seq[i] \in A THEN Append(chosen[i - 1], seq[i]) ELSE chosen[i - 1]
    IN  chosen[Len(seq)]

-----------------------------------------------------------------------------
(* Links: ordered and reliable until one end closes or the network breaks   *)
(* them; the end comes after what was sent before it, unless a break took   *)
(* that too.                                                                *)

End == [kind |-> "end"]
Bye == [kind |-> "bye"]
Put(queue, m) == IF queue # <<>> /\ Last(queue) = End THEN queue ELSE Append(queue, m)
Batch(queue, n) == {queue[i] : i \in 1..n}
Rest(queue, n) == SubSeq(queue, n + 1, Len(queue))

SendDown(k, m) == IF k.near = "open" /\ k.far # "closed" THEN [k EXCEPT !.down = Put(@, m)] ELSE k
SendUp(k, m) == IF k.far = "open" /\ k.near # "closed" THEN [k EXCEPT !.up = Put(@, m)] ELSE k

CloseNear(k) ==
    [k EXCEPT !.near = "closed", !.up = <<>>,
              !.down = IF k.far = "closed" THEN <<>> ELSE Put(@, End)]
CloseFar(k) ==
    [k EXCEPT !.far = "closed", !.down = <<>>,
              !.up = IF k.near = "open" THEN Put(@, End) ELSE <<>>]

ReceiveNear(k, n) ==
    [k EXCEPT !.up = Rest(@, n), !.near = IF End \in Batch(k.up, n) THEN "closed" ELSE @]
ReceiveFar(k, n) ==
    [k EXCEPT !.down = Rest(@, n), !.far = IF End \in Batch(k.down, n) THEN "closed" ELSE @]

-----------------------------------------------------------------------------
(* The host. A step of it works on w, the host and the links together.      *)

cap == IF Cap = 0 \/ Cap > MostSlots THEN MostSlots ELSE Cap
SlotsOf(roster) == {roster[i].slot : i \in DOMAIN roster}

(* Mutant: the next slot is the number of members.                          *)
FreeSlotByCount(roster) == IF Len(roster) >= cap THEN NoSlot ELSE Len(roster)

(* free_slot: the lowest slot nobody plays, while there is room.            *)
FreeSlot(roster) ==
    IF Len(roster) >= cap \/ Slots \subseteq SlotsOf(roster) THEN NoSlot
    ELSE CHOOSE s \in Slots \ SlotsOf(roster) : \A o \in Slots \ SlotsOf(roster) : s <= o

Roster(roster) == [kind |-> "roster", roster |-> roster]
Linked(links) == {links[i].link : i \in DOMAIN links}

(* The same message on every link of a set.                                 *)
ToEach(ln, to, m) == [l \in Links |-> IF l \in to THEN SendDown(ln[l], m) ELSE ln[l]]
broadcast_roster(w) ==
    [w EXCEPT !.link = ToEach(@, Linked(w.host.links), Roster(w.host.roster))]

Refuse(k) == CloseNear(SendDown(k, [kind |-> "refuse"]))
Welcome(slot, roster) == [kind |-> "welcome", slot |-> slot, roster |-> roster]

(* Mutant: only the joiner itself is told that it is in.                    *)
AdmitUntold(w, l) ==
    LET slot == FreeSlot(w.host.roster)
        roster == Append(w.host.roster, [slot |-> slot, name |-> l[1]])
    IN  IF l \in Strangers \/ slot = NoSlot
        THEN [w EXCEPT !.link[l] = Refuse(@)]
        ELSE [w EXCEPT !.host.roster = roster,
                       !.host.links = Append(@, [slot |-> slot, link |-> l]),
                       !.link[l] = SendDown(@, Welcome(slot, roster))]

(* admit: a slot for the joiner at the end of l, or a refusal.              *)
Admit(w, l) ==
    LET slot == FreeSlot(w.host.roster)
        roster == Append(w.host.roster, [slot |-> slot, name |-> l[1]])
        let == broadcast_roster([w EXCEPT !.host.roster = roster,
                                          !.link[l] = SendDown(@, Welcome(slot, roster))])
    IN  IF l \in Strangers \/ slot = NoSlot
        THEN [w EXCEPT !.link[l] = Refuse(@)]
        ELSE [let EXCEPT !.host.links = Append(@, [slot |-> slot, link |-> l])]

(* Mutant: the slot is free and nobody is told.                             *)
VacateQuietly(w, slot) ==
    [w EXCEPT !.host.roster = Only(@, {m \in Range(@) : m.slot # slot})]

(* A slot whose link went is free again, and everyone is told.              *)
Vacate(w, slot) ==
    broadcast_roster([w EXCEPT !.host.roster = Only(@, {m \in Range(@) : m.slot # slot})])

(* start: who has not said hello is refused, and who was not even accepted  *)
(* goes with the listener.                                                  *)
StartMatch(w) ==
    [host |-> [w.host EXCEPT !.phase = "starting", !.arriving = <<>>, !.listener = <<>>],
     link |-> [l \in Links |-> CASE l \in Range(w.host.arriving) -> Refuse(w.link[l])
                                [] l \in Range(w.host.listener) -> CloseNear(w.link[l])
                                [] OTHER -> w.link[l]]]

(* departures: the joined players who said goodbye or whose link closed.    *)
Departed(k, n) == Bye \in Batch(k.up, n) \/ End \in Batch(k.up, n) \/ k.near = "closed"

(* What was read of the links of a set.                                     *)
ReadOf(links, n) == [l \in Links |-> IF l \in links THEN ReceiveNear(link[l], n[l]) ELSE link[l]]

LetIn(w, hellos) ==
    LET let[i \in 0 .. Len(hellos)] == IF i = 0 THEN w ELSE Admit(let[i - 1], hellos[i])
    IN  let[Len(hellos)]

LetGo(w, gone) ==
    LET left[i \in 0 .. Len(gone)] == IF i = 0 THEN w ELSE Vacate(left[i - 1], gone[i].slot)
    IN  left[Len(gone)]

(* poll_host: n messages read of every link, late those that had time       *)
(* enough to say hello.                                                     *)
Polled(n, late) ==
    LET all == host.arriving \o host.listener
        heard == [l \in Range(all) |-> Batch(link[l].up, n[l])]
        said == {l \in Range(all) : [kind |-> "hello"] \in heard[l]}
        waits == {l \in Range(all) \ said : End \notin heard[l]}
        left == {e \in Range(host.links) : Departed(link[e.link], n[e.link])}
        gone == Only(host.links, left)
        shut == (waits \cap late) \union Linked(gone)
        read == ReadOf(Range(all) \union Linked(host.links), n)
        w == [host |-> [host EXCEPT !.listener = <<>>, !.arriving = Only(all, waits \ late),
                                    !.links = Only(@, Range(@) \ left)],
              link |-> [l \in Links |-> IF l \in shut THEN CloseNear(read[l]) ELSE read[l]]]
        done == LetGo(LetIn(w, Only(all, said)), gone)
    IN  IF Cap > 0 /\ Len(done.host.roster) >= Cap THEN StartMatch(done) ELSE done

(* What a poll may find of each link's mail: all of it, or none of it yet. *)
(* To have found a part of it is to have polled before the rest was sent.   *)
Mail(links) == {[l \in links |-> IF l \in found THEN Len(link[l].up) ELSE 0]
                : found \in SUBSET {l \in links : link[l].up # <<>>}}

Became(w) == host' = w.host /\ link' = w.link

PollHost(n, late) ==
    /\ host.phase = "hosting"
    /\ Became(Polled(n, late))
    /\ UNCHANGED <<joiner, breaks, silent>>

Start ==
    /\ host.phase = "hosting"
    /\ Became(StartMatch([host |-> host, link |-> link]))
    /\ UNCHANGED <<joiner, breaks, silent>>

AddBot ==
    /\ host.phase = "hosting" /\ FreeSlot(host.roster) # NoSlot
    /\ Cardinality({i \in DOMAIN host.roster : host.roster[i].name = Bot}) < MaxBots
    /\ LET bot == [slot |-> FreeSlot(host.roster), name |-> Bot]
       IN  Became(broadcast_roster([host |-> [host EXCEPT !.roster = Append(@, bot)],
                                    link |-> link]))
    /\ UNCHANGED <<joiner, breaks, silent>>

(* Mutant: the first link is taken for the host's own.                      *)
HostBeginsShort ==
    /\ host.phase = "starting"
    /\ host' = [host EXCEPT !.phase = "playing"]
    /\ link' = ToEach(link, Linked(Rest(host.links, 1)), [kind |-> "start", roster |-> host.roster])
    /\ UNCHANGED <<joiner, breaks, silent>>

(* begin on the host: everyone is sent the roster it starts with.           *)
HostBegins ==
    /\ host.phase = "starting"
    /\ host' = [host EXCEPT !.phase = "playing"]
    /\ link' = ToEach(link, Linked(host.links), [kind |-> "start", roster |-> host.roster])
    /\ UNCHANGED <<joiner, breaks, silent>>

(* depart: a link that said goodbye, closed or fell silent, told to all.    *)
Depart(w, e) ==
    IF e.slot \in w.host.absent THEN w
    ELSE [host |-> [w.host EXCEPT !.absent = @ \union {e.slot}],
          link |-> ToEach([w.link EXCEPT ![e.link] = CloseNear(@)], Linked(w.host.links),
                          [kind |-> "absent", slot |-> e.slot])]

AllDepart(w, gone) ==
    LET without[i \in 0 .. Len(gone)] == IF i = 0 THEN w ELSE Depart(without[i - 1], gone[i])
    IN  without[Len(gone)]

(* settle on the host.                                                      *)
HostPlays(n, quiet) ==
    /\ host.phase = "playing"
    /\ LET left == {e \in Range(host.links) :
                        e.link \in quiet \/ Departed(link[e.link], n[e.link])}
       IN  Became(AllDepart([host |-> host, link |-> ReadOf(Linked(host.links), n)],
                            Only(host.links, left)))
    /\ UNCHANGED <<joiner, breaks, silent>>

(* leave on the host, from wherever it is.                                  *)
HostLeaves ==
    /\ host.phase \in {"hosting", "starting", "playing"}
    /\ host' = [phase |-> "idle", listener |-> <<>>, arriving |-> <<>>, links |-> <<>>,
                roster |-> <<>>, absent |-> {}]
    /\ link' = [l \in Links |->
                    CASE l \in Range(host.arriving) \union Linked(host.links) ->
                            CloseNear(SendDown(link[l], Bye))
                      [] l \in Range(host.listener) -> CloseNear(link[l])
                      [] OTHER -> link[l]]
    /\ UNCHANGED <<joiner, breaks, silent>>

-----------------------------------------------------------------------------
(* A joiner.                                                                *)

Idle(tries) == [phase |-> "idle", tries |-> tries, said |-> FALSE, welcomed |-> FALSE,
                local |-> NoSlot, roster |-> <<>>, absent |-> {}]
LinkOf(p) == <<p, joiner[p].tries>>

Dialed == {l \in Links : link[l].far # "none"}

Join(p) ==
    /\ joiner[p].phase = "idle" /\ Cardinality(Dialed) < MaxJoins
    /\ joiner' = [joiner EXCEPT ![p] = [Idle(@.tries + 1) EXCEPT !.phase = "joining"]]
    /\ link' = [link EXCEPT ![<<p, joiner[p].tries + 1>>].far = "dialing"]
    /\ UNCHANGED <<host, breaks, silent>>

(* What a script is not told of a new roster: only slots are compared.      *)
Replaced(old, new) ==
    \E i \in DOMAIN old, k \in DOMAIN new :
        old[i].slot = new[k].slot /\ old[i].name # new[k].name

(* heard, one message at a time until one ends the reading.                 *)
Heard(w, m) ==
    IF w.over THEN w
    ELSE CASE m.kind = "welcome" ->
                [w EXCEPT !.me.welcomed = TRUE, !.me.local = m.slot, !.me.roster = m.roster]
           [] m.kind = "roster" ->
                [w EXCEPT !.me.roster = m.roster,
                          !.silent = @ \/ Replaced(w.me.roster, m.roster)]
           [] m.kind = "start" ->
                [w EXCEPT !.me.roster = m.roster, !.me.phase = "starting", !.over = TRUE,
                          !.silent = @ \/ m.roster # w.me.roster]
           [] m.kind \in {"refuse", "bye"} ->
                [w EXCEPT !.me = Idle(@.tries), !.over = TRUE]
           [] OTHER -> w

Told(w, queue, n) ==
    LET heard[i \in 0 .. n] == IF i = 0 THEN w ELSE Heard(heard[i - 1], queue[i])
    IN  heard[n]

PollJoin(p, n, late) ==
    LET me == joiner[p]
        l == LinkOf(p)
        read == ReceiveFar(link[l], n)
        open == read.far = "open"
        hello == IF ~me.said /\ open THEN SendUp(read, [kind |-> "hello"]) ELSE read
        w == Told([me |-> [me EXCEPT !.said = @ \/ open], silent |-> silent, over |-> FALSE],
                  link[l].down, n)
        lost == read.far = "closed" \/ (~w.me.welcomed /\ late)
    IN  /\ me.phase = "joining"
        /\ joiner' = [joiner EXCEPT ![p] = IF ~w.over /\ lost THEN Idle(me.tries) ELSE w.me]
        /\ link' = [link EXCEPT ![l] = CASE w.me.phase = "idle" -> CloseFar(SendUp(hello, Bye))
                                         [] w.me.phase # "idle" /\ ~w.over /\ lost -> CloseFar(hello)
                                         [] OTHER -> hello]
        /\ silent' = w.silent
        /\ UNCHANGED <<host, breaks>>

JoinerBegins(p) ==
    /\ joiner[p].phase = "starting"
    /\ joiner' = [joiner EXCEPT ![p].phase = "playing"]
    /\ UNCHANGED <<host, link, breaks, silent>>

(* settle on a joiner: who left, until the host says goodbye; then a link   *)
(* that closed or fell silent ends the match.                               *)
JoinerPlays(p, n, quiet) ==
    LET me == joiner[p]
        l == LinkOf(p)
        batch == Batch(link[l].down, n)
        read == ReceiveFar(link[l], n)
        over == quiet \/ Bye \in batch \/ read.far = "closed"
        left == {m.slot : m \in {x \in batch : x.kind = "absent"}}
    IN  /\ me.phase = "playing"
        /\ joiner' = [joiner EXCEPT ![p] = IF over THEN Idle(me.tries)
                                           ELSE [me EXCEPT !.absent = @ \union left]]
        /\ link' = [link EXCEPT ![l] = IF over THEN CloseFar(read) ELSE read]
        /\ UNCHANGED <<host, breaks, silent>>

JoinerLeaves(p) ==
    /\ joiner[p].phase # "idle"
    /\ joiner' = [joiner EXCEPT ![p] = Idle(@.tries)]
    /\ link' = [link EXCEPT ![LinkOf(p)] = CloseFar(SendUp(@, Bye))]
    /\ UNCHANGED <<host, breaks, silent>>

-----------------------------------------------------------------------------
(* The network.                                                             *)

Connect(l) ==
    /\ link[l].far = "dialing" /\ link[l].down = <<>>
    /\ IF host.phase = "hosting"
       THEN /\ host' = [host EXCEPT !.listener = Append(@, l)]
            /\ link' = [link EXCEPT ![l].far = "open", ![l].near = "open"]
       ELSE /\ link' = [link EXCEPT ![l].down = <<End>>]
            /\ UNCHANGED host
    /\ UNCHANGED <<joiner, breaks, silent>>

(* What was on its way is lost; what came before it was read before.        *)
Break(l) ==
    /\ breaks < MaxBreaks /\ link[l].far = "open" /\ link[l].near = "open"
    /\ breaks' = breaks + 1
    /\ link' = [link EXCEPT ![l].up = <<End>>, ![l].down = <<End>>]
    /\ UNCHANGED <<host, joiner, silent>>

-----------------------------------------------------------------------------
Init ==
    /\ host = [phase |-> "hosting", listener |-> <<>>, arriving |-> <<>>, links |-> <<>>,
               roster |-> <<[slot |-> 0, name |-> Here]>>, absent |-> {}]
    /\ joiner = [p \in Players |-> Idle(0)]
    /\ link = [l \in Links |-> [far |-> "none", near |-> "none", up |-> <<>>, down |-> <<>>]]
    /\ breaks = 0 /\ silent = FALSE

HostLinks == Range(host.arriving \o host.listener) \union Linked(host.links)

AtMostOne(S) == {{}} \union {{x} : x \in S}

Next ==
    \/ \E n \in Mail(HostLinks), late \in AtMostOne(Range(host.arriving)) : PollHost(n, late)
    \/ Start \/ AddBot \/ HostBegins \/ HostLeaves
    \/ \E n \in Mail(HostLinks), quiet \in AtMostOne(HostLinks) : HostPlays(n, quiet)
    \/ \E p \in Players : Join(p) \/ JoinerBegins(p) \/ JoinerLeaves(p)
    \/ \E p \in {q \in Players : joiner[q].phase # "idle"}, b \in BOOLEAN :
          \E n \in {0, Len(link[LinkOf(p)].down)} : PollJoin(p, n, b) \/ JoinerPlays(p, n, b)
    \/ \E l \in Links : Connect(l) \/ Break(l)

Spec == Init /\ [][Next]_vars

(* Frames go on, each reading all there is, and a dial ends. Weak fairness  *)
(* of the polls, written out: from some point on a poll has nothing to act  *)
(* on, or the machine polls again and again.                                *)
All == [l \in HostLinks |-> Len(link[l].up)]
HostRests ==
    \/ host.phase \notin {"hosting", "playing"}
    \/ /\ \A l \in HostLinks : link[l].up = <<>> /\ (host.phase = "hosting" => link[l].near = "open")
       /\ host.listener = <<>>
       /\ host.phase = "hosting" => Cap = 0 \/ Len(host.roster) < Cap
JoinerRests(p) ==
    \/ joiner[p].phase \notin {"joining", "playing"}
    \/ /\ link[LinkOf(p)].down = <<>>
       /\ \/ link[LinkOf(p)].far = "dialing"
          \/ link[LinkOf(p)].far = "open" /\ joiner[p].said

FairSpec ==
    /\ Spec
    /\ WF_vars(HostBegins)
    /\ []<>HostRests \/ []<><<PollHost(All, {}) \/ HostPlays(All, {})>>_vars
    /\ \A p \in Players :
          /\ WF_vars(JoinerBegins(p))
          /\ []<>JoinerRests(p)
             \/ []<><<LET n == Len(link[LinkOf(p)].down)
                      IN  PollJoin(p, n, FALSE) \/ JoinerPlays(p, n, FALSE)>>_vars

-----------------------------------------------------------------------------
(* p's link, while neither end has closed it.                               *)
Open(p) == /\ joiner[p].phase # "idle"
           /\ link[LinkOf(p)].near = "open" /\ link[LinkOf(p)].far = "open"
Seat(links, l) == {e.slot : e \in {x \in Range(links) : x.link = l}}

(* A slot has one player: every member but the host and its bots is at the  *)
(* end of the one link of its slot, and each joiner plays the slot the host *)
(* knows its link by.                                                       *)
SlotsHaveOnePlayer ==
    /\ \A i, k \in DOMAIN host.roster : host.roster[i].slot = host.roster[k].slot => i = k
    /\ host.phase # "idle" =>
          {<<m.slot, m.name>> : m \in {x \in Range(host.roster) : x.name \in Players}}
              = {<<e.slot, e.link[1]>> : e \in Range(host.links)}
    /\ \A p \in Players :
          Open(p) /\ joiner[p].welcomed => Seat(host.links, LinkOf(p)) = {joiner[p].local}

(* A joiner that has read what the host sent it has the host's roster.      *)
RosterIsCurrent ==
    \A p \in Players :
        Open(p) /\ joiner[p].welcomed /\ link[LinkOf(p)].down = <<>>
            => joiner[p].roster = host.roster

(* A script hears joined and left of every slot that changed hands: no      *)
(* roster replaces a member in its slot, and the match starts with the      *)
(* roster its players were told last.                                       *)
NobodyChangesUntold == ~silent

(* Nobody is left behind in the lobby of a match that went on without them: *)
(* a joiner that was let in starts, or hears that it is out.                *)
NobodyWaitsBehind ==
    \A p \in Players :
        joiner[p].phase = "joining" /\ joiner[p].welcomed /\ host.phase # "hosting"
            ~> joiner[p].phase # "joining"

(* A player who left a running match is absent to everyone who has read     *)
(* what the host sent.                                                      *)
AbsenceIsHeard ==
    \A p \in Players :
        Open(p) /\ joiner[p].phase = "playing" /\ link[LinkOf(p)].down = <<>>
            => joiner[p].absent = host.absent
=============================================================================
