------------------------------ MODULE Realtime ------------------------------
(* The realtime socket of balaur_gamend (realtime.rs, channels.rs and the  *)
(* protocol of client/phoenix.rs), from the game's calls to what the game  *)
(* hears, over a server that opens, refuses, answers, crashes or closes    *)
(* channels, falls silent and drops the connection as it likes.            *)
(*                                                                         *)
(* A tick of the socket is one action: it reads every arrival, every       *)
(* command and every deadline, and stops where the code returns. It is     *)
(* written as operators on the record of the socket, one per function.     *)
EXTENDS Integers, Sequences, FiniteSets, SequencesExt

CONSTANTS
    Topics,        \* what the game joins
    User,          \* the own-user topic
    Tries,         \* RECONNECT_TRIES
    MaxRequests,   \* bound: calls the game makes
    MaxEnds,       \* bound: channels the server ends on one connection
    Orders,        \* the orders it gives besides: close, interrupt
    Calls,         \* the calls the game makes: [kind, topic]
    Patient        \* whether the game waits: it joins only while the socket
                   \* is open, what it is not in and awaits no answer about
                   \* (it binds the game alone: the server does as it likes)

ASSUME RtConstants ==
    /\ User \notin Topics
    /\ Tries \in Nat \ {0}
    /\ MaxRequests \in Nat /\ MaxEnds \in Nat
    /\ Patient \in BOOLEAN /\ Orders \subseteq {"close", "interrupt"}
    /\ Calls \subseteq [kind : {"join", "push", "leave"}, topic : Topics]
                 \union [kind : {"push"}, topic : {User}]

VARIABLES
    sock,      \* the LiveSocket, with the Link and the Protocol it holds, and
               \* what the game has heard of it: how often each call was
               \* answered, where it stands by the events it was told (life),
               \* and the topics it was told it joined and not that it lost (mine)
    commands,  \* the channel of SocketCommands
    wire,      \* what the connection has not handed over yet, in order
    server,    \* the far end of the connection in hand
    asked      \* the calls the game made, in order

vars == <<sock, commands, wire, server, asked>>

Ids == 1..MaxRequests
NoRef == 0
Refs(pairs) == {p[1] : p \in pairs}
Of(pairs, ref) == (CHOOSE p \in pairs : p[1] = ref)[2]

-----------------------------------------------------------------------------
(* The game's side: where what it is told leaves it, in the order of the   *)
(* telling.                                                                *)

Hear(l, e) ==
    CASE e.kind = "open" /\ l.at = "new" -> [at |-> "open", tries |-> 0]
      [] e.kind = "reconnecting" /\ l.at \in {"open", "lost"}
           /\ e.attempt = l.tries + 1 -> [at |-> "lost", tries |-> e.attempt]
      [] e.kind = "reopened" /\ l.at = "lost" -> [at |-> "open", tries |-> 0]
      [] e.kind = "closed" /\ l.at # "ended" -> [at |-> "ended", tries |-> 0]
      [] e.kind = "error" /\ (l.at = "new" \/ (l.at = "lost" /\ l.tries = Tries)) ->
           [at |-> "ended", tries |-> 0]
      [] OTHER -> [at |-> "astray", tries |-> 0]

Tell(s, e) == [s EXCEPT !.life = Hear(@, e)]

LatestOn(t, request) ==
    ~\E r \in request+1..Len(asked) : asked[r].topic = t /\ asked[r].kind # "push"

Answer(s, request, how) ==
    LET c == asked[request]
    IN  [s EXCEPT !.answers[request] = @ + 1,
                  !.mine = IF c.kind = "join" /\ how = "ok" /\ LatestOn(c.topic, request)
                           THEN @ \union {c.topic} ELSE @]

(* The calls of a set failed, each as often as it is named by one in it.   *)
Fail(s, named(_)) ==
    [s EXCEPT !.answers = [r \in Ids |-> @[r] + Cardinality(named(r))]]

-----------------------------------------------------------------------------
(* The protocol and the connection.                                        *)

(* The link of a dial: nothing sent, nothing joined, refs from one.        *)
Link == [opened |-> FALSE, joinRef |-> NoRef, joined |-> FALSE, back |-> {},
         joins |-> {}, nextRef |-> 1, beat |-> FALSE]

(* Connection::send: the frame is taken, unless the worker is gone.        *)
Sends(s) == s.takes
Send(s, frame) == [s EXCEPT !.sent = Append(@, frame)]

(* Protocol::join: each topic of a list is joined under a fresh ref, and   *)
(* its frame goes on its way if the connection takes it. By JoinAll the    *)
(* socket joins by itself, noting a topic the game has left.               *)
JoinFrame(ref, t) == [ref |-> ref, kind |-> "join", topic |-> t, request |-> 0]

JoinAll(s, list) ==
    [s EXCEPT !.link.nextRef = @ + Len(list),
              !.link.joins = @ \union Range(list),
              !.sent = IF Sends(s)
                       THEN @ \o [i \in DOMAIN list |-> JoinFrame(s.link.nextRef + i - 1, list[i])]
                       ELSE @,
              !.amiss = IF Range(list) \intersect s.left = {} THEN @ ELSE @ \union {"unwanted"}]

-----------------------------------------------------------------------------
(* Where a step may leave: dropped, renewing, closed.                      *)

(* Mutant: what awaits a reply is forgotten with the connection.           *)
ForgetPending(s) == [s EXCEPT !.joining = {}, !.pending = {}]

(* Mutant: what awaits a reply is answered and kept.                       *)
FailKeeping(s) == Fail(s, LAMBDA r : {p \in s.pending : p[2] = r})

FailPending(s) ==
    [Fail(s, LAMBDA r : {p \in s.pending : p[2] = r}) EXCEPT !.joining = {}, !.pending = {}]

Ended(s) == [s EXCEPT !.phase = "removed", !.link = Link]

(* dropped: back off and try again, or report the error and end.           *)
Dropped(s) ==
    LET f == [FailPending(s) EXCEPT !.due = {}, !.rejoining = {}]
        n == s.tries + 1
    IN  IF s.once /\ n <= Tries
        THEN [Tell(f, [kind |-> "reconnecting", attempt |-> n])
              EXCEPT !.tries = n, !.phase = "waiting", !.link = Link]
        ELSE Ended(Tell([f EXCEPT !.tries = IF s.once THEN n ELSE @],
                         [kind |-> "error"]))

ClosedByGame(s) == Ended(Tell(FailPending(s), [kind |-> "closed"]))

Renew(s) == [s EXCEPT !.phase = "renewing", !.link = Link]

(* dial: a connection to open, unless there is no session to open it with. *)
Dial(s, token) == IF token = "none" THEN Dropped(s)
                  ELSE [s EXCEPT !.phase = "live", !.link = Link]

(* LiveSocket::drop: what was queued and never read is answered.           *)
Abandon(s, rest) ==
    Fail(s, LAMBDA r : {i \in DOMAIN rest : rest[i].request = r})

-----------------------------------------------------------------------------
(* What the server says.                                                   *)

(* Mutant: the tries are not counted anew.                                 *)
ReopenedTired(s) == [Tell(s, [kind |-> "reopened"]) EXCEPT !.mine = @ \ s.lost, !.lost = {}]

(* reopened: the game is told what was lost.                               *)
Reopened(s) == [Tell(s, [kind |-> "reopened"])
                EXCEPT !.tries = 0, !.mine = @ \ s.lost, !.lost = {}]

(* rejoin: every topic again, those the connection still takes.            *)
Rejoin(s) ==
    LET list  == SetToSeq(s.topics)
        again == [JoinAll(s, list) EXCEPT
                     !.link.back = IF Sends(s)
                                   THEN {<<s.link.nextRef + i - 1, list[i]>> : i \in DOMAIN list}
                                   ELSE @]
    IN  IF again.link.back = {} THEN Reopened(again) ELSE again

(* The reply to the own-user join: ready, or dropped.                      *)
UserReply(s, ok) ==
    IF ~ok THEN [s EXCEPT !.next = "drop"]
    ELSE LET j == [s EXCEPT !.link.joined = TRUE, !.renewed = FALSE]
         IN  IF s.once THEN Rejoin(j)
             ELSE [Tell(j, [kind |-> "open"]) EXCEPT !.once = TRUE]

(* Mutant: a refused topic is dropped and not reported.                    *)
BackReplyUntold(s, ref, ok) ==
    LET t == Of(s.link.back, ref)
        r == [s EXCEPT
                !.link.back = {p \in @ : p[1] # ref},
                !.topics = IF ok THEN @ ELSE @ \ {t}]
    IN  IF r.link.back = {} THEN Reopened(r) ELSE r

(* The reply to a join a reconnect made.                                   *)
BackReply(s, ref, ok) ==
    LET t == Of(s.link.back, ref)
        r == [s EXCEPT
                !.link.back = {p \in @ : p[1] # ref},
                !.topics = IF ok THEN @ ELSE @ \ {t},
                !.lost = IF ok THEN @ ELSE @ \union {t}]
    IN  IF r.link.back = {} THEN Reopened(r) ELSE r

(* Rejoins::answered: the reply to a crashed channel's join.               *)
CrashReply(s, ref, ok) ==
    LET j == CHOOSE x \in s.rejoining : x.ref = ref
        r == [s EXCEPT !.rejoining = @ \ {j}]
    IN  IF ok THEN r
        ELSE IF j.attempt >= Tries
             THEN [r EXCEPT !.topics = @ \ {j.topic},
                            !.gone = @ \union {j.topic}]
             ELSE [r EXCEPT !.due = @ \union {[topic |-> j.topic,
                                               attempt |-> j.attempt + 1]}]

(* The reply to a call: a join refused is forgotten.                       *)
CallReply(s, e) ==
    LET join == {p[2] : p \in {q \in s.joining : q[1] = e.ref}}
        f == [s EXCEPT !.joining = {p \in @ : p[1] # e.ref},
                       !.topics = IF e.ok THEN @ ELSE @ \ join]
    IN  IF e.ref \notin Refs(s.pending) THEN f
        ELSE LET r == Of(s.pending, e.ref)
             IN  [Answer(f, r, IF e.ok THEN "ok" ELSE "refused") EXCEPT
                     !.pending = {p \in @ : p[1] # e.ref},
                     !.amiss = IF r = e.request THEN @ ELSE @ \union {"crossed"}]

Reply(s, e) ==
    IF ~s.link.joined /\ e.ref = s.link.joinRef THEN UserReply(s, e.ok)
    ELSE IF e.ref \in Refs(s.link.back) THEN BackReply(s, e.ref, e.ok)
    ELSE IF \E x \in s.rejoining : x.ref = e.ref THEN CrashReply(s, e.ref, e.ok)
    ELSE CallReply(s, e)

(* Rejoins::heard: a channel the server crashed waits to be joined again,  *)
(* one it closed is forgotten.                                             *)
Message(s, e) ==
    LET known == e.topic = User \/ e.topic \in s.topics
        others == {d \in s.due : d.topic # e.topic}
    IN  IF e.event = "close"
        THEN [s EXCEPT !.topics = @ \ {e.topic}, !.mine = @ \ {e.topic}, !.due = others,
                       !.shut = @ \union {e.topic}]
        ELSE IF known
        THEN [s EXCEPT !.due = others \union {[topic |-> e.topic, attempt |-> 1]}]
        ELSE s

Deliver(s, e) ==
    IF s.next # "stay" THEN s
    ELSE CASE e.kind = "reply" -> Reply(s, e)
           [] e.kind = "message" -> Message(s, e)
           [] OTHER -> s

-----------------------------------------------------------------------------
(* What the game asks of a joined socket.                                  *)

(* Mutant: a call is listed once its frame is sent.                        *)
PostUnlisted(s, kind, t, request) ==
    IF Sends(s)
    THEN Send([s EXCEPT !.pending = @ \union {<<s.link.nextRef, request>>},
                        !.link.nextRef = @ + 1],
              [ref |-> s.link.nextRef, kind |-> kind, topic |-> t, request |-> request])
    ELSE [s EXCEPT !.next = "drop"]

(* A call on its way: listed before it is sent, for FailPending to answer  *)
(* should the send fail.                                                   *)
Post(s, kind, t, request) ==
    LET p == [s EXCEPT !.pending = @ \union {<<s.link.nextRef, request>>},
                       !.link.nextRef = @ + 1]
    IN  IF Sends(p)
        THEN Send(p, [ref |-> s.link.nextRef, kind |-> kind, topic |-> t,
                      request |-> request])
        ELSE [p EXCEPT !.next = "drop"]

RunJoin(s, c) ==
    LET j == [s EXCEPT !.joining = @ \union {<<s.link.nextRef, c.topic>>},
                       !.topics = @ \union {c.topic},
                       !.link.joins = @ \union {c.topic},
                       !.gone = @ \ {c.topic}, !.left = @ \ {c.topic},
                       !.shut = @ \ {c.topic}]
    IN  Post(j, "join", c.topic, c.request)

(* A call refused here has still used a ref.                               *)
Refuse(s, c, how) == Answer([s EXCEPT !.link.nextRef = @ + 1], c.request, how)

RunPush(s, c) == IF c.topic \in s.link.joins THEN Post(s, "push", c.topic, c.request)
                 ELSE Refuse(s, c, "failed")

(* Mutant: leaving a crashed channel lets its join come due.               *)
RunLeaveDue(s, c) ==
    LET waiting == \E d \in s.due : d.topic = c.topic
        l == [s EXCEPT !.topics = @ \ {c.topic},
                       !.link.joins = @ \ {c.topic}, !.left = @ \union {c.topic}]
    IN  IF c.topic \in s.link.joins THEN Post(l, "leave", c.topic, c.request)
        ELSE Refuse(l, c, IF waiting THEN "ok" ELSE "failed")

RunLeave(s, c) ==
    LET waiting == \E d \in s.due : d.topic = c.topic
        l == [s EXCEPT !.topics = @ \ {c.topic},
                       !.rejoining = {x \in @ : x.topic # c.topic},
                       !.due = {d \in @ : d.topic # c.topic},
                       !.link.joins = @ \ {c.topic}, !.left = @ \union {c.topic}]
    IN  IF c.topic \in s.link.joins THEN Post(l, "leave", c.topic, c.request)
        ELSE Refuse(l, c, IF waiting THEN "ok" ELSE "failed")

(* run, one command at a time until one of them ends the step. A push on   *)
(* User is a call_hook.                                                    *)
Run(s, c) ==
    IF s.next # "stay" THEN s
    ELSE LET r == [s EXCEPT !.read = @ + 1]
         IN  CASE c.kind = "join" -> RunJoin(r, c)
               [] c.kind = "push" -> RunPush(r, c)
               [] c.kind = "leave" -> RunLeave(r, c)
               [] c.kind = "close" -> [r EXCEPT !.next = "closed"]
               [] c.kind = "interrupt" -> [r EXCEPT !.next = "drop"]

(* Mutant: the game's close is lost on a socket without a connection.      *)
WaitOpenly(s, c) ==
    LET r == [s EXCEPT !.read = @ + 1]
    IN  CASE c.kind \in {"join", "push"} -> Answer(r, c.request, "failed")
          [] c.kind = "leave" -> Answer([r EXCEPT !.topics = @ \ {c.topic},
                                                  !.left = @ \union {c.topic}],
                                        c.request, "ok")
          [] c.kind \in {"close", "interrupt"} -> r

(* wait_commands: with no connection, a call fails at once and a leave     *)
(* takes its topic off what is joined again.                               *)
WaitCommand(s, c) ==
    IF s.next # "stay" THEN s
    ELSE LET r == [s EXCEPT !.read = @ + 1]
         IN  CASE c.kind \in {"join", "push"} -> Answer(r, c.request, "failed")
               [] c.kind = "leave" -> Answer([r EXCEPT !.topics = @ \ {c.topic},
                                                       !.left = @ \union {c.topic}],
                                             c.request, "ok")
               [] c.kind = "close" -> [r EXCEPT !.next = "closed"]
               [] c.kind = "interrupt" -> r

-----------------------------------------------------------------------------
(* One tick.                                                               *)

(* Once the connection opened, the own-user topic is joined.               *)
Hello(s) ==
    IF s.link.opened /\ s.link.joinRef = NoRef
    THEN IF Sends(s)
         THEN [JoinAll(s, <<User>>) EXCEPT !.link.joinRef = s.link.nextRef]
         ELSE [s EXCEPT !.next = "drop"]
    ELSE s

(* A heartbeat's ref is of no other frame, so it is not counted.           *)
Heartbeat(s) ==
    IF s.link.beat \/ ~Sends(s) THEN [s EXCEPT !.next = "drop"]
    ELSE [Send(s, [ref |-> NoRef, kind |-> "beat", topic |-> User, request |-> 0])
          EXCEPT !.link.beat = TRUE]

Going(s) == s.next = "stay" /\ s.link.joined

(* Connection::recv and Protocol::decode: all that arrived.                *)
Received == {wire[i] : i \in DOMAIN wire}
Decoded(s) ==
    [s EXCEPT
       !.link.opened = @ \/ \E e \in Received : e.kind = "opened",
       !.link.joins = @ \ {e.topic : e \in {x \in Received : x.kind = "message"}},
       !.link.beat = @ /\ ~\E e \in Received : e.kind = "beat"]

Heard(s) ==
    LET heard[i \in 0..Len(wire)] == IF i = 0 THEN s ELSE Deliver(heard[i-1], wire[i])
    IN  heard[Len(wire)]

CutOff(s) ==
    LET ends == {e.kind : e \in Received} \intersect {"refused", "closed"}
    IN  IF s.next # "stay" \/ ends = {} THEN s
        ELSE [s EXCEPT !.next = IF "refused" \in ends THEN "refused" ELSE "drop"]

RunAll(s) ==
    LET ran[i \in 0..Len(commands)] == IF i = 0 THEN s ELSE Run(ran[i-1], commands[i])
    IN  IF Going(s) THEN ran[Len(commands)] ELSE s

(* take_due, and a join of each topic that was due.                        *)
RejoinDue(s, ready) ==
    LET due   == {d \in s.due : d.topic \in ready}
        list  == SetToSeq(due)
        taken == [s EXCEPT !.due = @ \ due]
    IN  IF ~Going(s) \/ due = {} THEN s
        ELSE IF ~Sends(s) THEN [taken EXCEPT !.next = "drop"]
        ELSE [JoinAll(taken, [i \in DOMAIN list |-> list[i].topic]) EXCEPT
                 !.rejoining = @ \union
                     {[ref |-> s.link.nextRef + i - 1, topic |-> list[i].topic,
                       attempt |-> list[i].attempt] : i \in DOMAIN list}]

BeatDue(s, beat) == IF Going(s) /\ beat THEN Heartbeat(s) ELSE s

(* live, with the deadlines that passed and what is on the wire. Each      *)
(* stage runs unless one before it ended the step.                         *)
Live(s, ready, beat) ==
    BeatDue(RejoinDue(RunAll(CutOff(Heard(Hello(Decoded(s))))), ready), beat)

(* step: what the phase does, and what the outcome of it leads to.         *)
Outcome(s) ==
    CASE s.next = "stay" -> s
      [] s.next = "drop" -> Dropped(s)
      [] s.next = "refused" -> IF s.renewed THEN Dropped(s)
                               ELSE Renew([s EXCEPT !.renewed = TRUE])
      [] s.next = "closed" -> ClosedByGame(s)

WaitOver(s, due, token) ==
    CASE s.next = "closed" -> ClosedByGame(s)
      [] s.next # "closed" /\ ~due -> s
      [] s.next # "closed" /\ due /\ token = "stale" -> Renew(s)
      [] s.next # "closed" /\ due /\ token = "refused" -> Dropped(s)
      [] s.next # "closed" /\ due /\ token \notin {"stale", "refused"} -> Dial(s, token)

Waited(s, due, token) ==
    LET read[i \in 0..Len(commands)] == IF i = 0 THEN s ELSE WaitCommand(read[i-1], commands[i])
    IN  WaitOver(read[Len(commands)], due, token)

Unread(s) == SubSeq(commands, s.read + 1, Len(commands))

Stepped(takes, ready, beat, due, token) ==
    LET s == [sock EXCEPT !.takes = takes]
    IN  IF s.phase = "live" THEN Outcome(Live(s, ready, beat)) ELSE Waited(s, due, token)

NewServer == [state |-> "dialing", inbox |-> <<>>, joined |-> {}, ends |-> 0]
NoServer == [NewServer EXCEPT !.state = "none"]

(* What a step that leaves the socket as s does to the rest. The frames of *)
(* a connection that is kept reach its server, and a socket that ended is  *)
(* dropped.                                                                *)
Leave(s, takes) ==
    LET lives == sock.phase = "live" /\ s.phase = "live"
    IN  /\ sock' = [s EXCEPT !.sent = <<>>, !.read = 0, !.next = "stay", !.takes = FALSE]
        /\ commands' = IF s.phase = "removed" THEN <<>> ELSE Unread(s)
        /\ server' = IF lives
                     THEN IF ~takes THEN [server EXCEPT !.state = "gone", !.inbox = <<>>]
                          ELSE [server EXCEPT !.inbox = @ \o s.sent]
                     ELSE IF s.phase = "live" THEN NewServer ELSE NoServer
        /\ wire' = IF lives /\ ~takes THEN <<[kind |-> "closed"]>> ELSE <<>>

Dismiss(s) == IF s.phase = "removed" THEN Abandon(s, Unread(s)) ELSE s

(* pump_gamend_system: the socket steps.                                   *)
(* takes says that the connection's worker still takes frames, ready       *)
(* and beat are the deadlines of a live socket that passed, due that of a  *)
(* wait (the back-off is over, or the renewal answered), and token what    *)
(* the client's session is worth by then.                                  *)
Step(takes, ready, beat, due, token) ==
    /\ sock.phase # "removed"
    /\ ~takes => server.state = "up"
    /\ beat => sock.link.joined
    /\ due <=> token # "unread"
    /\ CASE sock.phase = "live" -> ~due
         [] sock.phase = "waiting" -> token # "refused"
         [] sock.phase = "renewing" -> token # "stale"
    /\ LET closing == \E e \in Received : e.kind \in {"refused", "closed"}
       IN  Leave(Dismiss(Stepped(takes /\ ~closing, ready, beat, due, token)), takes)
    /\ UNCHANGED asked

-----------------------------------------------------------------------------
(* The game's calls. GamendState forgets the socket once it ended.         *)

Unanswered(t) == \E r \in DOMAIN asked : /\ asked[r].topic = t
                                         /\ asked[r].kind \in {"join", "leave"}
                                         /\ sock.answers[r] = 0

Call(kind, t) ==
    /\ sock.life.at # "ended" /\ Len(asked) < MaxRequests
    /\ Patient /\ kind # "push" => ~Unanswered(t)
    /\ Patient /\ kind = "join" => sock.life.at = "open" /\ t \notin sock.mine
    /\ asked' = Append(asked, [kind |-> kind, topic |-> t])
    /\ commands' = Append(commands, [kind |-> kind, topic |-> t, request |-> Len(asked) + 1])
    /\ sock' = IF kind = "leave" THEN [sock EXCEPT !.mine = @ \ {t}] ELSE sock
    /\ UNCHANGED <<wire, server>>

Order(kind) ==
    /\ kind \in Orders /\ sock.life.at # "ended"
    /\ ~\E i \in DOMAIN commands : commands[i].request = 0
    /\ commands' = Append(commands, [kind |-> kind, topic |-> User, request |-> 0])
    /\ UNCHANGED <<sock, wire, server, asked>>

Close == Order("close")
Interrupt == Order("interrupt")

-----------------------------------------------------------------------------
(* The server and the network.                                             *)

Says(e, s) == /\ wire' = Append(wire, e)
              /\ server' = s
              /\ UNCHANGED <<sock, commands, asked>>

Accept == server.state = "dialing" /\ Says([kind |-> "opened"], [server EXCEPT !.state = "up"])

Refuse401 == server.state = "dialing" /\ Says([kind |-> "refused"], [server EXCEPT !.state = "gone"])

Vanish == /\ server.state \in {"dialing", "up"}
          /\ Says([kind |-> "closed"], [server EXCEPT !.state = "gone", !.inbox = <<>>])

Serve(ok) ==
    /\ server.state = "up" /\ server.inbox # <<>>
    /\ LET f == Head(server.inbox)
           joined == CASE ok /\ f.kind = "join" -> server.joined \union {f.topic}
                       [] ok /\ f.kind = "leave" -> server.joined \ {f.topic}
                       [] OTHER -> server.joined
       IN  /\ f.kind = "beat" => ok
           /\ Says(IF f.kind = "beat" THEN [kind |-> "beat"]
                   ELSE [kind |-> "reply", ref |-> f.ref, ok |-> ok, request |-> f.request],
                   [server EXCEPT !.inbox = Tail(@), !.joined = joined])

(* A call, or a join the socket made by itself, the server never answers,  *)
(* though it goes on with what comes behind it, heartbeats included.       *)
Ignore ==
    /\ server.state = "up" /\ server.inbox # <<>>
    /\ Head(server.inbox).kind # "beat" /\ User \in server.joined
    /\ server' = [server EXCEPT !.inbox = Tail(@)]
    /\ UNCHANGED <<sock, commands, wire, asked>>

EndChannel(t, event) ==
    /\ server.state = "up" /\ t \in server.joined /\ server.ends < MaxEnds
    /\ t = User => event = "error"
    /\ Says([kind |-> "message", event |-> event, topic |-> t],
            [server EXCEPT !.joined = @ \ {t}, !.ends = @ + 1])

-----------------------------------------------------------------------------
NewSocket ==
    [phase |-> "waiting", link |-> Link, once |-> FALSE, renewed |-> FALSE,
     tries |-> 0, pending |-> {}, joining |-> {}, topics |-> {}, lost |-> {},
     due |-> {}, rejoining |-> {},
     sent |-> <<>>, read |-> 0, next |-> "stay", takes |-> FALSE,
     gone |-> {}, left |-> {}, shut |-> {}, amiss |-> {},
     answers |-> [r \in Ids |-> 0], life |-> [at |-> "new", tries |-> 0], mine |-> {}]

Init ==
    /\ sock = NewSocket
    /\ commands = <<>> /\ wire = <<>> /\ server = NoServer
    /\ asked = <<>>

(* unread while no dial is due; refused is a renewal that failed.          *)
Tokens == {"unread", "fresh", "stale", "none", "refused"}
Channels == Topics \union {User}

Next ==
    \/ \E ready \in SUBSET {d.topic : d \in sock.due},
          takes, beat, due \in BOOLEAN, token \in Tokens : Step(takes, ready, beat, due, token)
    \/ \E c \in Calls : Call(c.kind, c.topic)
    \/ Close \/ Interrupt
    \/ Accept \/ Refuse401 \/ Vanish
    \/ \E ok \in BOOLEAN : Serve(ok)
    \/ Ignore
    \/ \E t \in Channels, event \in {"error", "close"} : EndChannel(t, event)

Spec == Init /\ [][Next]_vars

(* Frames go on, clocks run and the client's worker answers; a dial ends;  *)
(* the server answers the own-user join or the connection ends: that join  *)
(* has no heartbeat behind it yet, and nothing in the code gives up on it. *)
(* Of whatever else it is asked the server may answer all, some or none.   *)
Tick == \E token \in Tokens :
            Step(TRUE, {d.topic : d \in sock.due}, sock.link.joined,
                 sock.phase # "live", token)

(* No tick changes anything: the socket ended, or its connection has said  *)
(* nothing since and is not up for a heartbeat.                            *)
Quiet == \/ sock.phase = "removed"
         \/ sock.phase = "live" /\ ~sock.link.joined /\ wire = <<>>
                               /\ (sock.link.opened => sock.link.joinRef # NoRef)

FairSpec == /\ Spec
            /\ []<>Quiet \/ []<><<Tick>>_vars
            /\ WF_vars(Accept \/ Refuse401)
            /\ WF_vars(User \notin server.joined /\ \E ok \in BOOLEAN : Serve(ok))

-----------------------------------------------------------------------------
(* Every call the game made is in one place: in the queue, waiting for the *)
(* reply on this connection, or answered, and then once. The game awaits   *)
(* its id, so an answer that is lost leaves a task suspended for good.     *)
AnsweredOnce ==
    \A r \in DOMAIN asked :
        sock.answers[r] + Cardinality({i \in DOMAIN commands : commands[i].request = r})
                   + Cardinality({p \in sock.pending : p[2] = r}) = 1

(* A reply answers the call it was made to: refs start again with every    *)
(* connection, so one kept from the last would answer another call.        *)
RepliesAreTheirOwn == "crossed" \notin sock.amiss

(* The game hears open once, then reconnecting with each try counted and   *)
(* reopened, and closed or error last and once.                            *)
HeardInOrder == sock.life.at # "astray" /\ (sock.life.at = "ended" <=> sock.phase = "removed")

(* What the game was told it joined is what the next reconnect joins again,*)
(* unless the server refused to take a crashed channel back for good, the  *)
(* game is to hear that it is lost once the reconnect is over, or the      *)
(* server closed the channel after the game asked for it: a close that     *)
(* comes before the answer to the join, as one does of a channel joined    *)
(* twice, forgets a topic the game is then told it joined.                 *)
MineIsRejoined ==
    sock.phase # "removed" =>
        sock.mine \subseteq sock.topics \union sock.gone \union sock.lost \union sock.shut

(* A topic the game left is never joined again by the socket itself.       *)
LeftStaysLeft == "unwanted" \notin sock.amiss

(* The server took a call off the connection in hand and said nothing.     *)
Ignored(r) ==
    /\ server.state = "up" /\ \E p \in sock.pending : p[2] = r
    /\ ~\E i \in DOMAIN server.inbox : server.inbox[i].request = r
    /\ ~\E i \in DOMAIN wire : wire[i].kind = "reply" /\ wire[i].request = r

(* Every call is answered in the end, by the server, by the drop that an   *)
(* unanswered heartbeat leads to, or by the socket's end: unless a server  *)
(* passes it over and goes on. No call has a timeout of its own, so that   *)
(* one is open for as long as its connection.                              *)
EveryCallIsAnswered ==
    \A r \in Ids : r \in DOMAIN asked ~> (sock.answers[r] > 0 \/ Ignored(r))

(* A socket the game closes ends.                                          *)
ClosingEnds == (\E i \in DOMAIN commands : commands[i].kind = "close") ~> sock.life.at = "ended"
=============================================================================
