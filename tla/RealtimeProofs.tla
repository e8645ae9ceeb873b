--------------------------- MODULE RealtimeProofs ---------------------------
(***************************************************************************)
(* The realtime socket, proved for any topics, any calls and orders, any   *)
(* server and any number of reconnects.                                    *)
(***************************************************************************)
EXTENDS Realtime, Stepwise, FiniteSetTheorems, SequenceTheorems

Frames == [ref : Nat, kind : {"join", "push", "leave", "beat"}, topic : Channels,
           request : Nat]

Events == [kind : {"opened", "refused", "closed", "beat"}]
          \union [kind : {"reply"}, ref : Nat, ok : BOOLEAN, request : Nat]
          \union [kind : {"message"}, event : {"error", "close"}, topic : Channels]

Requests == [kind : {"join", "push", "leave", "close", "interrupt"}, topic : Channels,
             request : Nat]

Servers == [state : {"none", "dialing", "up", "gone"}, inbox : Seq(Frames),
            joined : SUBSET Channels, ends : Nat]

Connections ==
    [opened : BOOLEAN, joinRef : Nat, joined : BOOLEAN, back : SUBSET (Nat \X Topics),
     joins : SUBSET Channels, nextRef : Nat \ {0}, beat : BOOLEAN]

Lives == [at : {"new", "open", "lost", "ended", "astray"}, tries : Nat]

Sockets ==
    [phase : {"waiting", "renewing", "live", "removed"}, link : Connections,
     once : BOOLEAN, renewed : BOOLEAN, tries : Nat,
     pending : SUBSET (Nat \X Ids), joining : SUBSET (Nat \X Topics),
     topics : SUBSET Topics, lost : SUBSET Topics,
     due : SUBSET [topic : Channels, attempt : Nat],
     rejoining : SUBSET [ref : Nat, topic : Channels, attempt : Nat],
     sent : Seq(Frames), read : Nat, next : {"stay", "drop", "refused", "closed"},
     takes : BOOLEAN, gone : SUBSET Channels, left : SUBSET Topics,
     shut : SUBSET Channels,
     amiss : SUBSET {"unwanted", "crossed"},
     answers : [Ids -> Nat], life : Lives, mine : SUBSET Topics]

(* The same with the types of the fields named: what a change leaves alone *)
(* need not be opened to see that it is typed.                             *)
Phases == {"waiting", "renewing", "live", "removed"}
Flags == BOOLEAN
Pendings == SUBSET (Nat \X Ids)
Joinings == SUBSET (Nat \X Topics)
TopicSets == SUBSET Topics
ChannelSets == SUBSET Channels
Dues == SUBSET [topic : Channels, attempt : Nat]
Rejoinings == SUBSET [ref : Nat, topic : Channels, attempt : Nat]
Sendings == Seq(Frames)
Nexts == {"stay", "drop", "refused", "closed"}
Wrongs == SUBSET {"unwanted", "crossed"}
Answerings == [Ids -> Nat]

Typed ==
    [phase : Phases, link : Connections, once : Flags, renewed : Flags, tries : Nat,
     pending : Pendings, joining : Joinings, topics : TopicSets, lost : TopicSets,
     due : Dues, rejoining : Rejoinings, sent : Sendings, read : Nat, next : Nexts,
     takes : Flags, gone : ChannelSets, left : TopicSets,
     shut : ChannelSets, amiss : Wrongs,
     answers : Answerings, life : Lives, mine : TopicSets]

LEMMA SocketsAre == Sockets = Typed
BY DEF Sockets, Typed, Phases, Flags, Pendings, Joinings, TopicSets, ChannelSets, Dues,
       Rejoinings, Sendings, Nexts, Wrongs, Answerings

-----------------------------------------------------------------------------
(* What holds of a socket all along a step.                                *)

(* What waits for the server is of a connection that came far enough.      *)
Young(s) ==
    /\ s.phase # "live" => s.link = Link
    /\ ~s.link.opened => s.link.joinRef = NoRef
    /\ ~s.link.opened /\ s.phase # "removed" => s.due = {} /\ s.rejoining = {}
    /\ s.link.joinRef = NoRef => ~s.link.joined
    /\ ~s.link.joined => s.link.back = {} /\ s.pending = {} /\ s.joining = {}
    /\ s.next = "refused" => ~s.link.opened
    /\ IsFiniteSet(s.topics) /\ IsFiniteSet(s.due)
    /\ s.read <= Len(commands)

(* What the game left is nothing the socket would join.                    *)
Parted(s) ==
    /\ "unwanted" \notin s.amiss
    /\ s.left \intersect s.topics = {}
    /\ \A d \in s.due : d.topic \notin s.left
    /\ \A d \in s.rejoining : d.topic \notin s.left

(* A frame, or the reply to one: if a call waits under its ref, it is of   *)
(* that call.                                                              *)
Its(s, ref, request) ==
    /\ ref \in 0 .. s.link.nextRef - 1
    /\ \A p \in s.pending : p[1] = ref => p[2] = request

Owned(s) ==
    /\ "crossed" \notin s.amiss
    /\ \A p \in s.pending : p[1] \in 1 .. s.link.nextRef - 1
    /\ \A p, q \in s.pending : p[1] = q[1] => p = q
    /\ s.phase = "live" =>
        /\ \A i \in DOMAIN s.sent : /\ Its(s, s.sent[i].ref, s.sent[i].request)
                                    /\ s.sent[i].kind # "beat" => s.sent[i].ref # NoRef
        /\ \A i \in DOMAIN server.inbox : Its(s, server.inbox[i].ref, server.inbox[i].request)
        /\ \A i \in DOMAIN wire : wire[i].kind = "reply" => Its(s, wire[i].ref, wire[i].request)

(* A call is queued, waits for its reply, or was answered.                 *)
Queued(s, r) == \E i \in DOMAIN commands : i > s.read /\ commands[i].request = r
Waits(s, r) == \E p \in s.pending : p[2] = r

Accounted(s) ==
    /\ \A p, q \in s.pending : p[2] = q[2] => p = q
    /\ \A p \in s.pending : p[2] \in DOMAIN asked
    /\ \A r \in Ids : /\ s.answers[r] \in {0, 1}
                      /\ r \in DOMAIN asked /\ s.answers[r] = 0 => Queued(s, r) \/ Waits(s, r)
                      /\ s.answers[r] = 1 => r \in DOMAIN asked /\ ~Queued(s, r)
                      /\ Waits(s, r) => s.answers[r] = 0 /\ ~Queued(s, r)

(* Where the socket is when the game heard what it heard.                  *)
Ready(s) == s.phase = "live" /\ s.link.joined /\ s.link.back = {}

Placed(s) ==
    /\ s.life.at # "astray"
    /\ s.life.at = "ended" <=> s.phase = "removed"
    /\ s.life.at = "new" <=> s.phase # "removed" /\ ~s.once
    /\ s.life.at = "open" <=> s.phase # "removed" /\ s.once /\ Ready(s)
    /\ s.life.at \in {"new", "open"} => s.tries = 0 /\ s.life.tries = 0
    /\ s.life.at = "lost" => s.life.tries = s.tries /\ s.tries <= Tries
    /\ s.link.joined => s.once

Sound(s) == s \in Sockets /\ Young(s) /\ Parted(s) /\ Owned(s) /\ Accounted(s) /\ Placed(s)

-----------------------------------------------------------------------------
(* What holds of the rest between the steps.                               *)

(* The calls the game made, and what the queue holds of them.              *)
CallsMade ==
    /\ asked \in Seq(Calls) /\ Len(asked) <= MaxRequests
    /\ commands \in Seq(Requests)
    /\ \A i \in DOMAIN commands :
        LET c == commands[i]
        IN  IF c.kind \in {"close", "interrupt"} THEN c.request = 0
            ELSE c.request \in DOMAIN asked /\ asked[c.request] = [kind |-> c.kind, topic |-> c.topic]
    /\ \A i, j \in DOMAIN commands :
        commands[i].request = commands[j].request /\ commands[i].request # 0 => i = j

(* The connection opened, or says so first.                                *)
Opening == sock.link.opened \/ \E i \in DOMAIN wire : wire[i].kind = "opened"

Wired ==
    /\ wire \in Seq(Events) /\ server \in Servers
    /\ sock.phase # "live" => wire = <<>> /\ server = NoServer
    /\ server.state = "dialing" => ~Opening /\ wire = <<>>
    /\ server.state = "up" => Opening
    /\ \A i \in DOMAIN wire : /\ wire[i].kind \in {"reply", "message"} => Opening
                              /\ wire[i].kind = "refused" => ~Opening
                              /\ wire[i].kind = "reply" => wire[i].ref # NoRef
    /\ \A i \in DOMAIN server.inbox : server.inbox[i].kind # "beat" => server.inbox[i].ref # NoRef

AtRest == sock.sent = <<>> /\ sock.read = 0 /\ sock.next = "stay" /\ ~sock.takes

Inv == CallsMade /\ Wired /\ AtRest /\ Sound(sock)

-----------------------------------------------------------------------------
(* One state of a socket is another's but for some fields.                 *)
Fields == {"phase", "link", "once", "renewed", "tries", "pending", "joining", "topics", "lost",
           "due", "rejoining", "sent", "read", "next", "takes", "gone", "left", "shut",
           "amiss", "answers", "life", "mine"}

Alike(s, u, but) == \A f \in Fields \ but : u[f] = s[f]

(* What is left of the step goes on from the same place.                   *)
Onward(s, u) ==
    /\ u.phase = s.phase /\ u.read = s.read
    /\ u.link.opened = s.link.opened /\ (s.link.joined => u.link.joined)

(* Every set of topics can be put in an order.                             *)
LEMMA InSomeOrder ==
    ASSUME NEW S, IsFiniteSet(S)
    PROVE  SetToSeq(S) \in Seq(S)
<1> DEFINE n == Cardinality(S)
<1>1. n \in Nat /\ ExistsBijection(1 .. n, S)
    BY FS_CardinalityType
<1>2. PICK f \in Bijection(1 .. n, S) : TRUE
    BY <1>1 DEF ExistsBijection
<1>3. f \in [1 .. n -> S] /\ IsInjective(f)
    BY <1>2 DEF Bijection, Injection, IsInjective
<1>4. SetToSeq(S) \in [1 .. n -> S]
    BY <1>3, Zenon DEF SetToSeq
<1> HIDE DEF n
<1> QED
    BY <1>1, <1>4

(* What changes none of the calls, the frames and the game's place.        *)
LEMMA Eased ==
    ASSUME NEW s, Sound(s), NEW u \in Sockets, Young(u), Parted(u),
           Alike(s, u, {"topics", "lost", "due", "rejoining", "gone", "joining", "mine", "link",
                        "renewed", "left", "shut"}),
           u.link.joined = s.link.joined, u.link.back = s.link.back,
           u.link.nextRef = s.link.nextRef, u.link.opened = s.link.opened
    PROVE  Sound(u) /\ Onward(s, u)
<1>1. /\ u.phase = s.phase /\ u.once = s.once /\ u.tries = s.tries /\ u.pending = s.pending
      /\ u.sent = s.sent /\ u.read = s.read /\ u.amiss = s.amiss /\ u.answers = s.answers
      /\ u.life = s.life
    BY DEF Alike, Fields
<1>2. Owned(u)
    BY <1>1 DEF Owned, Its, Sound
<1>3. Accounted(u)
    BY <1>1 DEF Accounted, Queued, Waits, Sound
<1>4. Placed(u)
    BY <1>1 DEF Placed, Ready, Sound
<1> QED
    BY <1>1, <1>2, <1>3, <1>4 DEF Sound, Onward

(* Frames stay with their calls as long as no ref is used twice.           *)
LEMMA OwnedStill ==
    ASSUME NEW s, Owned(s), NEW u, "crossed" \notin u.amiss, u.phase = s.phase,
           \A p \in u.pending : p[1] \in 1 .. u.link.nextRef - 1,
           \A p, q \in u.pending : p[1] = q[1] => p = q,
           \A ref, request : Its(s, ref, request) => Its(u, ref, request),
           u.phase = "live" => \A i \in DOMAIN u.sent :
                /\ Its(u, u.sent[i].ref, u.sent[i].request)
                /\ u.sent[i].kind # "beat" => u.sent[i].ref # NoRef
    PROVE  Owned(u)
<1>1. ASSUME u.phase = "live", NEW i \in DOMAIN server.inbox
      PROVE  Its(u, server.inbox[i].ref, server.inbox[i].request)
    BY <1>1 DEF Owned
<1>2. ASSUME u.phase = "live", NEW i \in DOMAIN wire, wire[i].kind = "reply"
      PROVE  Its(u, wire[i].ref, wire[i].request)
    BY <1>2 DEF Owned
<1> QED
    BY <1>1, <1>2 DEF Owned

LEMMA MessageIsSound ==
    ASSUME NEW s, Sound(s), s.link.opened, s.phase = "live",
           NEW e \in Events, e.kind = "message"
    PROVE  Sound(Message(s, e)) /\ Onward(s, Message(s, e))
<1> DEFINE u == Message(s, e)
           others == {d \in s.due : d.topic # e.topic}
           again == others \union {[topic |-> e.topic, attempt |-> 1]}
<1>1. s \in Sockets /\ e.topic \in Channels /\ e.event \in {"error", "close"}
    BY DEF Sound, Events
<1>2. IsFiniteSet(s.due) /\ IsFiniteSet(s.topics)
    BY DEF Sound, Young
<1>3. /\ others \in SUBSET [topic : Channels, attempt : Nat] /\ IsFiniteSet(others)
      /\ again \in SUBSET [topic : Channels, attempt : Nat] /\ IsFiniteSet(again)
    <2>1. others \subseteq s.due
        OBVIOUS
    <2>2. IsFiniteSet(others) /\ IsFiniteSet({[topic |-> e.topic, attempt |-> 1]})
        BY <1>2, <2>1, FS_Subset, FS_Singleton
    <2>3. IsFiniteSet(again)
        BY <2>2, FS_Union
    <2>4. s.due \subseteq [topic : Channels, attempt : Nat]
        BY <1>1 DEF Sockets
    <2>5. [topic |-> e.topic, attempt |-> 1] \in [topic : Channels, attempt : Nat]
        BY <1>1
    <2> HIDE DEF others
    <2> QED
        BY <2>1, <2>2, <2>3, <2>4, <2>5
<1>4. \A d \in others : d \in s.due
    OBVIOUS
<1>5. \A d \in again : d \in s.due \/ d.topic = e.topic
    OBVIOUS
<1> HIDE DEF others, again
<1>6. CASE e.event = "close"
    <2> DEFINE topics == s.topics \ {e.topic}
               mine == s.mine \ {e.topic}
               shut == s.shut \union {e.topic}
    <2>1. /\ topics \in SUBSET Topics /\ mine \in SUBSET Topics /\ IsFiniteSet(topics)
          /\ shut \in SUBSET Channels
        BY <1>1, <1>2, FS_Subset DEF Sockets
    <2>2. topics \subseteq s.topics
        OBVIOUS
    <2>3. u = [s EXCEPT !.topics = topics, !.mine = mine, !.due = others, !.shut = shut]
        BY <1>1, <1>6 DEF Message, others, Sockets
    <2> HIDE DEF topics, mine, shut, u
    <2>4. u \in Sockets
        BY <1>1, <1>3, <2>1, <2>3, SocketsAre DEF Typed, TopicSets, ChannelSets, Dues
    <2>5. Alike(s, u, {"topics", "mine", "due", "shut"}) /\ u.topics = topics /\ u.due = others
        BY <1>1, <2>3 DEF Sockets, Alike, Fields
    <2>6. Young(u)
        BY <1>3, <2>1, <2>5 DEF Young, Alike, Fields, Sound
    <2>7. Parted(u)
        BY <1>4, <2>2, <2>5 DEF Parted, Alike, Fields, Sound
    <2>8. Sound(u) /\ Onward(s, u)
        BY <2>4, <2>5, <2>6, <2>7, Eased DEF Alike, Fields
    <2> QED
        BY <2>8 DEF u
<1>7. CASE e.event # "close" /\ (e.topic = User \/ e.topic \in s.topics)
    <2>1. e.topic \notin s.left
        BY <1>1, <1>7, RtConstants DEF Sound, Parted, Sockets
    <2>2. u = [s EXCEPT !.due = again]
        BY <1>1, <1>7 DEF Message, again, others, Sockets
    <2> HIDE DEF u
    <2>4. u \in Sockets
        BY <1>1, <1>3, <2>2, SocketsAre DEF Typed, Dues
    <2>5. Alike(s, u, {"due"}) /\ u.due = again
        BY <1>1, <2>2 DEF Sockets, Alike, Fields
    <2>6. Young(u)
        BY <1>3, <2>5 DEF Young, Alike, Fields, Sound
    <2>7. Parted(u)
        BY <1>5, <2>1, <2>5 DEF Parted, Alike, Fields, Sound
    <2>8. Sound(u) /\ Onward(s, u)
        BY <2>4, <2>5, <2>6, <2>7, Eased DEF Alike, Fields
    <2> QED
        BY <2>8 DEF u
<1>8. CASE e.event # "close" /\ ~(e.topic = User \/ e.topic \in s.topics)
    BY <1>8 DEF Message, Onward
<1> QED
    BY <1>6, <1>7, <1>8

(* The reply to the join of a crashed channel.                             *)
LEMMA CrashReplyIsSound ==
    ASSUME NEW s, Sound(s), s.link.opened, s.phase = "live", NEW ref, NEW ok,
           \E x \in s.rejoining : x.ref = ref
    PROVE  Sound(CrashReply(s, ref, ok)) /\ Onward(s, CrashReply(s, ref, ok))
<1> DEFINE u == CrashReply(s, ref, ok)
           j == CHOOSE x \in s.rejoining : x.ref = ref
           rest == s.rejoining \ {j}
           topics == s.topics \ {j.topic}
           gone == s.gone \union {j.topic}
           next == [topic |-> j.topic, attempt |-> j.attempt + 1]
           due == s.due \union {next}
<1>1. s \in Sockets /\ j \in s.rejoining
    BY Zenon DEF Sound
<1>2. j.topic \in Channels /\ j.attempt \in Nat /\ j.topic \notin s.left
    BY <1>1 DEF Sockets, Sound, Parted
<1> HIDE DEF j
<1>3. /\ rest \in SUBSET [ref : Nat, topic : Channels, attempt : Nat] /\ rest \subseteq s.rejoining
      /\ topics \in SUBSET Topics /\ topics \subseteq s.topics /\ gone \in SUBSET Channels
    BY <1>1, <1>2 DEF Sockets
<1>4. next \in [topic : Channels, attempt : Nat] /\ next.topic = j.topic
    BY <1>2
<1>5. IsFiniteSet(s.topics) /\ IsFiniteSet(s.due)
    BY DEF Sound, Young
<1> HIDE DEF next
<1>6. IsFiniteSet(topics) /\ IsFiniteSet(due)
    <2>1. IsFiniteSet({next})
        BY FS_Singleton
    <2>2. IsFiniteSet(topics)
        BY <1>3, <1>5, FS_Subset
    <2>3. IsFiniteSet(due)
        BY <1>5, <2>1, FS_Union
    <2> QED
        BY <2>2, <2>3
<1>7. due \in SUBSET [topic : Channels, attempt : Nat] /\ \A d \in due : d \in s.due \/ d = next
    BY <1>1, <1>4 DEF Sockets
<1> HIDE DEF rest, topics, gone, due
<1>8. u = IF ok THEN [s EXCEPT !.rejoining = rest]
          ELSE IF j.attempt >= Tries
               THEN [s EXCEPT !.rejoining = rest, !.topics = topics, !.gone = gone]
               ELSE [s EXCEPT !.rejoining = rest, !.due = due]
    BY <1>1 DEF CrashReply, Sockets, rest, topics, gone, next, due, j
<1> HIDE DEF u
<1>9. u \in Sockets
    <2>1. ok => u \in Sockets
        BY <1>1, <1>3, <1>8, SocketsAre DEF Typed, Rejoinings
    <2>2. ~ok /\ j.attempt >= Tries => u \in Sockets
        BY <1>1, <1>3, <1>8, SocketsAre DEF Typed, Rejoinings, TopicSets, ChannelSets
    <2>3. ~ok /\ ~(j.attempt >= Tries) => u \in Sockets
        BY <1>1, <1>3, <1>7, <1>8, SocketsAre DEF Typed, Rejoinings, Dues
    <2> QED
        BY <2>1, <2>2, <2>3
<1>10. /\ Alike(s, u, {"rejoining", "topics", "gone", "due"}) /\ u.rejoining = rest
       /\ u.topics \in {s.topics, topics} /\ u.due \in {s.due, due}
    BY <1>1, <1>8 DEF Sockets, Alike, Fields
<1>11. Young(u)
    BY <1>5, <1>6, <1>10 DEF Young, Alike, Fields, Sound
<1>12. Parted(u)
    BY <1>2, <1>3, <1>4, <1>7, <1>10 DEF Parted, Alike, Fields, Sound
<1>13. Sound(u) /\ Onward(s, u)
    BY <1>9, <1>10, <1>11, <1>12, Eased DEF Alike, Fields
<1> QED
    BY <1>13 DEF u

LEMMA AskedIds == CallsMade => DOMAIN asked \subseteq Ids /\ DOMAIN asked = 1 .. Len(asked)
<1> SUFFICES ASSUME CallsMade PROVE DOMAIN asked \subseteq Ids /\ DOMAIN asked = 1 .. Len(asked)
    OBVIOUS
<1>1. asked \in Seq(Calls) /\ Len(asked) <= MaxRequests /\ MaxRequests \in Nat
    BY RtConstants DEF CallsMade
<1> QED
    BY <1>1 DEF Ids

(* An answer to a call, which was asked and not answered.                  *)
LEMMA AnswerIs ==
    ASSUME NEW s \in Sockets, CallsMade, NEW r \in DOMAIN asked, NEW how
    PROVE  /\ Answer(s, r, how) \in Sockets
           /\ Alike(s, Answer(s, r, how), {"answers", "mine"})
           /\ Answer(s, r, how).answers = [s.answers EXCEPT ![r] = @ + 1]
<1> DEFINE u == Answer(s, r, how)
           told == [s.answers EXCEPT ![r] = @ + 1]
           m == u.mine
<1>1. asked[r].kind = "join" => asked[r].topic \in Topics
    <2>1. asked[r] \in Calls
        BY DEF CallsMade
    <2>2. Calls \subseteq [kind : {"join", "push", "leave"}, topic : Topics]
                 \union [kind : {"push"}, topic : {User}]
        BY RtConstants
    <2> QED
        BY <2>1, <2>2
<1>2. told \in [Ids -> Nat]
    BY AskedIds DEF Sockets
<1>3. m \in SUBSET Topics
    BY <1>1 DEF Answer, Sockets
<1>4. u = [s EXCEPT !.answers = told, !.mine = m]
    BY DEF Answer, Sockets
<1> HIDE DEF told, m, u
<1>5. u \in Sockets /\ u.answers = told
    BY <1>2, <1>3, <1>4, SocketsAre DEF Typed, Answerings, TopicSets
<1>6. Alike(s, u, {"answers", "mine"})
    BY <1>4 DEF Sockets, Alike, Fields
<1> QED
    BY <1>5, <1>6 DEF told, u

(* A call that waits no longer and is answered.                            *)
LEMMA AnsweredNow ==
    ASSUME NEW s \in Sockets, Accounted(s), CallsMade, NEW u \in Sockets, NEW r \in DOMAIN asked,
           u.read = s.read, s.answers[r] = 0, ~Queued(s, r),
           u.answers = [s.answers EXCEPT ![r] = @ + 1],
           u.pending = {p \in s.pending : p[2] # r}
    PROVE  Accounted(u)
<1>1. r \in Ids /\ s.answers \in [Ids -> Nat]
    BY AskedIds DEF Sockets
<1>2. u.answers[r] = 1 /\ \A q \in Ids \ {r} : u.answers[q] = s.answers[q]
    BY <1>1
<1>3. \A q : Queued(u, q) <=> Queued(s, q)
    BY DEF Queued
<1>4. \A q \in Ids \ {r} : Waits(u, q) <=> Waits(s, q)
    BY DEF Waits
<1>5. ~Waits(u, r)
    BY DEF Waits
<1>6. ASSUME NEW q \in Ids
      PROVE  /\ u.answers[q] \in {0, 1}
             /\ q \in DOMAIN asked /\ u.answers[q] = 0 => Queued(u, q) \/ Waits(u, q)
             /\ u.answers[q] = 1 => q \in DOMAIN asked /\ ~Queued(u, q)
             /\ Waits(u, q) => u.answers[q] = 0 /\ ~Queued(u, q)
    BY <1>1, <1>2, <1>3, <1>4, <1>5 DEF Accounted
<1> QED
    BY <1>6 DEF Accounted

(* The reply to a call.                                                    *)
LEMMA CallReplyIsSound ==
    ASSUME NEW s, Sound(s), CallsMade, s.phase = "live",
           NEW e \in Events, e.kind = "reply", Its(s, e.ref, e.request)
    PROVE  Sound(CallReply(s, e)) /\ Onward(s, CallReply(s, e))
<1> DEFINE u == CallReply(s, e)
           join == {p[2] : p \in {q \in s.joining : q[1] = e.ref}}
           joining == {p \in s.joining : p[1] # e.ref}
           topics == IF e.ok THEN s.topics ELSE s.topics \ join
           f == [s EXCEPT !.joining = joining, !.topics = topics]
           pending == {p \in s.pending : p[1] # e.ref}
           r == Of(s.pending, e.ref)
           how == IF e.ok THEN "ok" ELSE "refused"
<1>1. s \in Sockets /\ Accounted(s) /\ Owned(s) /\ Young(s) /\ Parted(s) /\ Placed(s)
    BY DEF Sound
<1>2. joining \in SUBSET (Nat \X Topics) /\ joining \subseteq s.joining
    BY <1>1 DEF Sockets
<1>3. topics \in SUBSET Topics /\ topics \subseteq s.topics /\ IsFiniteSet(topics)
    <2>1. topics \subseteq s.topics
        OBVIOUS
    <2> HIDE DEF topics
    <2> QED
        BY <1>1, <2>1, FS_Subset DEF Sockets, Young
<1> HIDE DEF join, joining, topics
<1>4. f \in Sockets
    BY <1>1, <1>2, <1>3, SocketsAre DEF Typed, Joinings, TopicSets
<1>5. Alike(s, f, {"joining", "topics"}) /\ f.joining = joining /\ f.topics = topics
    BY <1>1 DEF Sockets, Alike, Fields
<1>6. Young(f)
    BY <1>1, <1>2, <1>3, <1>5 DEF Young, Alike, Fields
<1>7. Parted(f)
    BY <1>1, <1>3, <1>5 DEF Parted, Alike, Fields
<1>8. f = [s EXCEPT !.joining = {p \in @ : p[1] # e.ref},
                    !.topics = IF e.ok THEN @ ELSE @ \ join]
    BY <1>1 DEF joining, topics, Sockets
<1> HIDE DEF f
<1>9. Sound(f) /\ Onward(s, f)
    BY <1>4, <1>5, <1>6, <1>7, Eased DEF Alike, Fields
<1>10. CASE e.ref \notin Refs(s.pending)
    BY <1>8, <1>9, <1>10 DEF CallReply, join
<1>11. CASE e.ref \in Refs(s.pending)
    <2>1. PICK p \in s.pending : p[1] = e.ref
        BY <1>11 DEF Refs
    <2>2. r = p[2] /\ p = <<e.ref, r>>
        <3>1. \A q \in s.pending : q[1] = e.ref => q = p
            BY <1>1, <2>1 DEF Owned
        <3>2. (CHOOSE q \in s.pending : q[1] = e.ref) = p
            BY <2>1, <3>1
        <3>3. p \in Nat \X Ids
            BY <1>1, <2>1 DEF Sockets
        <3>4. r = p[2]
            BY <3>2, Zenon DEF Of
        <3>5. p = <<p[1], p[2]>>
            BY <3>3
        <3> QED
            BY <2>1, <3>4, <3>5
    <2>3. r = e.request
        BY <2>1, <2>2 DEF Its
    <2>4. r \in DOMAIN asked /\ s.answers[r] = 0 /\ ~Queued(s, r)
        <3>1. Waits(s, r) /\ r \in DOMAIN asked
            BY <1>1, <2>1, <2>2 DEF Waits, Accounted
        <3> QED
            BY <1>1, <3>1, AskedIds DEF Accounted
    <2>5. pending = {q \in s.pending : q[2] # r} /\ pending \subseteq s.pending
        <3>1. \A q \in s.pending : q[1] = e.ref <=> q = p
            BY <1>1, <2>1 DEF Owned
        <3>2. \A q \in s.pending : q[2] = r <=> q = p
            BY <1>1, <2>1, <2>2 DEF Accounted
        <3> QED
            BY <3>1, <3>2
    <2> HIDE DEF r, pending, how
    <2> DEFINE a == Answer(f, r, how)
    <2>6. a \in Sockets /\ Alike(f, a, {"answers", "mine"}) /\ a.answers = [f.answers EXCEPT ![r] = @ + 1]
        BY <1>4, <2>4, AnswerIs, Zenon
    <2>7. u = [a EXCEPT !.pending = pending]
        <3>1. /\ a.amiss = s.amiss /\ a.pending = s.pending
            BY <1>5, <2>6 DEF Alike, Fields
        <3>2. u = [a EXCEPT !.pending = {q \in @ : q[1] # e.ref},
                            !.amiss = IF r = e.request THEN @ ELSE @ \union {"crossed"}]
            BY <1>8, <1>11 DEF CallReply, join, r, how
        <3> HIDE DEF a
        <3> QED
            BY <2>3, <2>6, <3>1, <3>2 DEF pending, Sockets
    <2> HIDE DEF a, u
    <2>8. pending \in SUBSET (Nat \X Ids)
        BY <1>1, <2>5 DEF Sockets
    <2>9. u \in Sockets /\ Alike(a, u, {"pending"}) /\ u.pending = pending
        BY <2>6, <2>7, <2>8, SocketsAre DEF Typed, Pendings, Alike, Fields
    <2>10. /\ Alike(f, u, {"answers", "mine", "pending"}) /\ u.pending = pending
           /\ u.answers = [f.answers EXCEPT ![r] = @ + 1]
        BY <2>6, <2>9 DEF Alike, Fields
    <2>11. Young(u) /\ Parted(u) /\ Placed(u) /\ Onward(s, u)
        <3>1. f.pending = s.pending
            BY <1>5 DEF Alike, Fields
        <3>2. Young(u)
            BY <1>9, <2>5, <2>10, <3>1 DEF Young, Alike, Fields, Sound
        <3>3. Parted(u)
            BY <1>9, <2>10 DEF Parted, Alike, Fields, Sound
        <3>4. Placed(u)
            BY <1>9, <2>10 DEF Placed, Ready, Alike, Fields, Sound
        <3> QED
            BY <1>9, <2>10, <3>2, <3>3, <3>4 DEF Onward, Alike, Fields
    <2>12. Owned(u)
        <3>1. /\ u.link = s.link /\ u.phase = s.phase /\ u.sent = s.sent /\ u.amiss = s.amiss
              /\ \A q \in u.pending : q \in s.pending
            BY <1>5, <2>5, <2>10 DEF Alike, Fields
        <3>2. \A ref, request : Its(s, ref, request) => Its(u, ref, request)
            BY <3>1 DEF Its
        <3>3. /\ \A q \in u.pending : q[1] \in 1 .. u.link.nextRef - 1
              /\ \A p1, p2 \in u.pending : p1[1] = p2[1] => p1 = p2
            BY <1>1, <3>1 DEF Owned
        <3>4. "crossed" \notin u.amiss /\ u.phase = "live"
            BY <1>1, <3>1 DEF Owned
        <3>5. ASSUME NEW i \in DOMAIN u.sent
              PROVE  /\ Its(u, u.sent[i].ref, u.sent[i].request)
                     /\ u.sent[i].kind # "beat" => u.sent[i].ref # NoRef
            BY <1>1, <3>1, <3>2 DEF Owned
        <3> QED
            BY <1>1, <3>1, <3>2, <3>3, <3>4, <3>5, OwnedStill
    <2>13. Accounted(u)
        <3>1. u.read = s.read /\ u.answers = [s.answers EXCEPT ![r] = @ + 1]
            BY <1>5, <2>10 DEF Alike, Fields
        <3> QED
            BY <1>1, <2>4, <2>5, <2>9, <3>1, AnsweredNow
    <2> QED
        BY <2>9, <2>11, <2>12, <2>13 DEF Sound, u
<1> QED
    BY <1>10, <1>11

(* What the game hears of the end of a reconnect.                          *)
LEMMA ReopenedIsSound ==
    ASSUME NEW s \in Sockets, Young(s), Parted(s), Owned(s), Accounted(s), s.life.at = "lost",
           s.once, Ready(s)
    PROVE  Sound(Reopened(s)) /\ Onward(s, Reopened(s))
<1> DEFINE u == Reopened(s)
           mine == s.mine \ s.lost
           life == [at |-> "open", tries |-> 0]
           none == {}
<1>1. mine \in SUBSET Topics /\ life \in Lives /\ none \in SUBSET Topics
    BY DEF Sockets, Lives
<1>2. u = [s EXCEPT !.life = life, !.tries = 0, !.mine = mine, !.lost = none]
    BY DEF Reopened, Tell, Hear, Sockets
<1>3. life.at = "open" /\ life.tries = 0
    OBVIOUS
<1> HIDE DEF u, mine, life, none
<1>4. u \in Sockets
    BY <1>1, <1>2, SocketsAre DEF Typed, TopicSets
<1>5. Alike(s, u, {"life", "tries", "mine", "lost"}) /\ u.life = life /\ u.tries = 0
    BY <1>2 DEF Sockets, Alike, Fields
<1>6. Young(u)
    BY <1>5 DEF Young, Alike, Fields
<1>7. Parted(u)
    BY <1>5 DEF Parted, Alike, Fields
<1>8. Owned(u)
    BY <1>5 DEF Owned, Its, Alike, Fields
<1>9. Accounted(u)
    BY <1>5 DEF Accounted, Queued, Waits, Alike, Fields
<1>10. Placed(u)
    BY <1>3, <1>5 DEF Placed, Ready, Alike, Fields
<1>11. Onward(s, u)
    BY <1>5 DEF Onward, Alike, Fields
<1> QED
    BY <1>4, <1>6, <1>7, <1>8, <1>9, <1>10, <1>11 DEF Sound, u

(* Frames the socket sends by itself, from the refs it has not used.       *)
LEMMA JoinAllIsOwned ==
    ASSUME NEW s \in Sockets, Owned(s), NEW list \in Seq(Channels),
           Range(list) \intersect s.left = {}
    PROVE  LET u == JoinAll(s, list)
           IN  /\ u \in Sockets /\ Owned(u) /\ Alike(s, u, {"link", "sent"})
               /\ u.link.nextRef = s.link.nextRef + Len(list)
               /\ u.link.opened = s.link.opened /\ u.link.joined = s.link.joined
               /\ u.link.joinRef = s.link.joinRef /\ u.link.back = s.link.back
<1> DEFINE u == JoinAll(s, list)
           n == s.link.nextRef
           k == Len(list)
           frames == [i \in DOMAIN list |-> JoinFrame(n + i - 1, list[i])]
           joins == s.link.joins \union Range(list)
           link == [s.link EXCEPT !.nextRef = n + k, !.joins = joins]
           sent == IF s.takes THEN s.sent \o frames ELSE s.sent
<1>1. /\ n \in Nat \ {0} /\ k \in Nat /\ DOMAIN list = 1 .. k
      /\ \A i \in DOMAIN list : list[i] \in Channels
    BY DEF Sockets, Connections
<1>2. /\ frames \in Seq(Frames) /\ DOMAIN frames = 1 .. k /\ Len(frames) = k
      /\ \A i \in 1 .. k : /\ frames[i].ref = n + i - 1 /\ frames[i].request = 0
    <2>1. \A i \in 1 .. k : n + i - 1 \in Nat /\ JoinFrame(n + i - 1, list[i]) \in Frames
        BY <1>1 DEF JoinFrame, Frames
    <2> QED
        BY <1>1, <2>1 DEF JoinFrame
<1>3. joins \in SUBSET Channels
    <2>1. Range(list) \subseteq Channels
        BY <1>1, Zenon DEF Range
    <2> QED
        BY <2>1 DEF Sockets, Connections
<1>4. u = [s EXCEPT !.link = link, !.sent = sent]
    BY DEF JoinAll, Sends, Sockets, Connections
<1> HIDE DEF frames, joins, n, k, u
<1>5. /\ link \in Connections /\ link.nextRef = n + k
      /\ link.opened = s.link.opened /\ link.joined = s.link.joined
      /\ link.joinRef = s.link.joinRef /\ link.back = s.link.back
    <2>1. n + k \in Nat \ {0}
        BY <1>1
    <2>2. s.link \in Connections
        BY DEF Sockets
    <2> QED
        BY <1>3, <2>1, <2>2 DEF Connections
<1>6. sent \in Seq(Frames)
    BY <1>2, ConcatProperties DEF Sockets
<1>7. /\ \A i \in DOMAIN sent :
            \/ i \in DOMAIN s.sent /\ sent[i] = s.sent[i]
            \/ \E j \in 1 .. k : sent[i] = frames[j]
    <2>1. CASE s.takes
        <3>1. s.sent \in Seq(Frames)
            BY DEF Sockets
        <3> QED
            BY <1>2, <2>1, <3>1, ConcatProperties
    <2>2. CASE ~s.takes
        BY <2>2
    <2> QED
        BY <2>1, <2>2
<1> HIDE DEF link, sent
<1>8. u \in Sockets /\ Alike(s, u, {"link", "sent"}) /\ u.link = link /\ u.sent = sent
    BY <1>4, <1>5, <1>6, SocketsAre DEF Typed, Sendings, Alike, Fields
<1>9. u.pending = s.pending /\ u.phase = s.phase /\ u.amiss = s.amiss
    BY <1>8 DEF Alike, Fields
<1>10. ASSUME NEW ref, NEW request, Its(s, ref, request)
       PROVE  Its(u, ref, request)
    BY <1>1, <1>5, <1>8, <1>9, <1>10 DEF Its, n
<1>11. ASSUME NEW j \in 1 .. k
       PROVE  Its(u, frames[j].ref, frames[j].request) /\ frames[j].ref # NoRef
    <2>1. frames[j].ref = n + j - 1 /\ n + j - 1 \in 0 .. n + k - 1 /\ n + j - 1 >= n /\ n + j - 1 # 0
        BY <1>1, <1>2
    <2>2. \A p \in s.pending : p[1] < n
        BY <1>1 DEF Owned, n
    <2> QED
        BY <1>1, <1>5, <1>8, <1>9, <2>1, <2>2 DEF Its, NoRef
<1>12. u.phase = "live" => \A i \in DOMAIN u.sent :
            /\ Its(u, u.sent[i].ref, u.sent[i].request)
            /\ u.sent[i].kind # "beat" => u.sent[i].ref # NoRef
    BY <1>7, <1>8, <1>9, <1>10, <1>11 DEF Owned
<1>13. \A p \in u.pending : p[1] \in 1 .. u.link.nextRef - 1
    BY <1>1, <1>5, <1>8, <1>9 DEF Owned, n
<1>14. Owned(u)
    BY <1>9, <1>10, <1>12, <1>13, OwnedStill DEF Owned
<1> QED
    BY <1>5, <1>8, <1>14 DEF u, n, k

(* Where the step stops.                                                   *)
LEMMA StoppingIsSound ==
    ASSUME NEW s, Sound(s), NEW where \in {"stay", "drop", "refused", "closed"},
           where = "refused" => ~s.link.opened
    PROVE  LET u == [s EXCEPT !.next = where]
           IN  Sound(u) /\ Onward(s, u) /\ u.next = where /\ Alike(s, u, {"next"})
<1> DEFINE u == [s EXCEPT !.next = where]
<1>1. s \in Sockets
    BY DEF Sound
<1>2. u \in Sockets
    BY <1>1, SocketsAre DEF Typed, Nexts
<1>3. Alike(s, u, {"next"}) /\ u.next = where
    BY <1>1 DEF Sockets, Alike, Fields
<1> HIDE DEF u
<1>4. Young(u) /\ Parted(u)
    BY <1>3 DEF Young, Parted, Alike, Fields, Sound
<1>5. Owned(u)
    BY <1>3 DEF Owned, Its, Alike, Fields, Sound
<1>6. Accounted(u) /\ Placed(u)
    BY <1>3 DEF Accounted, Queued, Waits, Placed, Ready, Alike, Fields, Sound
<1>7. Onward(s, u)
    BY <1>3 DEF Onward, Alike, Fields
<1> QED
    BY <1>2, <1>3, <1>4, <1>5, <1>6, <1>7 DEF Sound, u

(* The topics joined again after a reconnect.                              *)
LEMMA RejoinIsSound ==
    ASSUME NEW s \in Sockets, Young(s), Parted(s), Owned(s), Accounted(s),
           s.phase = "live", s.link.opened, s.link.joined, s.link.joinRef # NoRef, s.once,
           s.life.at = "lost", s.life.tries = s.tries, s.tries <= Tries
    PROVE  Sound(Rejoin(s)) /\ Onward(s, Rejoin(s))
<1> DEFINE list == SetToSeq(s.topics)
           n == s.link.nextRef
           pairs == {<<n + i - 1, list[i]>> : i \in DOMAIN list}
           a == JoinAll(s, list)
           back == IF s.takes THEN pairs ELSE a.link.back
           again == [a EXCEPT !.link.back = back]
<1>1. list \in Seq(s.topics) /\ s.topics \subseteq Topics /\ n \in Nat \ {0}
    BY InSomeOrder DEF Young, Sockets, Connections
<1> HIDE DEF list
<1>2. /\ list \in Seq(Channels) /\ DOMAIN list = 1 .. Len(list) /\ Len(list) \in Nat
      /\ \A i \in DOMAIN list : list[i] \in s.topics
    BY <1>1 DEF Channels
<1>3. Range(list) \intersect s.left = {}
    BY <1>2 DEF Range, Parted
<1>4. /\ a \in Sockets /\ Owned(a) /\ Alike(s, a, {"link", "sent"})
      /\ a.link.nextRef = n + Len(list)
      /\ a.link.opened = s.link.opened /\ a.link.joined = s.link.joined
      /\ a.link.joinRef = s.link.joinRef /\ a.link.back = s.link.back
    BY <1>2, <1>3, JoinAllIsOwned, Zenon
<1>5. pairs \in SUBSET (Nat \X Topics)
    BY <1>1, <1>2
<1> HIDE DEF n, pairs
<1>6. back \in SUBSET (Nat \X Topics)
    BY <1>4, <1>5 DEF Sockets, Connections
<1>7. Rejoin(s) = IF again.link.back = {} THEN Reopened(again) ELSE again
    BY DEF Rejoin, Sends, list, pairs, n
<1> HIDE DEF a, back
<1> DEFINE link == [a.link EXCEPT !.back = back]
<1>8. again = [a EXCEPT !.link = link] /\ link.back = back
    BY <1>4 DEF Sockets, Connections
<1>9. /\ link \in Connections /\ link.nextRef = a.link.nextRef
      /\ link.opened /\ link.joined /\ link.joinRef # NoRef
    <2>1. a.link \in Connections
        BY <1>4 DEF Sockets
    <2>2. link \in Connections
        BY <1>6, <2>1 DEF Connections
    <2>3. /\ link.nextRef = a.link.nextRef /\ link.opened = a.link.opened
          /\ link.joined = a.link.joined /\ link.joinRef = a.link.joinRef
        BY <2>1 DEF Connections
    <2> QED
        BY <1>4, <2>2, <2>3
<1> HIDE DEF link, again
<1>10. again \in Sockets /\ Alike(a, again, {"link"}) /\ again.link = link
    BY <1>4, <1>8, <1>9, SocketsAre DEF Typed, Alike, Fields
<1>11. Alike(s, again, {"link", "sent"})
    BY <1>4, <1>10 DEF Alike, Fields
<1>12. Young(again)
    BY <1>9, <1>10, <1>11 DEF Young, Alike, Fields
<1>13. Parted(again)
    BY <1>11 DEF Parted, Alike, Fields
<1>14. Owned(again)
    BY <1>4, <1>9, <1>10 DEF Owned, Its, Alike, Fields
<1>15. Accounted(again)
    BY <1>11 DEF Accounted, Queued, Waits, Alike, Fields
<1>16. Onward(s, again)
    BY <1>9, <1>10, <1>11 DEF Onward, Alike, Fields
<1>17. /\ again.life = s.life /\ again.once /\ again.tries = s.tries /\ again.phase = "live"
       /\ again.link.joined
    BY <1>9, <1>10, <1>11 DEF Alike, Fields
<1>18. CASE again.link.back = {}
    <2>1. Ready(again)
        BY <1>17, <1>18 DEF Ready
    <2>2. Sound(Reopened(again)) /\ Onward(again, Reopened(again))
        BY <1>10, <1>12, <1>13, <1>14, <1>15, <1>17, <2>1, ReopenedIsSound
    <2> QED
        BY <1>7, <1>16, <1>18, <2>2 DEF Onward
<1>19. CASE again.link.back # {}
    <2>1. Placed(again)
        BY <1>17, <1>19 DEF Placed, Ready
    <2> QED
        BY <1>7, <1>10, <1>12, <1>13, <1>14, <1>15, <1>16, <1>19, <2>1 DEF Sound
<1> QED
    BY <1>18, <1>19

(* The reply to the join of the own-user topic.                            *)
LEMMA UserReplyIsSound ==
    ASSUME NEW s, Sound(s), s.phase = "live", s.link.opened, s.link.joinRef # NoRef,
           ~s.link.joined, NEW ok \in BOOLEAN
    PROVE  Sound(UserReply(s, ok)) /\ Onward(s, UserReply(s, ok))
<1> DEFINE link == [s.link EXCEPT !.joined = TRUE]
           no == FALSE
           yes == TRUE
           j == [s EXCEPT !.link = link, !.renewed = no]
<1>1. s \in Sockets /\ Young(s) /\ Parted(s) /\ Owned(s) /\ Accounted(s) /\ Placed(s)
    BY DEF Sound
<1>2. /\ link \in Connections /\ link.joined /\ link.opened /\ link.joinRef # NoRef
      /\ link.back = {} /\ link.nextRef = s.link.nextRef
    BY <1>1 DEF Young, Sockets, Connections
<1>3. no \in BOOLEAN /\ yes \in BOOLEAN /\ yes
    OBVIOUS
<1>4. j = [s EXCEPT !.link.joined = TRUE, !.renewed = FALSE]
    BY <1>1 DEF Sockets, Connections
<1> HIDE DEF link, no, yes
<1>5. j \in Sockets /\ Alike(s, j, {"link", "renewed"}) /\ j.link = link
    <2>1. j \in Sockets
        BY <1>1, <1>2, <1>3, SocketsAre DEF Typed, Flags
    <2>2. Alike(s, j, {"link", "renewed"})
        BY <1>1 DEF Sockets, Alike, Fields
    <2>3. j.link = link
        BY <1>1 DEF Sockets
    <2> QED
        BY <2>1, <2>2, <2>3
<1> HIDE DEF j
<1>6. Young(j)
    BY <1>1, <1>2, <1>5 DEF Young, Alike, Fields
<1>7. Parted(j)
    BY <1>1, <1>5 DEF Parted, Alike, Fields
<1>8. Owned(j)
    BY <1>1, <1>2, <1>5 DEF Owned, Its, Alike, Fields
<1>9. Accounted(j)
    BY <1>1, <1>5 DEF Accounted, Queued, Waits, Alike, Fields
<1>10. /\ j.phase = "live" /\ j.once = s.once /\ j.life = s.life /\ j.tries = s.tries
       /\ j.link.joined /\ j.link.opened /\ j.link.joinRef # NoRef /\ Onward(s, j)
    BY <1>2, <1>5 DEF Alike, Fields, Onward
<1>11. CASE ~ok
    BY <1>11, StoppingIsSound DEF UserReply
<1>12. CASE ok /\ s.once
    <2>1. s.life.at = "lost" /\ s.life.tries = s.tries /\ s.tries <= Tries
        BY <1>1, <1>12 DEF Placed, Ready, Sockets, Lives
    <2>2. Sound(Rejoin(j)) /\ Onward(j, Rejoin(j))
        BY <1>5, <1>6, <1>7, <1>8, <1>9, <1>10, <1>12, <2>1, RejoinIsSound
    <2>3. UserReply(s, ok) = Rejoin(j)
        BY <1>4, <1>12 DEF UserReply
    <2> QED
        BY <1>10, <2>2, <2>3 DEF Onward
<1>13. CASE ok /\ ~s.once
    <2> DEFINE life == [at |-> "open", tries |-> 0]
               u == [j EXCEPT !.life = life, !.once = yes]
    <2>1. s.life.at = "new"
        BY <1>1, <1>13 DEF Placed
    <2>2. UserReply(s, ok) = u
        BY <1>4, <1>5, <1>10, <1>13, <2>1 DEF UserReply, Tell, Hear, Sockets, yes
    <2>3. life \in Lives /\ life.at = "open" /\ life.tries = 0
        BY DEF Lives
    <2> HIDE DEF life
    <2>4. u \in Sockets /\ Alike(j, u, {"life", "once"}) /\ u.life = life /\ u.once
        BY <1>3, <1>5, <2>3, SocketsAre DEF Typed, Flags, Alike, Fields
    <2> HIDE DEF u
    <2>5. s.tries = 0
        BY <1>1, <2>1 DEF Placed
    <2>6. Young(u) /\ Parted(u)
        BY <1>6, <1>7, <2>4 DEF Young, Parted, Alike, Fields
    <2>7. Owned(u)
        BY <1>8, <2>4 DEF Owned, Its, Alike, Fields
    <2>8. Accounted(u)
        BY <1>9, <2>4 DEF Accounted, Queued, Waits, Alike, Fields
    <2>9. Placed(u)
        BY <1>2, <1>5, <1>10, <2>3, <2>4, <2>5 DEF Placed, Ready, Alike, Fields
    <2>10. Onward(s, u)
        BY <1>10, <2>4 DEF Onward, Alike, Fields
    <2> QED
        BY <2>2, <2>4, <2>6, <2>7, <2>8, <2>9, <2>10 DEF Sound
<1> QED
    BY <1>11, <1>12, <1>13

(* The reply to a join a reconnect made.                                   *)
LEMMA BackReplyIsSound ==
    ASSUME NEW s, Sound(s), s.phase = "live", NEW ref, ref \in Refs(s.link.back),
           NEW ok \in BOOLEAN
    PROVE  Sound(BackReply(s, ref, ok)) /\ Onward(s, BackReply(s, ref, ok))
<1> DEFINE t == Of(s.link.back, ref)
           back == {p \in s.link.back : p[1] # ref}
           link == [s.link EXCEPT !.back = back]
           topics == IF ok THEN s.topics ELSE s.topics \ {t}
           lost == IF ok THEN s.lost ELSE s.lost \union {t}
           r == [s EXCEPT !.link = link, !.topics = topics, !.lost = lost]
<1>1. s \in Sockets /\ Young(s) /\ Parted(s) /\ Owned(s) /\ Accounted(s) /\ Placed(s)
    BY DEF Sound
<1>2. /\ s.link.back # {} /\ s.link.joined /\ s.once /\ s.life.at = "lost"
      /\ s.life.tries = s.tries /\ s.tries <= Tries
    <2>1. s.link.back # {} /\ s.link.joined
        BY <1>1 DEF Refs, Young
    <2> QED
        BY <1>1, <2>1 DEF Placed, Ready, Sockets, Lives
<1>3. t \in Topics
    <2>1. PICK p \in s.link.back : p[1] = ref
        BY DEF Refs
    <2>2. (CHOOSE q \in s.link.back : q[1] = ref) \in s.link.back
        BY <2>1
    <2>3. s.link.back \subseteq Nat \X Topics
        BY <1>1 DEF Sockets, Connections
    <2> QED
        BY <2>2, <2>3 DEF Of
<1> HIDE DEF t
<1>4. /\ link \in Connections /\ link.joined = s.link.joined /\ link.opened = s.link.opened
      /\ link.joinRef = s.link.joinRef /\ link.nextRef = s.link.nextRef /\ link.back = back
    BY <1>1 DEF Sockets, Connections
<1>5. /\ topics \in SUBSET Topics /\ topics \subseteq s.topics /\ IsFiniteSet(topics)
      /\ lost \in SUBSET Topics
    <2>1. topics \subseteq s.topics /\ lost \subseteq s.lost \union {t}
        OBVIOUS
    <2> HIDE DEF topics, lost
    <2> QED
        BY <1>1, <1>3, <2>1, FS_Subset DEF Sockets, Young
<1>6. r = [s EXCEPT !.link.back = {p \in @ : p[1] # ref},
                    !.topics = IF ok THEN @ ELSE @ \ {t},
                    !.lost = IF ok THEN @ ELSE @ \union {t}]
    BY <1>1 DEF Sockets, Connections
<1> HIDE DEF back, link, topics, lost
<1>7. r \in Sockets /\ Alike(s, r, {"link", "topics", "lost"}) /\ r.link = link /\ r.topics = topics
    <2>1. r \in Sockets
        BY <1>1, <1>4, <1>5, SocketsAre DEF Typed, TopicSets
    <2>2. Alike(s, r, {"link", "topics", "lost"}) /\ r.link = link /\ r.topics = topics
        BY <1>1 DEF Sockets, Alike, Fields
    <2> QED
        BY <2>1, <2>2
<1>8. BackReply(s, ref, ok) = IF r.link.back = {} THEN Reopened(r) ELSE r
    BY <1>6 DEF BackReply, t
<1> HIDE DEF r
<1>9. Young(r)
    BY <1>1, <1>2, <1>4, <1>5, <1>7 DEF Young, Alike, Fields
<1>10. Parted(r)
    BY <1>1, <1>5, <1>7 DEF Parted, Alike, Fields
<1>11. Owned(r)
    BY <1>1, <1>4, <1>7 DEF Owned, Its, Alike, Fields
<1>12. Accounted(r)
    BY <1>1, <1>7 DEF Accounted, Queued, Waits, Alike, Fields
<1>13. /\ r.life = s.life /\ r.once = s.once /\ r.tries = s.tries /\ r.phase = "live"
       /\ r.link.joined /\ Onward(s, r)
    BY <1>2, <1>4, <1>7 DEF Alike, Fields, Onward
<1>14. CASE r.link.back = {}
    <2>1. Ready(r)
        BY <1>13, <1>14 DEF Ready
    <2>2. Sound(Reopened(r)) /\ Onward(r, Reopened(r))
        BY <1>2, <1>7, <1>9, <1>10, <1>11, <1>12, <1>13, <2>1, ReopenedIsSound
    <2> QED
        BY <1>8, <1>13, <1>14, <2>2 DEF Onward
<1>15. CASE r.link.back # {}
    <2>1. Placed(r)
        BY <1>2, <1>13, <1>15 DEF Placed, Ready
    <2> QED
        BY <1>7, <1>8, <1>9, <1>10, <1>11, <1>12, <1>13, <1>15, <2>1 DEF Sound
<1> QED
    BY <1>14, <1>15

(* Anything the server says, one thing at a time.                          *)
LEMMA DeliverIsSound ==
    ASSUME NEW s, Sound(s), s.phase = "live", CallsMade, NEW e \in Events,
           e.kind = "reply" => Its(s, e.ref, e.request) /\ e.ref # NoRef,
           e.kind \in {"reply", "message"} => s.link.opened
    PROVE  Sound(Deliver(s, e)) /\ Onward(s, Deliver(s, e))
<1>1. Sound(s) /\ Onward(s, s)
    BY DEF Onward
<1>2. CASE s.next = "stay" /\ e.kind = "reply"
    <2>1. e.ok \in BOOLEAN /\ Deliver(s, e) = Reply(s, e)
        BY <1>2 DEF Events, Deliver
    <2>2. CASE ~s.link.joined /\ e.ref = s.link.joinRef
        BY <1>2, <2>1, <2>2, UserReplyIsSound DEF Reply
    <2>3. CASE ~(~s.link.joined /\ e.ref = s.link.joinRef) /\ e.ref \in Refs(s.link.back)
        BY <2>1, <2>3, BackReplyIsSound DEF Reply
    <2>4. CASE /\ ~(~s.link.joined /\ e.ref = s.link.joinRef) /\ e.ref \notin Refs(s.link.back)
               /\ \E x \in s.rejoining : x.ref = e.ref
        BY <1>2, <2>1, <2>4, CrashReplyIsSound DEF Reply
    <2>5. CASE /\ ~(~s.link.joined /\ e.ref = s.link.joinRef) /\ e.ref \notin Refs(s.link.back)
               /\ ~\E x \in s.rejoining : x.ref = e.ref
        BY <1>2, <2>1, <2>5, CallReplyIsSound DEF Reply
    <2> QED
        BY <2>2, <2>3, <2>4, <2>5
<1>3. CASE s.next = "stay" /\ e.kind = "message"
    BY <1>3, MessageIsSound DEF Deliver
<1>4. CASE s.next # "stay" \/ e.kind \notin {"reply", "message"}
    BY <1>1, <1>4 DEF Deliver
<1> QED
    BY <1>2, <1>3, <1>4

-----------------------------------------------------------------------------
(* The stages of a tick of a live socket.                                  *)

LEMMA DecodedIsSound ==
    ASSUME NEW s, Sound(s), s.phase = "live", s.next = "stay", wire \in Seq(Events)
    PROVE  LET u == Decoded(s)
           IN  /\ Sound(u) /\ u.phase = "live" /\ u.next = "stay" /\ u.read = s.read
               /\ u.link.opened <=> s.link.opened \/ \E i \in DOMAIN wire : wire[i].kind = "opened"
<1> DEFINE u == Decoded(s)
           opened == s.link.opened \/ \E e \in Received : e.kind = "opened"
           joins == s.link.joins \ {e.topic : e \in {x \in Received : x.kind = "message"}}
           beat == s.link.beat /\ ~\E e \in Received : e.kind = "beat"
           link == [s.link EXCEPT !.opened = opened, !.joins = joins, !.beat = beat]
<1>1. s \in Sockets /\ Young(s) /\ Parted(s) /\ Owned(s) /\ Accounted(s) /\ Placed(s)
    BY DEF Sound
<1>2. /\ opened \in BOOLEAN /\ beat \in BOOLEAN /\ joins \in SUBSET Channels
      /\ s.link.opened => opened
    <2>1. s.link.opened \in BOOLEAN /\ s.link.beat \in BOOLEAN /\ s.link.joins \in SUBSET Channels
        BY <1>1 DEF Sockets, Connections
    <2>2. opened \in BOOLEAN /\ beat \in BOOLEAN /\ (s.link.opened => opened)
        BY Zenon
    <2> QED
        BY <2>1, <2>2
<1>3. opened <=> s.link.opened \/ \E i \in DOMAIN wire : wire[i].kind = "opened"
    BY DEF Received
<1>4. u = [s EXCEPT !.link = link]
    BY <1>1 DEF Decoded, Sockets, Connections
<1> HIDE DEF opened, joins, beat
<1>5. /\ link \in Connections /\ link.opened = opened /\ link.joined = s.link.joined
      /\ link.joinRef = s.link.joinRef /\ link.back = s.link.back /\ link.nextRef = s.link.nextRef
    <2>1. s.link \in Connections
        BY <1>1 DEF Sockets
    <2> HIDE DEF link
    <2>2. link.opened = opened
        BY <2>1 DEF link, Connections
    <2>3. link \in Connections
        BY <1>2, <2>1 DEF link, Connections
    <2>4. /\ link.joined = s.link.joined
          /\ link.joinRef = s.link.joinRef /\ link.back = s.link.back
          /\ link.nextRef = s.link.nextRef
        BY <2>1 DEF link, Connections
    <2> QED
        BY <2>2, <2>3, <2>4
<1> HIDE DEF link, u
<1>6. u \in Sockets /\ Alike(s, u, {"link"}) /\ u.link = link
    BY <1>1, <1>4, <1>5, SocketsAre DEF Typed, Alike, Fields
<1>7. Young(u)
    BY <1>1, <1>2, <1>5, <1>6 DEF Young, Alike, Fields
<1>8. Parted(u)
    BY <1>1, <1>6 DEF Parted, Alike, Fields
<1>9. Owned(u)
    BY <1>1, <1>5, <1>6 DEF Owned, Its, Alike, Fields
<1>10. Accounted(u)
    BY <1>1, <1>6 DEF Accounted, Queued, Waits, Alike, Fields
<1>11. Placed(u)
    BY <1>1, <1>5, <1>6 DEF Placed, Ready, Alike, Fields
<1>12. u.phase = "live" /\ u.next = "stay" /\ u.read = s.read
    BY <1>6 DEF Alike, Fields
<1>13. Sound(u)
    BY <1>6, <1>7, <1>8, <1>9, <1>10, <1>11 DEF Sound
<1> QED
    BY <1>3, <1>5, <1>6, <1>12, <1>13 DEF u

LEMMA HelloIsSound ==
    ASSUME NEW s, Sound(s), s.phase = "live"
    PROVE  Sound(Hello(s)) /\ Onward(s, Hello(s))
<1> DEFINE one == <<User>>
           a == JoinAll(s, one)
           ref == s.link.nextRef
           u == [a EXCEPT !.link.joinRef = ref]
           link == [a.link EXCEPT !.joinRef = ref]
<1>1. s \in Sockets /\ Young(s) /\ Parted(s) /\ Owned(s) /\ Accounted(s) /\ Placed(s)
    BY DEF Sound
<1>2. CASE ~(s.link.opened /\ s.link.joinRef = NoRef)
    BY <1>2 DEF Hello, Onward
<1>3. CASE s.link.opened /\ s.link.joinRef = NoRef /\ ~s.takes
    BY <1>3, StoppingIsSound DEF Hello, Sends
<1>4. CASE s.link.opened /\ s.link.joinRef = NoRef /\ s.takes
    <2>1. one \in Seq(Channels) /\ Range(one) \intersect s.left = {}
        <3>1. Range(one) = {User}
            BY DEF Range
        <3>2. User \notin s.left
            BY <1>1, RtConstants DEF Sockets
        <3> QED
            BY <3>1, <3>2 DEF Channels
    <2>2. Hello(s) = u
        BY <1>4 DEF Hello, Sends
    <2> HIDE DEF one
    <2>3. /\ a \in Sockets /\ Owned(a) /\ Alike(s, a, {"link", "sent"})
          /\ a.link.opened = s.link.opened /\ a.link.joined = s.link.joined
          /\ a.link.back = s.link.back
        BY <1>1, <2>1, JoinAllIsOwned, Zenon
    <2> HIDE DEF a
    <2>4. ref \in Nat /\ ref # NoRef
        BY <1>1 DEF Sockets, Connections, NoRef
    <2> HIDE DEF ref
    <2>5. u = [a EXCEPT !.link = link]
        BY <2>3 DEF Sockets, Connections
    <2>6. /\ link \in Connections /\ link.opened = s.link.opened /\ link.joined = s.link.joined
          /\ link.back = s.link.back /\ link.nextRef = a.link.nextRef /\ link.joinRef = ref
        BY <2>3, <2>4 DEF Sockets, Connections
    <2> HIDE DEF u, link
    <2>7. u \in Sockets /\ Alike(a, u, {"link"}) /\ u.link = link
        BY <2>3, <2>5, <2>6, SocketsAre DEF Typed, Alike, Fields
    <2>8. Alike(s, u, {"link", "sent"})
        BY <2>3, <2>7 DEF Alike, Fields
    <2>9. Young(u)
        BY <1>1, <1>4, <2>4, <2>6, <2>7, <2>8 DEF Young, Alike, Fields
    <2>10. Parted(u)
        BY <1>1, <2>8 DEF Parted, Alike, Fields
    <2>11. Owned(u)
        BY <2>3, <2>6, <2>7 DEF Owned, Its, Alike, Fields
    <2>12. Accounted(u)
        BY <1>1, <2>8 DEF Accounted, Queued, Waits, Alike, Fields
    <2>13. Placed(u)
        BY <1>1, <2>6, <2>7, <2>8 DEF Placed, Ready, Alike, Fields
    <2>14. Onward(s, u)
        BY <2>6, <2>7, <2>8 DEF Onward, Alike, Fields
    <2> QED
        BY <2>2, <2>7, <2>9, <2>10, <2>11, <2>12, <2>13, <2>14 DEF Sound
<1> QED
    BY <1>2, <1>3, <1>4

(* What has to hold of the wire for the socket to listen.                  *)
Hearable(s) ==
    /\ wire \in Seq(Events)
    /\ \A i \in DOMAIN wire : /\ wire[i].kind = "reply" => wire[i].ref # NoRef
                              /\ wire[i].kind \in {"reply", "message"} => s.link.opened

(* Where a socket can be as the step goes on.                              *)
Beyond(s) == {x \in Sockets : Sound(x) /\ Onward(s, x)}

LEMMA SocketSteps ==
    ASSUME NEW s, NEW x \in Beyond(s), NEW n \in Nat, NEW G \in [1 .. n -> [Beyond(s) -> Beyond(s)]]
    PROVE  \E f \in [0 .. n -> Beyond(s)] : f[0] = x /\ \A i \in 1 .. n : f[i] = G[i][f[i - 1]]
BY StepsExist

(* All that arrived, heard one event at a time.                            *)
LEMMA HeardSteps ==
    ASSUME NEW s, Sound(s), s.phase = "live", CallsMade, Hearable(s)
    PROVE  \E f : /\ f[0] = s /\ Heard(s) = f[Len(wire)]
                  /\ \A i \in 0 .. Len(wire) : f[i] \in Beyond(s)
                  /\ \A i \in 1 .. Len(wire) : f[i] = Deliver(f[i - 1], wire[i])
<1> DEFINE n == Len(wire)
           S == Beyond(s)
           F(f) == f = [i \in 0 .. n |-> IF i = 0 THEN s ELSE Deliver(f[i - 1], wire[i])]
           heard == CHOOSE f : F(f)
<1>1. n \in Nat /\ \A i \in 1 .. n : wire[i] \in Events
    BY DEF Hearable
<1>2. s \in S
    BY DEF Sound, Onward, Beyond
<1>3. ASSUME NEW i \in 1 .. n, NEW x \in S
      PROVE  Deliver(x, wire[i]) \in S
    <2> DEFINE e == wire[i]
    <2>1. e \in Events /\ i \in DOMAIN wire
        BY <1>1 DEF Hearable
    <2>2. Sound(x) /\ x.phase = "live" /\ x.link.opened = s.link.opened /\ Onward(s, x)
        BY DEF Onward, Beyond
    <2>3. /\ e.kind = "reply" => Its(x, e.ref, e.request) /\ e.ref # NoRef
          /\ e.kind \in {"reply", "message"} => x.link.opened
        BY <2>1, <2>2 DEF Hearable, Sound, Owned
    <2> HIDE DEF e
    <2>4. Sound(Deliver(x, e)) /\ Onward(x, Deliver(x, e))
        BY <2>1, <2>2, <2>3, DeliverIsSound
    <2>5. Deliver(x, e) \in Sockets /\ Onward(s, Deliver(x, e))
        BY <2>2, <2>4 DEF Onward, Sound
    <2> QED
        BY <2>4, <2>5 DEF e, Beyond
<1>4. PICK G \in [1 .. n -> [S -> S]] : \A i \in 1 .. n : \A x \in S : G[i][x] = Deliver(x, wire[i])
    <2> DEFINE G == [i \in 1 .. n |-> [x \in S |-> Deliver(x, wire[i])]]
    <2> HIDE DEF S, n
    <2>1. G \in [1 .. n -> [S -> S]]
        BY <1>3
    <2>2. \A i \in 1 .. n : \A x \in S : G[i][x] = Deliver(x, wire[i])
        OBVIOUS
    <2> HIDE DEF G
    <2> QED
        BY <2>1, <2>2
<1>5. PICK f \in [0 .. n -> S] : f[0] = s /\ \A i \in 1 .. n : f[i] = G[i][f[i - 1]]
    <2>1. n \in Nat /\ s \in Beyond(s) /\ G \in [1 .. n -> [Beyond(s) -> Beyond(s)]]
        BY <1>1, <1>2, <1>4
    <2> HIDE DEF n, F
    <2> QED
        BY <2>1, SocketSteps
<1> HIDE DEF S
<1>6. \A i \in 1 .. n : i \in 0 .. n /\ i - 1 \in 0 .. n /\ i # 0
    BY <1>1
<1>7. \A i \in 1 .. n : f[i] = Deliver(f[i - 1], wire[i])
    BY <1>4, <1>5, <1>6
<1>8. \A i \in 0 .. n : i = 0 \/ i \in 1 .. n
    BY <1>1
<1>9. Heard(s) = heard[n]
    BY DEF Heard, n
<1> HIDE DEF n
<1>10. \A i \in 0 .. n : f[i] = IF i = 0 THEN s ELSE Deliver(f[i - 1], wire[i])
    BY <1>5, <1>7, <1>8
<1>11. F(f)
    BY <1>10
<1> HIDE DEF F
<1>12. F(heard)
    BY <1>11
<1>13. heard = [i \in 0 .. n |-> IF i = 0 THEN s ELSE Deliver(heard[i - 1], wire[i])]
    BY <1>12 DEF F
<1> HIDE DEF heard
<1>14. heard[0] = s /\ \A i \in 1 .. n : heard[i] = Deliver(heard[i - 1], wire[i])
    BY <1>1, <1>6, <1>13
<1> DEFINE P == {i \in 0 .. n : heard[i] \in S}
<1>15. ASSUME NEW i \in 0 .. n - 1, i \in P PROVE i + 1 \in P
    <2>1. i + 1 \in 1 .. n /\ i + 1 \in 0 .. n /\ i + 1 - 1 = i
        BY <1>1
    <2>2. heard[i + 1] = Deliver(heard[i], wire[i + 1]) /\ heard[i] \in S
        BY <1>14, <1>15, <2>1
    <2>3. heard[i + 1] \in S
        BY <1>3, <2>1, <2>2
    <2> QED
        BY <2>1, <2>3
<1>16. 0 .. n \subseteq P
    <2>1. 0 \in P
        BY <1>1, <1>2, <1>14
    <2> HIDE DEF P
    <2> QED
        BY <1>1, <1>15, <2>1, StepByStep
<1>17. \A i \in 0 .. n : heard[i] \in S
    BY <1>16
<1> QED
    BY <1>9, <1>14, <1>17 DEF S, n

LEMMA HeardIsSound ==
    ASSUME NEW s, Sound(s), s.phase = "live", CallsMade, Hearable(s)
    PROVE  Sound(Heard(s)) /\ Onward(s, Heard(s))
<1>1. PICK f : /\ Heard(s) = f[Len(wire)]
               /\ \A i \in 0 .. Len(wire) : f[i] \in Beyond(s)
    BY HeardSteps
<1>2. Len(wire) \in 0 .. Len(wire)
    BY DEF Hearable
<1> QED
    BY <1>1, <1>2 DEF Beyond

-----------------------------------------------------------------------------
(* What the game asks.                                                     *)

(* All that holds of a socket while its command is run: the request of it  *)
(* is for the step to place.                                               *)
Holding(s, r) ==
    /\ s \in Sockets /\ Young(s) /\ Parted(s) /\ Owned(s) /\ Placed(s)
    /\ \A p, q \in s.pending : p[2] = q[2] => p = q
    /\ \A p \in s.pending : p[2] \in DOMAIN asked
    /\ r \in DOMAIN asked /\ s.answers[r] = 0 /\ ~Queued(s, r) /\ ~Waits(s, r)
    /\ \A q \in Ids \ {r} :
        /\ s.answers[q] \in {0, 1}
        /\ q \in DOMAIN asked /\ s.answers[q] = 0 => Queued(s, q) \/ Waits(s, q)
        /\ s.answers[q] = 1 => q \in DOMAIN asked /\ ~Queued(s, q)
        /\ Waits(s, q) => s.answers[q] = 0 /\ ~Queued(s, q)

(* A call refused, or answered with no word to the server.                 *)
LEMMA AnswerSettles ==
    ASSUME NEW s, CallsMade, NEW r, Holding(s, r), NEW how
    PROVE  Sound(Answer(s, r, how)) /\ Onward(s, Answer(s, r, how))
           /\ Alike(s, Answer(s, r, how), {"answers", "mine"})
<1> DEFINE u == Answer(s, r, how)
<1>1. s \in Sockets /\ r \in DOMAIN asked /\ r \in Ids
    BY AskedIds DEF Holding
<1>2. /\ u \in Sockets /\ Alike(s, u, {"answers", "mine"})
      /\ u.answers = [s.answers EXCEPT ![r] = @ + 1]
    BY <1>1, AnswerIs, Zenon
<1> HIDE DEF u
<1>3. Young(u) /\ Parted(u)
    BY <1>2 DEF Young, Parted, Alike, Fields, Holding
<1>4. Owned(u)
    BY <1>2 DEF Owned, Its, Alike, Fields, Holding
<1>5. Placed(u) /\ Onward(s, u)
    BY <1>2 DEF Placed, Ready, Alike, Fields, Holding, Onward
<1>6. Accounted(u)
    <2>1. u.pending = s.pending /\ u.read = s.read
        BY <1>2 DEF Alike, Fields
    <2>2. s.answers \in [Ids -> Nat]
        BY <1>1 DEF Sockets
    <2>3. u.answers[r] = 1 /\ \A q \in Ids \ {r} : u.answers[q] = s.answers[q]
        BY <1>1, <1>2, <2>2 DEF Holding
    <2>4. \A q : (Queued(u, q) <=> Queued(s, q)) /\ (Waits(u, q) <=> Waits(s, q))
        BY <2>1 DEF Queued, Waits
    <2>5. ASSUME NEW q \in Ids
          PROVE  /\ u.answers[q] \in {0, 1}
                 /\ q \in DOMAIN asked /\ u.answers[q] = 0 => Queued(u, q) \/ Waits(u, q)
                 /\ u.answers[q] = 1 => q \in DOMAIN asked /\ ~Queued(u, q)
                 /\ Waits(u, q) => u.answers[q] = 0 /\ ~Queued(u, q)
        BY <1>1, <2>3, <2>4 DEF Holding
    <2> QED
        BY <2>1, <2>5 DEF Accounted, Holding
<1> QED
    BY <1>2, <1>3, <1>4, <1>5, <1>6 DEF Sound, u

LEMMA RefuseSettles ==
    ASSUME NEW s, CallsMade, NEW c, Holding(s, c.request), s.phase = "live", NEW how
    PROVE  Sound(Refuse(s, c, how)) /\ Onward(s, Refuse(s, c, how))
           /\ Alike(s, Refuse(s, c, how), {"answers", "mine", "link"})
<1> DEFINE n == s.link.nextRef + 1
           link == [s.link EXCEPT !.nextRef = n]
           v == [s EXCEPT !.link = link]
           r == c.request
<1>1. s \in Sockets /\ Holding(s, r)
    BY DEF Holding
<1>2. /\ link \in Connections /\ link.nextRef = s.link.nextRef + 1 /\ link.joined = s.link.joined
      /\ link.opened = s.link.opened /\ link.joinRef = s.link.joinRef /\ link.back = s.link.back
    <2>1. s.link \in Connections
        BY <1>1 DEF Sockets
    <2>2. n \in Nat \ {0}
        BY <2>1 DEF Connections
    <2>3. link.nextRef = s.link.nextRef + 1
        BY <2>1 DEF Connections
    <2> HIDE DEF n
    <2> QED
        BY <2>1, <2>2, <2>3 DEF Connections
<1>3. v = [s EXCEPT !.link.nextRef = @ + 1]
    BY <1>1 DEF Sockets, Connections
<1> HIDE DEF link
<1>4. v \in Sockets /\ Alike(s, v, {"link"}) /\ v.link = link
    <2>1. v \in Sockets
        BY <1>1, <1>2, SocketsAre DEF Typed
    <2>2. Alike(s, v, {"link"}) /\ v.link = link
        BY <1>1 DEF Sockets, Alike, Fields
    <2> QED
        BY <2>1, <2>2
<1>5. Refuse(s, c, how) = Answer(v, r, how)
    BY <1>3 DEF Refuse
<1> HIDE DEF v, r
<1>6. Holding(v, r)
    <2>1. v.pending = s.pending /\ v.read = s.read /\ v.answers = s.answers
          /\ v.phase = s.phase /\ v.sent = s.sent /\ v.amiss = s.amiss
        BY <1>4 DEF Alike, Fields
    <2>2. \A q : (Queued(v, q) <=> Queued(s, q)) /\ (Waits(v, q) <=> Waits(s, q))
        BY <2>1 DEF Queued, Waits
    <2>3. Young(v) /\ Parted(v)
        BY <1>1, <1>2, <1>4 DEF Young, Parted, Alike, Fields, Holding
    <2>4. Placed(v)
        BY <1>1, <1>2, <1>4 DEF Placed, Ready, Alike, Fields, Holding
    <2>5. Owned(v)
        <3>1. s.link.nextRef \in Nat
            BY <1>1 DEF Sockets, Connections
        <3>2. \A ref, request : Its(s, ref, request) => Its(v, ref, request)
            BY <1>2, <1>4, <2>1, <3>1 DEF Its
        <3>3. \A p \in v.pending : p[1] \in 1 .. v.link.nextRef - 1
            BY <1>1, <1>2, <1>4, <2>1, <3>1 DEF Owned, Holding
        <3> QED
            BY <1>1, <2>1, <3>2, <3>3, OwnedStill DEF Owned, Holding
    <2> QED
        BY <1>1, <1>4, <2>1, <2>2, <2>3, <2>4, <2>5 DEF Holding
<1> DEFINE u == Answer(v, r, how)
<1>7. Sound(u) /\ Onward(v, u) /\ Alike(v, u, {"answers", "mine"})
    BY <1>6, AnswerSettles
<1> HIDE DEF u
<1>8. Onward(s, u) /\ Alike(s, u, {"answers", "mine", "link"})
    BY <1>2, <1>4, <1>7 DEF Onward, Alike, Fields
<1> QED
    BY <1>5, <1>7, <1>8 DEF u

LEMMA HoldingEased ==
    ASSUME NEW s, NEW r, Holding(s, r), NEW u \in Sockets, Young(u), Parted(u),
           Alike(s, u, {"topics", "lost", "due", "rejoining", "gone", "joining", "mine", "link",
                        "renewed", "left", "shut"}),
           u.link.joined = s.link.joined, u.link.back = s.link.back,
           u.link.nextRef = s.link.nextRef, u.link.opened = s.link.opened
    PROVE  Holding(u, r) /\ Onward(s, u)
<1>1. /\ u.phase = s.phase /\ u.once = s.once /\ u.tries = s.tries /\ u.pending = s.pending
      /\ u.sent = s.sent /\ u.read = s.read /\ u.amiss = s.amiss /\ u.answers = s.answers
      /\ u.life = s.life
    BY DEF Alike, Fields
<1>2. Owned(u)
    BY <1>1 DEF Owned, Its, Holding
<1>3. Placed(u)
    BY <1>1 DEF Placed, Ready, Holding
<1>4. \A q : (Queued(u, q) <=> Queued(s, q)) /\ (Waits(u, q) <=> Waits(s, q))
    BY <1>1 DEF Queued, Waits
<1> QED
    BY <1>1, <1>2, <1>3, <1>4 DEF Holding, Onward

(* A call on its way, or listed for the end of the connection to answer.   *)
LEMMA PostSettles ==
    ASSUME NEW s, CallsMade, NEW r, Holding(s, r), s.phase = "live", s.link.joined,
           NEW kind \in {"join", "push", "leave"}, NEW t \in Channels
    PROVE  Sound(Post(s, kind, t, r)) /\ Onward(s, Post(s, kind, t, r))
<1> DEFINE u == Post(s, kind, t, r)
           n == s.link.nextRef
           m == n + 1
           link == [s.link EXCEPT !.nextRef = m]
           pending == s.pending \union {<<n, r>>}
           frame == [ref |-> n, kind |-> kind, topic |-> t, request |-> r]
           sent == IF s.takes THEN Append(s.sent, frame) ELSE s.sent
           next == IF s.takes THEN s.next ELSE "drop"
<1>1. /\ s \in Sockets /\ r \in DOMAIN asked /\ r \in Ids /\ Owned(s) /\ Young(s) /\ Parted(s)
      /\ Placed(s)
    BY AskedIds DEF Holding
<1>2. /\ n \in Nat \ {0} /\ m = n + 1 /\ m \in Nat \ {0} /\ s.link \in Connections
    BY <1>1 DEF Sockets, Connections
<1>3. u = [s EXCEPT !.link = link, !.pending = pending, !.sent = sent, !.next = next]
    <2>1. CASE s.takes
        BY <1>1, <2>1 DEF Post, Sends, Send, Sockets, Connections
    <2>2. CASE ~s.takes
        BY <1>1, <2>2 DEF Post, Sends, Send, Sockets, Connections
    <2> QED
        BY <2>1, <2>2
<1> HIDE DEF n, m
<1>4. /\ link \in Connections /\ link.nextRef = m /\ link.opened = s.link.opened
      /\ link.joined = s.link.joined /\ link.joinRef = s.link.joinRef /\ link.back = s.link.back
    BY <1>2 DEF Connections
<1>5. pending \in SUBSET (Nat \X Ids)
    BY <1>1, <1>2 DEF Sockets
<1>6. frame \in Frames
    BY <1>1, <1>2 DEF Frames, Ids
<1>7. /\ sent \in Seq(Frames)
      /\ \A i \in DOMAIN sent : (i \in DOMAIN s.sent /\ sent[i] = s.sent[i]) \/ sent[i] = frame
    <2>1. s.sent \in Seq(Frames)
        BY <1>1 DEF Sockets
    <2> HIDE DEF frame
    <2> QED
        BY <1>6, <2>1
<1>8. frame.ref = n /\ frame.request = r
    OBVIOUS
<1>9. next \in {"stay", "drop", "refused", "closed"} /\ next \in {s.next, "drop"}
    BY <1>1 DEF Sockets
<1>10. \A p : p \in pending <=> p \in s.pending \/ p = <<n, r>>
    OBVIOUS
<1> HIDE DEF u, link, pending, frame, sent, next
<1>11. u \in Sockets
    BY <1>1, <1>3, <1>4, <1>5, <1>7, <1>9, SocketsAre DEF Typed, Pendings, Sendings, Nexts
<1>12. /\ Alike(s, u, {"link", "pending", "sent", "next"}) /\ u.link = link
       /\ u.pending = pending /\ u.sent = sent /\ u.next = next
    BY <1>1, <1>3 DEF Sockets, Alike, Fields
<1>13. Young(u)
    <2>1. s.link.opened
        BY <1>1 DEF Young
    <2> QED
        BY <1>1, <1>4, <1>9, <1>12, <2>1 DEF Young, Alike, Fields
<1>14. Parted(u)
    BY <1>1, <1>12 DEF Parted, Alike, Fields
<1>15. Placed(u)
    BY <1>1, <1>4, <1>12 DEF Placed, Ready, Alike, Fields
<1>16. \A p \in s.pending : p[1] \in 1 .. n - 1
    BY <1>1 DEF Owned, n
<1>17. Owned(u)
    <2>1. u.phase = "live" /\ "crossed" \notin u.amiss
        BY <1>1, <1>12 DEF Alike, Fields, Owned
    <2>2. \A p \in u.pending : p[1] \in 1 .. u.link.nextRef - 1
        BY <1>2, <1>4, <1>10, <1>12, <1>16
    <2>3. \A p, q \in u.pending : p[1] = q[1] => p = q
        <3>1. \A p, q \in s.pending : p[1] = q[1] => p = q
            BY <1>1 DEF Owned
        <3>2. \A p \in s.pending : p[1] # n
            BY <1>2, <1>16
        <3> QED
            BY <1>10, <1>12, <3>1, <3>2
    <2>4. ASSUME NEW ref, NEW request, Its(s, ref, request)
          PROVE  Its(u, ref, request)
        <3>1. ref \in 0 .. n - 1 /\ \A p \in s.pending : p[1] = ref => p[2] = request
            BY <2>4 DEF Its, n
        <3>2. ref \in 0 .. u.link.nextRef - 1 /\ ref # n
            BY <1>2, <1>4, <1>12, <3>1
        <3>3. \A p \in u.pending : p[1] = ref => p[2] = request
            BY <1>10, <1>12, <3>1, <3>2
        <3> QED
            BY <3>2, <3>3 DEF Its
    <2>5. Its(u, n, r) /\ n # NoRef
        <3>1. n \in 0 .. u.link.nextRef - 1 /\ n # 0
            BY <1>2, <1>4, <1>12
        <3>2. \A p \in s.pending : p[1] # n
            BY <1>2, <1>16
        <3>3. \A p \in u.pending : p[1] = n => p[2] = r
            BY <1>10, <1>12, <3>2
        <3> QED
            BY <3>1, <3>3 DEF Its, NoRef
    <2>6. ASSUME NEW i \in DOMAIN u.sent
          PROVE  /\ Its(u, u.sent[i].ref, u.sent[i].request)
                 /\ u.sent[i].kind # "beat" => u.sent[i].ref # NoRef
        <3>1. CASE u.sent[i] = frame
            BY <1>8, <2>5, <3>1
        <3>2. CASE i \in DOMAIN s.sent /\ u.sent[i] = s.sent[i]
            <4>1. /\ Its(s, s.sent[i].ref, s.sent[i].request)
                  /\ s.sent[i].kind # "beat" => s.sent[i].ref # NoRef
                BY <1>1, <3>2 DEF Owned
            <4> QED
                BY <2>4, <3>2, <4>1
        <3> QED
            BY <1>7, <1>12, <3>1, <3>2
    <2> QED
        BY <1>1, <1>12, <2>1, <2>2, <2>3, <2>4, <2>6, OwnedStill
<1>18. Accounted(u)
    <2>1. u.read = s.read /\ u.answers = s.answers
        BY <1>12 DEF Alike, Fields
    <2>2. \A p \in s.pending : p[2] # r
        BY DEF Holding, Waits
    <2>3. \A p, q \in u.pending : p[2] = q[2] => p = q
        BY <1>10, <1>12, <2>2 DEF Holding
    <2>4. \A p \in u.pending : p[2] \in DOMAIN asked
        BY <1>1, <1>10, <1>12 DEF Holding
    <2>5. \A q : Queued(u, q) <=> Queued(s, q)
        BY <2>1 DEF Queued
    <2>6. Waits(u, r) /\ \A q : q # r => (Waits(u, q) <=> Waits(s, q))
        <3> DEFINE new == <<n, r>>
        <3>1. new[2] = r /\ \A p : p \in u.pending <=> p \in s.pending \/ p = new
            BY <1>10, <1>12
        <3> HIDE DEF new
        <3>2. Waits(u, r)
            BY <3>1 DEF Waits
        <3>3. \A q : q # r => (Waits(u, q) <=> Waits(s, q))
            BY <3>1 DEF Waits
        <3> QED
            BY <3>2, <3>3
    <2>7. ASSUME NEW q \in Ids
          PROVE  /\ u.answers[q] \in {0, 1}
                 /\ q \in DOMAIN asked /\ u.answers[q] = 0 => Queued(u, q) \/ Waits(u, q)
                 /\ u.answers[q] = 1 => q \in DOMAIN asked /\ ~Queued(u, q)
                 /\ Waits(u, q) => u.answers[q] = 0 /\ ~Queued(u, q)
        BY <2>1, <2>5, <2>6 DEF Holding
    <2> QED
        BY <2>3, <2>4, <2>7 DEF Accounted
<1>19. Onward(s, u)
    BY <1>4, <1>12 DEF Onward, Alike, Fields
<1> QED
    BY <1>11, <1>13, <1>14, <1>15, <1>17, <1>18, <1>19 DEF Sound, u

LEMMA RunJoinSettles ==
    ASSUME NEW s, CallsMade, NEW c, Holding(s, c.request), s.phase = "live", s.link.joined,
           c.topic \in Topics
    PROVE  Sound(RunJoin(s, c)) /\ Onward(s, RunJoin(s, c))
<1> DEFINE r == c.request
           t == c.topic
           one == {t}
           joining == s.joining \union {<<s.link.nextRef, t>>}
           topics == s.topics \union one
           joins == s.link.joins \union one
           link == [s.link EXCEPT !.joins = joins]
           gone == s.gone \ one
           left == s.left \ one
           shut == s.shut \ one
           j == [s EXCEPT !.joining = joining, !.topics = topics, !.link = link, !.gone = gone,
                          !.left = left, !.shut = shut]
<1>1. s \in Sockets /\ Young(s) /\ Parted(s) /\ Holding(s, r) /\ s.link \in Connections
    BY DEF Holding, Sockets
<1>2. /\ joining \in SUBSET (Nat \X Topics) /\ topics \in SUBSET Topics /\ joins \in SUBSET Channels
      /\ gone \in SUBSET Channels /\ left \in SUBSET Topics
      /\ shut \in SUBSET Channels
    <2>1. s.link.nextRef \in Nat /\ t \in Channels
        BY <1>1 DEF Connections, Channels
    <2> QED
        BY <1>1, <2>1 DEF Sockets, Connections
<1>3. IsFiniteSet(topics)
    BY <1>1, FS_Union, FS_Singleton DEF Young
<1>4. RunJoin(s, c) = Post(j, "join", t, r)
    BY <1>1 DEF RunJoin, Sockets, Connections
<1>5. left \intersect topics = {} /\ left \subseteq s.left
    BY <1>1 DEF Parted
<1> HIDE DEF joining, topics, joins, gone, left, shut
<1>6. /\ link \in Connections /\ link.opened = s.link.opened /\ link.joined = s.link.joined
      /\ link.joinRef = s.link.joinRef /\ link.back = s.link.back /\ link.nextRef = s.link.nextRef
    BY <1>1, <1>2 DEF Connections
<1> HIDE DEF link
<1>7. j \in Sockets
    BY <1>1, <1>2, <1>6, SocketsAre DEF Typed, Joinings, TopicSets, ChannelSets
<1>8. /\ Alike(s, j, {"joining", "topics", "link", "gone", "left", "shut"})
      /\ j.topics = topics /\ j.link = link /\ j.left = left
    BY <1>1 DEF Sockets, Alike, Fields
<1> HIDE DEF j, r, t
<1>9. Young(j)
    BY <1>1, <1>3, <1>6, <1>8 DEF Young, Alike, Fields
<1>10. Parted(j)
    BY <1>1, <1>5, <1>8 DEF Parted, Alike, Fields
<1>11. Holding(j, r) /\ Onward(s, j)
    BY <1>1, <1>6, <1>7, <1>8, <1>9, <1>10, HoldingEased DEF Alike, Fields
<1>12. j.phase = "live" /\ j.link.joined /\ t \in Channels
    BY <1>6, <1>8 DEF Alike, Fields, Channels, t
<1>13. Sound(Post(j, "join", t, r)) /\ Onward(j, Post(j, "join", t, r))
    BY <1>11, <1>12, PostSettles
<1> QED
    BY <1>4, <1>11, <1>13 DEF Onward

LEMMA RunPushSettles ==
    ASSUME NEW s, CallsMade, NEW c, Holding(s, c.request), s.phase = "live", s.link.joined,
           c.topic \in Channels
    PROVE  Sound(RunPush(s, c)) /\ Onward(s, RunPush(s, c))
<1>1. CASE c.topic \in s.link.joins
    BY <1>1, PostSettles DEF RunPush
<1>2. CASE c.topic \notin s.link.joins
    BY <1>2, RefuseSettles DEF RunPush
<1> QED
    BY <1>1, <1>2

LEMMA RunLeaveSettles ==
    ASSUME NEW s, CallsMade, NEW c, Holding(s, c.request), s.phase = "live", s.link.joined,
           c.topic \in Topics
    PROVE  Sound(RunLeave(s, c)) /\ Onward(s, RunLeave(s, c))
<1> DEFINE r == c.request
           t == c.topic
           topics == s.topics \ {t}
           rejoining == {x \in s.rejoining : x.topic # t}
           due == {d \in s.due : d.topic # t}
           joins == s.link.joins \ {t}
           left == s.left \union {t}
           link == [s.link EXCEPT !.joins = joins]
           l == [s EXCEPT !.topics = topics, !.rejoining = rejoining, !.due = due, !.link = link,
                          !.left = left]
           how == IF \E d \in s.due : d.topic = t THEN "ok" ELSE "failed"
<1>1. s \in Sockets /\ Young(s) /\ Parted(s) /\ Holding(s, r) /\ s.link \in Connections
    BY DEF Holding, Sockets
<1>2. /\ topics \in SUBSET Topics /\ topics \subseteq s.topics /\ t \notin topics
      /\ rejoining \in SUBSET [ref : Nat, topic : Channels, attempt : Nat]
      /\ rejoining \subseteq s.rejoining /\ \A x \in rejoining : x.topic # t
      /\ due \in SUBSET [topic : Channels, attempt : Nat]
      /\ due \subseteq s.due /\ \A x \in due : x.topic # t
      /\ joins \in SUBSET Channels
      /\ left \in SUBSET Topics /\ \A x \in left : x \in s.left \/ x = t
    BY <1>1 DEF Sockets, Connections
<1>3. RunLeave(s, c) = IF t \in s.link.joins THEN Post(l, "leave", t, r) ELSE Refuse(l, c, how)
    BY <1>1 DEF RunLeave, Sockets, Connections
<1> HIDE DEF topics, rejoining, due, joins, left, how
<1>4. IsFiniteSet(topics) /\ IsFiniteSet(due)
    BY <1>1, <1>2, FS_Subset DEF Young
<1>5. /\ link \in Connections /\ link.opened = s.link.opened /\ link.joined = s.link.joined
      /\ link.joinRef = s.link.joinRef /\ link.back = s.link.back /\ link.nextRef = s.link.nextRef
    BY <1>1, <1>2 DEF Connections
<1> HIDE DEF link
<1>6. l \in Sockets
    BY <1>1, <1>2, <1>5, SocketsAre DEF Typed, TopicSets, Rejoinings, Dues
<1>7. /\ Alike(s, l, {"topics", "rejoining", "due", "link", "left"})
      /\ l.topics = topics /\ l.link = link /\ l.left = left /\ l.due = due
      /\ l.rejoining = rejoining
    BY <1>1 DEF Sockets, Alike, Fields
<1> HIDE DEF l
<1>8. Young(l)
    BY <1>1, <1>2, <1>4, <1>5, <1>7 DEF Young, Alike, Fields
<1>9. Parted(l)
    BY <1>1, <1>2, <1>7 DEF Parted, Alike, Fields
<1>10. Holding(l, r) /\ Onward(s, l)
    <2> HIDE DEF r, t
    <2> QED
        BY <1>1, <1>5, <1>6, <1>7, <1>8, <1>9, HoldingEased DEF Alike, Fields
<1>11. l.phase = "live" /\ l.link.joined /\ t \in Channels
    BY <1>5, <1>7 DEF Alike, Fields, Channels
<1>12. Sound(Post(l, "leave", t, r)) /\ Onward(l, Post(l, "leave", t, r))
    <2> HIDE DEF r, t
    <2> QED
        BY <1>10, <1>11, PostSettles
<1>13. Sound(Refuse(l, c, how)) /\ Onward(l, Refuse(l, c, how))
    BY <1>10, <1>11, RefuseSettles
<1> QED
    BY <1>3, <1>10, <1>12, <1>13 DEF Onward

(* A command read.                                                         *)
LEMMA ReadIs ==
    ASSUME NEW s, Sound(s), CallsMade, NEW i \in DOMAIN commands, s.read = i - 1
    PROVE  LET r == [s EXCEPT !.read = @ + 1]
               c == commands[i]
           IN  /\ r \in Sockets /\ Alike(s, r, {"read"}) /\ r.read = i
               /\ Young(r) /\ Parted(r) /\ Owned(r) /\ Placed(r)
               /\ c.kind \in {"close", "interrupt"} => Accounted(r)
               /\ c.kind \in {"join", "push", "leave"} => Holding(r, c.request)
<1> DEFINE r == [s EXCEPT !.read = @ + 1]
           c == commands[i]
           n == s.read + 1
<1>1. /\ s \in Sockets /\ Young(s) /\ Parted(s) /\ Owned(s) /\ Accounted(s) /\ Placed(s)
      /\ s.read \in Nat
    BY DEF Sound, Sockets
<1>2. commands \in Seq(Requests) /\ DOMAIN commands = 1 .. Len(commands) /\ Len(commands) \in Nat
    BY DEF CallsMade
<1>3. n \in Nat /\ n = i
    BY <1>1, <1>2
<1>4. r = [s EXCEPT !.read = n]
    BY <1>1 DEF Sockets
<1> HIDE DEF n, r
<1>5. r \in Sockets /\ Alike(s, r, {"read"}) /\ r.read = i
    BY <1>1, <1>3, <1>4, SocketsAre DEF Typed, Alike, Fields
<1>6. Young(r) /\ Parted(r)
    BY <1>1, <1>2, <1>5 DEF Young, Parted, Alike, Fields
<1>7. Owned(r) /\ Placed(r)
    BY <1>1, <1>5 DEF Owned, Its, Placed, Ready, Alike, Fields
<1>8. r.pending = s.pending /\ r.answers = s.answers
    BY <1>5 DEF Alike, Fields
<1>9. ASSUME NEW q
      PROVE  /\ Waits(r, q) <=> Waits(s, q)
             /\ Queued(r, q) => Queued(s, q)
             /\ Queued(s, q) => Queued(r, q) \/ c.request = q
    <2>1. \A k \in DOMAIN commands : k > s.read <=> k > i \/ k = i
        BY <1>1, <1>2
    <2> QED
        BY <1>5, <1>8, <2>1 DEF Waits, Queued
<1>10. CASE c.kind \in {"close", "interrupt"}
    <2>1. c.request = 0
        BY <1>10 DEF CallsMade
    <2>2. \A q \in Ids : Queued(r, q) <=> Queued(s, q)
        BY <1>9, <2>1 DEF Ids
    <2>3. Accounted(r)
        BY <1>1, <1>8, <1>9, <2>2 DEF Accounted
    <2> QED
        BY <1>5, <1>6, <1>7, <1>10, <2>3 DEF r
<1>11. CASE c.kind \in {"join", "push", "leave"}
    <2>1. c.request \in DOMAIN asked /\ c.request \in Ids /\ c.request # 0
        <3>1. c.request \in DOMAIN asked
            BY <1>11 DEF CallsMade
        <3> QED
            BY <3>1, AskedIds DEF Ids
    <2>2. Queued(s, c.request) /\ ~Queued(r, c.request)
        <3>1. Queued(s, c.request)
            BY <1>1, <1>2 DEF Queued
        <3>2. \A k \in DOMAIN commands : k > r.read => commands[k].request # c.request
            <4>1. \A k \in DOMAIN commands : commands[k].request = c.request => k = i
                BY <2>1 DEF CallsMade
            <4> QED
                BY <1>2, <1>5, <4>1
        <3> QED
            BY <3>1, <3>2 DEF Queued
    <2>3. s.answers[c.request] = 0 /\ ~Waits(r, c.request)
        BY <1>1, <1>9, <2>1, <2>2 DEF Accounted
    <2>4. \A q \in Ids \ {c.request} : Queued(r, q) <=> Queued(s, q)
        BY <1>9
    <2>5. /\ \A p, q \in r.pending : p[2] = q[2] => p = q
          /\ \A p \in r.pending : p[2] \in DOMAIN asked
        BY <1>1, <1>8 DEF Accounted
    <2>6. ASSUME NEW q \in Ids \ {c.request}
          PROVE  /\ r.answers[q] \in {0, 1}
                 /\ q \in DOMAIN asked /\ r.answers[q] = 0 => Queued(r, q) \/ Waits(r, q)
                 /\ r.answers[q] = 1 => q \in DOMAIN asked /\ ~Queued(r, q)
                 /\ Waits(r, q) => r.answers[q] = 0 /\ ~Queued(r, q)
        BY <1>1, <1>8, <1>9, <2>4 DEF Accounted
    <2>7. Holding(r, c.request)
        BY <1>5, <1>6, <1>7, <1>8, <2>1, <2>2, <2>3, <2>5, <2>6 DEF Holding
    <2> QED
        BY <1>5, <1>6, <1>7, <1>11, <2>7 DEF r
<1>12. c \in Requests
    BY <1>2
<1> QED
    BY <1>10, <1>11, <1>12 DEF Requests

(* Where a socket can be as it runs what the game asked.                   *)
Running(s) ==
    {x \in Sockets : /\ Sound(x) /\ x.phase = "live"
                     /\ x.link.opened = s.link.opened /\ x.link.joined}

LEMMA RunIsSound ==
    ASSUME NEW w, NEW s \in Running(w), CallsMade, NEW i \in DOMAIN commands,
           s.next = "stay" => s.read = i - 1
    PROVE  LET u == Run(s, commands[i])
           IN  u \in Running(w) /\ (u.next = "stay" => u.read = i)
<1> DEFINE c == commands[i]
           u == Run(s, c)
           r == [s EXCEPT !.read = @ + 1]
<1>1. /\ Sound(s) /\ s.phase = "live" /\ s.link.joined /\ s.link.opened = w.link.opened
      /\ c \in Requests
    BY DEF Running, CallsMade
<1>2. CASE s.next # "stay"
    BY <1>1, <1>2 DEF Run
<1>3. CASE s.next = "stay"
    <2>1. /\ r \in Sockets /\ Alike(s, r, {"read"}) /\ r.read = i
          /\ Young(r) /\ Parted(r) /\ Owned(r) /\ Placed(r)
          /\ c.kind \in {"close", "interrupt"} => Accounted(r)
          /\ c.kind \in {"join", "push", "leave"} => Holding(r, c.request)
        BY <1>1, <1>3, ReadIs
    <2>2. r.phase = "live" /\ r.link = s.link
        BY <1>1, <2>1 DEF Alike, Fields
    <2>3. u = CASE c.kind = "join" -> RunJoin(r, c)
                [] c.kind = "push" -> RunPush(r, c)
                [] c.kind = "leave" -> RunLeave(r, c)
                [] c.kind = "close" -> [r EXCEPT !.next = "closed"]
                [] c.kind = "interrupt" -> [r EXCEPT !.next = "drop"]
        BY <1>3 DEF Run
    <2> HIDE DEF r, u
    <2>4. c.kind \in {"join", "leave"} => c.topic \in Topics
        <3>1. c.kind \in {"join", "leave"} => /\ c.request \in DOMAIN asked
                                              /\ asked[c.request] = [kind |-> c.kind, topic |-> c.topic]
            BY DEF CallsMade
        <3>2. Calls \subseteq [kind : {"join", "push", "leave"}, topic : Topics]
                 \union [kind : {"push"}, topic : {User}]
            BY RtConstants
        <3>3. c.request \in DOMAIN asked => asked[c.request] \in Calls
            BY DEF CallsMade
        <3> HIDE DEF c
        <3> QED
            BY <3>1, <3>2, <3>3
    <2>5. c.topic \in Channels
        BY <1>1 DEF Requests
    <2>6. Sound(u) /\ Onward(r, u)
        <3>0. c.kind \in {"join", "push", "leave", "close", "interrupt"}
            BY <1>1 DEF Requests
        <3> HIDE DEF c
        <3>1. CASE c.kind = "join"
            BY <1>1, <2>1, <2>2, <2>3, <2>4, <3>1, RunJoinSettles
        <3>2. CASE c.kind = "push"
            BY <1>1, <2>1, <2>2, <2>3, <2>5, <3>2, RunPushSettles
        <3>3. CASE c.kind = "leave"
            BY <1>1, <2>1, <2>2, <2>3, <2>4, <3>3, RunLeaveSettles
        <3>4. CASE c.kind = "close"
            BY <2>1, <2>3, <3>4, StoppingIsSound DEF Sound
        <3>5. CASE c.kind = "interrupt"
            BY <2>1, <2>3, <3>5, StoppingIsSound DEF Sound
        <3> QED
            BY <3>0, <3>1, <3>2, <3>3, <3>4, <3>5
    <2> QED
        BY <1>1, <2>1, <2>2, <2>6 DEF Onward, Running, Sound, u
<1> QED
    BY <1>2, <1>3

LEMMA RunningSteps ==
    ASSUME NEW s, NEW x \in Running(s), NEW n \in Nat,
           NEW G \in [1 .. n -> [Running(s) -> Running(s)]]
    PROVE  \E f \in [0 .. n -> Running(s)] : f[0] = x /\ \A i \in 1 .. n : f[i] = G[i][f[i - 1]]
BY StepsExist

(* All the commands, run one at a time.                                    *)
LEMMA RunSteps ==
    ASSUME NEW s, Sound(s), s.phase = "live", CallsMade, s.read = 0, Going(s)
    PROVE  \E f : /\ f[0] = s /\ RunAll(s) = f[Len(commands)]
                  /\ \A i \in 0 .. Len(commands) :
                        f[i] \in Running(s) /\ (f[i].next = "stay" => f[i].read = i)
                  /\ \A i \in 1 .. Len(commands) : f[i] = Run(f[i - 1], commands[i])
<1> DEFINE n == Len(commands)
           S == Running(s)
           Turn(x, i) == IF x.next = "stay" => x.read = i - 1 THEN Run(x, commands[i]) ELSE x
           F(f) == f = [i \in 0 .. n |-> IF i = 0 THEN s ELSE Run(f[i - 1], commands[i])]
           ran == CHOOSE f : F(f)
<1>1. n \in Nat /\ DOMAIN commands = 1 .. n
    BY DEF CallsMade
<1>2. s \in S
    BY DEF Sound, Going, Running
<1>3. \A i \in 1 .. n : i \in 0 .. n /\ i - 1 \in 0 .. n /\ i # 0
    BY <1>1
<1>4. \A i \in 0 .. n : i = 0 \/ i \in 1 .. n
    BY <1>1
<1>5. RunAll(s) = ran[n]
    BY DEF RunAll, n
<1> HIDE DEF n
<1>6. ASSUME NEW i \in 1 .. n, NEW x \in S, x.next = "stay" => x.read = i - 1
      PROVE  /\ Run(x, commands[i]) \in S
             /\ Run(x, commands[i]).next = "stay" => Run(x, commands[i]).read = i
    BY <1>1, <1>6, RunIsSound
<1>7. ASSUME NEW i \in 1 .. n, NEW x \in S
      PROVE  Turn(x, i) \in S
    BY <1>6
<1>8. PICK G \in [1 .. n -> [S -> S]] : \A i \in 1 .. n : \A x \in S : G[i][x] = Turn(x, i)
    <2> DEFINE G == [i \in 1 .. n |-> [x \in S |-> Turn(x, i)]]
    <2> HIDE DEF S, Turn
    <2>1. G \in [1 .. n -> [S -> S]]
        BY <1>7
    <2>2. \A i \in 1 .. n : \A x \in S : G[i][x] = Turn(x, i)
        OBVIOUS
    <2> HIDE DEF G
    <2> QED
        BY <2>1, <2>2
<1>9. PICK f \in [0 .. n -> S] : f[0] = s /\ \A i \in 1 .. n : f[i] = G[i][f[i - 1]]
    <2>1. n \in Nat /\ s \in Running(s) /\ G \in [1 .. n -> [Running(s) -> Running(s)]]
        BY <1>1, <1>2, <1>8
    <2> HIDE DEF n, F, Turn
    <2> QED
        BY <2>1, RunningSteps
<1> HIDE DEF S
<1> DEFINE Kept(g, i) == g[i] \in S /\ (g[i].next = "stay" => g[i].read = i)
           P == {i \in 0 .. n : Kept(f, i)}
<1>10. ASSUME NEW i \in 1 .. n, Kept(f, i - 1)
       PROVE  f[i] = Run(f[i - 1], commands[i]) /\ Kept(f, i)
    <2>1. i - 1 \in 0 .. n /\ f[i - 1] \in S /\ f[i] = Turn(f[i - 1], i)
        BY <1>3, <1>8, <1>9
    <2>2. f[i] = Run(f[i - 1], commands[i])
        BY <1>10, <2>1
    <2> QED
        BY <1>6, <1>10, <2>1, <2>2
<1>11. 0 .. n \subseteq P
    <2>1. 0 \in P
        BY <1>1, <1>2, <1>9
    <2>2. ASSUME NEW i \in 0 .. n - 1, i \in P PROVE i + 1 \in P
        <3>1. i + 1 \in 1 .. n /\ i + 1 \in 0 .. n /\ i + 1 - 1 = i
            BY <1>1
        <3>2. Kept(f, i + 1 - 1)
            BY <2>2, <3>1
        <3> HIDE DEF Kept
        <3>3. Kept(f, i + 1)
            BY <1>10, <3>1, <3>2
        <3> QED
            BY <3>1, <3>3
    <2> HIDE DEF P
    <2> QED
        BY <1>1, <2>1, <2>2, StepByStep
<1>12. \A i \in 1 .. n : f[i] = Run(f[i - 1], commands[i])
    <2>1. ASSUME NEW i \in 1 .. n PROVE Kept(f, i - 1)
        BY <1>3, <1>11
    <2> HIDE DEF Kept
    <2> QED
        BY <1>10, <2>1
<1>13. \A i \in 0 .. n : f[i] = IF i = 0 THEN s ELSE Run(f[i - 1], commands[i])
    BY <1>4, <1>9, <1>12
<1>14. F(f)
    BY <1>13
<1> HIDE DEF F
<1>15. F(ran)
    BY <1>14
<1>16. ran = [i \in 0 .. n |-> IF i = 0 THEN s ELSE Run(ran[i - 1], commands[i])]
    BY <1>15 DEF F
<1> HIDE DEF ran
<1>17. ran[0] = s /\ \A i \in 1 .. n : ran[i] = Run(ran[i - 1], commands[i])
    BY <1>1, <1>3, <1>16
<1> DEFINE Q == {i \in 0 .. n : Kept(ran, i)}
<1>18. 0 .. n \subseteq Q
    <2>1. 0 \in Q
        BY <1>1, <1>2, <1>17
    <2>2. ASSUME NEW i \in 0 .. n - 1, i \in Q PROVE i + 1 \in Q
        <3>1. i + 1 \in 1 .. n /\ i + 1 \in 0 .. n /\ i + 1 - 1 = i
            BY <1>1
        <3>2. ran[i + 1] = Run(ran[i], commands[i + 1])
            BY <1>17, <3>1
        <3>3. Kept(ran, i + 1)
            BY <1>6, <2>2, <3>1, <3>2
        <3> QED
            BY <3>1, <3>3
    <2> HIDE DEF Q
    <2> QED
        BY <1>1, <2>1, <2>2, StepByStep
<1>19. \A i \in 0 .. n : ran[i] \in S /\ (ran[i].next = "stay" => ran[i].read = i)
    BY <1>18
<1> QED
    BY <1>5, <1>17, <1>19 DEF S, n

LEMMA RunAllIsSound ==
    ASSUME NEW s, Sound(s), s.phase = "live", CallsMade, s.read = 0
    PROVE  LET u == RunAll(s)
           IN  Sound(u) /\ u.phase = "live" /\ u.link.opened = s.link.opened
<1>1. CASE ~Going(s)
    BY <1>1 DEF RunAll
<1>2. CASE Going(s)
    <2>1. PICK f : /\ RunAll(s) = f[Len(commands)]
                   /\ \A i \in 0 .. Len(commands) : f[i] \in Running(s)
        BY <1>2, RunSteps
    <2>2. Len(commands) \in 0 .. Len(commands)
        BY DEF CallsMade
    <2> QED
        BY <2>1, <2>2 DEF Running
<1> QED
    BY <1>1, <1>2

LEMMA CutOffIsSound ==
    ASSUME NEW s, Sound(s), \A i \in DOMAIN wire : wire[i].kind = "refused" => ~s.link.opened
    PROVE  Sound(CutOff(s)) /\ Onward(s, CutOff(s))
<1> DEFINE ends == {e.kind : e \in Received} \intersect {"refused", "closed"}
           where == IF "refused" \in ends THEN "refused" ELSE "drop"
<1>1. CASE s.next # "stay" \/ ends = {}
    BY <1>1 DEF CutOff, Onward
<1>2. CASE ~(s.next # "stay" \/ ends = {})
    <2>1. CutOff(s) = [s EXCEPT !.next = where]
        BY <1>2 DEF CutOff
    <2>2. where = "refused" => ~s.link.opened
        BY DEF Received
    <2>3. where \in {"stay", "drop", "refused", "closed"}
        OBVIOUS
    <2> HIDE DEF where, ends
    <2>4. LET u == [s EXCEPT !.next = where]
          IN  Sound(u) /\ Onward(s, u) /\ u.next = where /\ Alike(s, u, {"next"})
        BY <2>2, <2>3, StoppingIsSound, Zenon
    <2> QED
        BY <2>1, <2>4
<1> QED
    BY <1>1, <1>2

LEMMA RejoinDueIsSound ==
    ASSUME NEW s, Sound(s), s.phase = "live", NEW ready
    PROVE  Sound(RejoinDue(s, ready)) /\ Onward(s, RejoinDue(s, ready))
<1> DEFINE due == {d \in s.due : d.topic \in ready}
           list == SetToSeq(due)
           rest == s.due \ due
           taken == [s EXCEPT !.due = rest]
           topics == [i \in DOMAIN list |-> list[i].topic]
           a == JoinAll(taken, topics)
           more == {[ref |-> s.link.nextRef + i - 1, topic |-> list[i].topic,
                     attempt |-> list[i].attempt] : i \in DOMAIN list}
           rejoining == a.rejoining \union more
           u == [a EXCEPT !.rejoining = rejoining]
<1>1. /\ s \in Sockets /\ Young(s) /\ Parted(s) /\ Owned(s) /\ Accounted(s) /\ Placed(s)
      /\ s.link.nextRef \in Nat \ {0}
    BY DEF Sound, Sockets, Connections
<1>2. /\ IsFiniteSet(due) /\ due \subseteq s.due /\ rest \subseteq s.due /\ IsFiniteSet(rest)
      /\ rest \in SUBSET [topic : Channels, attempt : Nat]
    <2>1. due \subseteq s.due /\ rest \subseteq s.due
        OBVIOUS
    <2> HIDE DEF due, rest
    <2> QED
        BY <1>1, <2>1, FS_Subset DEF Young, Sockets
<1>3. taken = [s EXCEPT !.due = @ \ due]
    BY <1>1 DEF Sockets
<1>4. CASE ~Going(s) \/ due = {}
    BY <1>4 DEF RejoinDue, Onward
<1>5. CASE Going(s) /\ due # {}
    <2>1. RejoinDue(s, ready) = IF ~s.takes THEN [taken EXCEPT !.next = "drop"] ELSE u
        BY <1>3, <1>5 DEF RejoinDue, Sends
    <2> HIDE DEF due, rest
    <2>2. s.link.joined /\ s.link.opened
        BY <1>1, <1>5 DEF Going, Young
    <2>3. taken \in Sockets /\ Alike(s, taken, {"due"}) /\ taken.due = rest
        BY <1>1, <1>2, SocketsAre DEF Typed, Dues, Alike, Fields
    <2> HIDE DEF taken
    <2>4. Young(taken)
        BY <1>1, <1>2, <2>2, <2>3 DEF Young, Alike, Fields
    <2>5. Parted(taken)
        BY <1>1, <1>2, <2>3 DEF Parted, Alike, Fields
    <2>6. Sound(taken) /\ Onward(s, taken)
        BY <2>3, <2>4, <2>5, Eased DEF Alike, Fields
    <2>7. CASE ~s.takes
        <3>1. LET v == [taken EXCEPT !.next = "drop"] IN Sound(v) /\ Onward(taken, v)
            BY <2>6, StoppingIsSound
        <3> QED
            BY <2>1, <2>6, <2>7, <3>1 DEF Onward
    <2>8. CASE s.takes
        <3>1. list \in Seq(due)
            BY <1>2, InSomeOrder
        <3> HIDE DEF list
        <3>2. /\ Len(list) \in Nat /\ DOMAIN list = 1 .. Len(list)
              /\ \A i \in DOMAIN list : list[i] \in s.due
            BY <1>2, <3>1
        <3>3. \A i \in DOMAIN list : /\ list[i].topic \in Channels /\ list[i].attempt \in Nat
                                     /\ list[i].topic \notin s.left
            BY <1>1, <3>2 DEF Sockets, Parted
        <3>4. topics \in Seq(Channels) /\ \A x \in Range(topics) : x \notin s.left
            BY <3>2, <3>3 DEF Range
        <3>5. Range(topics) \intersect taken.left = {}
            BY <2>3, <3>4 DEF Alike, Fields
        <3>6. /\ more \in SUBSET [ref : Nat, topic : Channels, attempt : Nat]
              /\ \A x \in more : x.topic \notin s.left
            BY <1>1, <3>2, <3>3
        <3> HIDE DEF topics, more
        <3>7. /\ a \in Sockets /\ Owned(a) /\ Alike(taken, a, {"link", "sent"})
              /\ a.link.opened = taken.link.opened /\ a.link.joined = taken.link.joined
              /\ a.link.back = taken.link.back /\ a.link.joinRef = taken.link.joinRef
            BY <2>3, <2>6, <3>4, <3>5, JoinAllIsOwned, Zenon DEF Sound
        <3> HIDE DEF a
        <3>8. /\ rejoining \in SUBSET [ref : Nat, topic : Channels, attempt : Nat]
              /\ \A x \in rejoining : x \in s.rejoining \/ x \in more
            <4>1. a.rejoining = s.rejoining
                BY <2>3, <3>7 DEF Alike, Fields
            <4> QED
                BY <1>1, <3>6, <4>1 DEF Sockets
        <3> HIDE DEF rejoining
        <3>9. u \in Sockets /\ Alike(a, u, {"rejoining"}) /\ u.rejoining = rejoining
            BY <3>7, <3>8, SocketsAre DEF Typed, Rejoinings, Alike, Fields
        <3> HIDE DEF u
        <3>10. /\ Alike(taken, u, {"link", "sent", "rejoining"})
               /\ u.link.opened = taken.link.opened /\ u.link.joined = taken.link.joined
               /\ u.link.back = taken.link.back /\ u.link.joinRef = taken.link.joinRef
            BY <3>7, <3>9 DEF Alike, Fields
        <3>11. taken.link = s.link /\ taken.left = s.left /\ taken.phase = s.phase
            BY <2>3 DEF Alike, Fields
        <3>12. Young(u)
            BY <2>2, <2>4, <3>9, <3>10, <3>11 DEF Young, Alike, Fields
        <3>13. Parted(u)
            BY <1>1, <2>5, <3>6, <3>8, <3>9, <3>10, <3>11 DEF Parted, Alike, Fields
        <3>14. Owned(u)
            BY <3>7, <3>9 DEF Owned, Its, Alike, Fields
        <3>15. Accounted(u)
            BY <2>6, <3>10 DEF Accounted, Queued, Waits, Alike, Fields, Sound
        <3>16. Placed(u)
            BY <2>6, <3>10 DEF Placed, Ready, Alike, Fields, Sound
        <3>17. Onward(taken, u)
            BY <3>10 DEF Onward, Alike, Fields
        <3> QED
            BY <2>1, <2>6, <2>8, <3>9, <3>12, <3>13, <3>14, <3>15, <3>16, <3>17 DEF Onward, Sound
    <2> QED
        BY <2>7, <2>8
<1> QED
    BY <1>4, <1>5

LEMMA BeatDueIsSound ==
    ASSUME NEW s, Sound(s), s.phase = "live", NEW beat
    PROVE  Sound(BeatDue(s, beat)) /\ Onward(s, BeatDue(s, beat))
<1> DEFINE frame == [ref |-> NoRef, kind |-> "beat", topic |-> User, request |-> 0]
           yes == TRUE
           link == [s.link EXCEPT !.beat = yes]
           sent == Append(s.sent, frame)
           u == [s EXCEPT !.sent = sent, !.link = link]
<1>1. /\ s \in Sockets /\ Young(s) /\ Parted(s) /\ Owned(s) /\ Accounted(s) /\ Placed(s)
      /\ s.link \in Connections
    BY DEF Sound, Sockets
<1>2. CASE ~(Going(s) /\ beat)
    BY <1>2 DEF BeatDue, Onward
<1>3. CASE Going(s) /\ beat /\ (s.link.beat \/ ~s.takes)
    BY <1>3, StoppingIsSound DEF BeatDue, Heartbeat, Sends
<1>4. CASE Going(s) /\ beat /\ ~(s.link.beat \/ ~s.takes)
    <2>1. BeatDue(s, beat) = u
        BY <1>1, <1>4 DEF BeatDue, Heartbeat, Send, Sends, Sockets, Connections
    <2>2. frame \in Frames /\ frame.ref = 0 /\ frame.kind = "beat"
        BY DEF Frames, NoRef, Channels
    <2>3. yes \in BOOLEAN
        OBVIOUS
    <2> HIDE DEF frame, yes
    <2>4. /\ link \in Connections /\ link.opened = s.link.opened /\ link.joined = s.link.joined
          /\ link.joinRef = s.link.joinRef /\ link.back = s.link.back
          /\ link.nextRef = s.link.nextRef
        BY <1>1, <2>3 DEF Connections
    <2>5. /\ sent \in Seq(Frames)
          /\ \A i \in DOMAIN sent : (i \in DOMAIN s.sent /\ sent[i] = s.sent[i]) \/ sent[i] = frame
        <3>1. s.sent \in Seq(Frames)
            BY <1>1 DEF Sockets
        <3> QED
            BY <2>2, <3>1
    <2> HIDE DEF link, sent
    <2>6. u \in Sockets
        BY <1>1, <2>4, <2>5, SocketsAre DEF Typed, Sendings
    <2>7. Alike(s, u, {"sent", "link"}) /\ u.sent = sent /\ u.link = link
        BY <1>1 DEF Sockets, Alike, Fields
    <2> HIDE DEF u
    <2>8. Young(u) /\ Parted(u)
        BY <1>1, <2>4, <2>7 DEF Young, Parted, Alike, Fields
    <2>9. Owned(u)
        <3>1. u.pending = s.pending /\ u.phase = s.phase /\ u.amiss = s.amiss
            BY <2>7 DEF Alike, Fields
        <3>2. \A ref, request : Its(s, ref, request) => Its(u, ref, request)
            BY <2>4, <2>7, <3>1 DEF Its
        <3>3. Its(u, 0, frame.request)
            <4>1. 0 \in 0 .. u.link.nextRef - 1
                BY <1>1, <2>4, <2>7 DEF Connections
            <4>2. \A p \in u.pending : p[1] # 0
                BY <1>1, <3>1 DEF Owned
            <4> QED
                BY <4>1, <4>2 DEF Its
        <3>4. ASSUME NEW i \in DOMAIN u.sent
              PROVE  /\ Its(u, u.sent[i].ref, u.sent[i].request)
                     /\ u.sent[i].kind # "beat" => u.sent[i].ref # NoRef
            <4>1. CASE u.sent[i] = frame
                BY <2>2, <3>3, <4>1
            <4>2. CASE i \in DOMAIN s.sent /\ u.sent[i] = s.sent[i]
                BY <1>1, <3>2, <4>2 DEF Owned
            <4> QED
                BY <2>5, <2>7, <4>1, <4>2
        <3>5. /\ \A p \in u.pending : p[1] \in 1 .. u.link.nextRef - 1
              /\ \A p, q \in u.pending : p[1] = q[1] => p = q
              /\ "crossed" \notin u.amiss
            BY <1>1, <2>4, <2>7, <3>1 DEF Owned
        <3> QED
            BY <1>1, <3>1, <3>2, <3>4, <3>5, OwnedStill
    <2>10. Accounted(u)
        BY <1>1, <2>7 DEF Accounted, Queued, Waits, Alike, Fields
    <2>11. Placed(u) /\ Onward(s, u)
        BY <1>1, <2>4, <2>7 DEF Placed, Ready, Onward, Alike, Fields
    <2> QED
        BY <2>1, <2>6, <2>8, <2>9, <2>10, <2>11 DEF Sound
<1> QED
    BY <1>2, <1>3, <1>4

LEMMA LiveIsSound ==
    ASSUME NEW s, Sound(s), s.phase = "live", s.next = "stay", s.read = 0, CallsMade,
           NEW ready, NEW beat, wire \in Seq(Events),
           NEW opening \in BOOLEAN,
           opening <=> s.link.opened \/ \E i \in DOMAIN wire : wire[i].kind = "opened",
           \A i \in DOMAIN wire : /\ wire[i].kind = "reply" => wire[i].ref # NoRef
                                  /\ wire[i].kind \in {"reply", "message"} => opening
                                  /\ wire[i].kind = "refused" => ~opening
    PROVE  /\ Sound(Live(s, ready, beat)) /\ Live(s, ready, beat).phase = "live"
           /\ Live(s, ready, beat).link.opened = opening
<1> DEFINE s1 == Decoded(s)
           s2 == Hello(s1)
           s3 == Heard(s2)
           s4 == CutOff(s3)
           s5 == RunAll(s4)
           s6 == RejoinDue(s5, ready)
           s7 == BeatDue(s6, beat)
           Up(x) == Sound(x) /\ x.phase = "live" /\ x.link.opened = opening
<1>1. Up(s1) /\ s1.read = 0
    <2>1. /\ Sound(s1) /\ s1.phase = "live" /\ s1.read = s.read
          /\ s1.link.opened <=> s.link.opened \/ \E i \in DOMAIN wire : wire[i].kind = "opened"
        BY DecodedIsSound
    <2>2. s1.link.opened \in BOOLEAN
        BY <2>1 DEF Sound, Sockets, Connections
    <2> QED
        BY <2>1, <2>2
<1> HIDE DEF s1
<1>2. Up(s2) /\ s2.read = 0
    BY <1>1, HelloIsSound DEF Onward
<1> HIDE DEF s2
<1>3. Up(s3) /\ s3.read = 0
    <2>1. Hearable(s2)
        BY <1>2 DEF Hearable
    <2> QED
        BY <1>2, <2>1, HeardIsSound DEF Onward
<1> HIDE DEF s3
<1>4. Up(s4) /\ s4.read = 0
    BY <1>3, CutOffIsSound DEF Onward
<1> HIDE DEF s4
<1>5. Up(s5)
    BY <1>4, RunAllIsSound
<1> HIDE DEF s5
<1>6. Up(s6)
    BY <1>5, RejoinDueIsSound DEF Onward
<1> HIDE DEF s6
<1>7. Up(s7)
    BY <1>6, BeatDueIsSound DEF Onward
<1>8. Live(s, ready, beat) = s7
    BY DEF Live, s1, s2, s3, s4, s5, s6
<1> HIDE DEF s7
<1> QED
    BY <1>7, <1>8

-----------------------------------------------------------------------------
(* What becomes of a step.                                                 *)

(* A call that waits for its reply waits for one.                          *)
LEMMA WaitingOnce ==
    ASSUME NEW s, Accounted(s), NEW r
    PROVE  Cardinality({p \in s.pending : p[2] = r}) = IF Waits(s, r) THEN 1 ELSE 0
<1> DEFINE S == {p \in s.pending : p[2] = r}
<1>1. \A p, q \in S : p = q
    BY DEF Accounted
<1>2. S = {} <=> ~Waits(s, r)
    BY DEF Waits
<1> HIDE DEF S
<1>3. CASE S = {}
    BY <1>2, <1>3, FS_EmptySet DEF S
<1>4. CASE S # {}
    <2>1. PICK p \in S : S = {p}
        BY <1>1, <1>4
    <2>2. Cardinality(S) = 1
        BY <2>1, FS_Singleton
    <2> QED
        BY <1>2, <1>4, <2>2 DEF S
<1> QED
    BY <1>3, <1>4

(* The end of a connection answers all that waits for a reply.             *)
LEMMA FailPendingIs ==
    ASSUME NEW s \in Sockets, Accounted(s)
    PROVE  LET f == FailPending(s)
           IN  /\ f \in Sockets /\ Accounted(f) /\ f.pending = {} /\ f.joining = {}
               /\ Alike(s, f, {"pending", "joining", "answers"})
<1> DEFINE named(r) == {p \in s.pending : p[2] = r}
           told == [r \in Ids |-> s.answers[r] + Cardinality(named(r))]
           none == {}
           f == [s EXCEPT !.answers = told, !.joining = none, !.pending = none]
<1>1. ASSUME NEW r \in Ids
      PROVE  Cardinality(named(r)) = IF Waits(s, r) THEN 1 ELSE 0
    BY WaitingOnce
<1>2. FailPending(s) = f
    BY DEF FailPending, Fail, Sockets
<1>3. \A r \in Ids : told[r] = s.answers[r] + IF Waits(s, r) THEN 1 ELSE 0
    BY <1>1
<1> HIDE DEF named
<1>4. told \in [Ids -> Nat]
    <2>1. \A r \in Ids : s.answers[r] \in Nat
        BY DEF Sockets
    <2>2. \A r \in Ids : s.answers[r] + Cardinality(named(r)) \in Nat
        BY <1>1, <2>1
    <2> QED
        BY <2>2
<1>5. none \in SUBSET (Nat \X Topics) /\ none \in SUBSET (Nat \X Ids) /\ none = {}
    OBVIOUS
<1> HIDE DEF told, none
<1>6. f \in Sockets
    BY <1>4, <1>5, SocketsAre DEF Typed, Answerings, Joinings, Pendings
<1>7. /\ Alike(s, f, {"pending", "joining", "answers"})
      /\ f.pending = none /\ f.joining = none /\ f.answers = told
    BY DEF Sockets, Alike, Fields
<1> HIDE DEF f
<1>8. Accounted(f)
    <2>1. \A q : (Queued(f, q) <=> Queued(s, q)) /\ ~Waits(f, q)
        BY <1>5, <1>7 DEF Queued, Waits, Alike, Fields
    <2>2. ASSUME NEW q \in Ids
          PROVE  /\ f.answers[q] \in {0, 1}
                 /\ q \in DOMAIN asked /\ f.answers[q] = 0 => Queued(f, q) \/ Waits(f, q)
                 /\ f.answers[q] = 1 => q \in DOMAIN asked /\ ~Queued(f, q)
                 /\ Waits(f, q) => f.answers[q] = 0 /\ ~Queued(f, q)
        <3>1. Waits(s, q) => q \in DOMAIN asked
            BY DEF Waits, Accounted
        <3>2. f.answers[q] = IF Waits(s, q) THEN 1 ELSE s.answers[q]
            <4>1. s.answers[q] \in Nat /\ (Waits(s, q) => s.answers[q] = 0)
                BY DEF Accounted, Sockets
            <4> QED
                BY <1>3, <1>7, <4>1
        <3> QED
            BY <2>1, <3>1, <3>2 DEF Accounted
    <2> QED
        BY <1>5, <1>7, <2>2 DEF Accounted
<1> QED
    BY <1>2, <1>5, <1>6, <1>7, <1>8

(* The connection is gone and another may be tried.                        *)
LEMMA DroppedIsSound ==
    ASSUME NEW s, Sound(s), s.phase # "removed"
    PROVE  Sound(Dropped(s)) /\ Dropped(s).phase # "live"
<1> DEFINE p == FailPending(s)
           due == {}
           rejoining == {}
           f == [p EXCEPT !.due = due, !.rejoining = rejoining]
           n == s.tries + 1
           gives == ~(s.once /\ n <= Tries)
           tries == IF s.once THEN n ELSE s.tries
           life == IF gives THEN [at |-> "ended", tries |-> 0] ELSE [at |-> "lost", tries |-> n]
           phase == IF gives THEN "removed" ELSE "waiting"
           u == [f EXCEPT !.tries = tries, !.life = life, !.phase = phase, !.link = Link]
<1>1. s \in Sockets /\ Young(s) /\ Parted(s) /\ Owned(s) /\ Accounted(s) /\ Placed(s)
    BY DEF Sound
<1>2. /\ p \in Sockets /\ Accounted(p) /\ p.pending = {} /\ p.joining = {}
      /\ Alike(s, p, {"pending", "joining", "answers"})
    BY <1>1, FailPendingIs
<1>3. f = [FailPending(s) EXCEPT !.due = {}, !.rejoining = {}]
    OBVIOUS
<1> HIDE DEF p
<1>4. due = {} /\ rejoining = {}
    OBVIOUS
<1> HIDE DEF due, rejoining
<1>5. /\ f \in Sockets /\ Alike(p, f, {"due", "rejoining"}) /\ f.due = {} /\ f.rejoining = {}
    <2>1. f \in Sockets
        <3>1. /\ due \in SUBSET [topic : Channels, attempt : Nat]
              /\ rejoining \in SUBSET [ref : Nat, topic : Channels, attempt : Nat]
            BY <1>4
        <3> QED
            BY <1>2, <3>1, SocketsAre DEF Typed, Dues, Rejoinings
    <2>2. Alike(p, f, {"due", "rejoining"}) /\ f.due = due /\ f.rejoining = rejoining
        BY <1>2 DEF Sockets, Alike, Fields
    <2> QED
        BY <1>4, <2>1, <2>2
<1> HIDE DEF f
<1>6. /\ Alike(s, f, {"pending", "joining", "answers", "due", "rejoining"})
      /\ f.pending = {} /\ f.joining = {}
    BY <1>2, <1>5 DEF Alike, Fields
<1>7. /\ f.life = s.life /\ f.once = s.once /\ f.tries = s.tries /\ s.tries \in Nat /\ n = s.tries + 1
      /\ n \in Nat
    <2>1. s.tries \in Nat
        BY <1>1 DEF Sockets
    <2>2. f.life = s.life /\ f.once = s.once /\ f.tries = s.tries
        BY <1>6 DEF Alike, Fields
    <2> QED
        BY <2>1, <2>2
<1>8. Dropped(s) = u
    <2>1. CASE gives
        <3>1. Hear(s.life, [kind |-> "error"]) = [at |-> "ended", tries |-> 0]
            <4>1. s.life.at = "new" \/ (s.life.at = "lost" /\ s.life.tries = Tries)
                <5>1. ~s.once => s.life.at = "new"
                    BY <1>1 DEF Placed
                <5>2. s.once => s.life.at = "lost" /\ s.life.tries = Tries
                    <6>1. SUFFICES ASSUME s.once PROVE s.life.at = "lost" /\ s.life.tries = Tries
                        OBVIOUS
                    <6>2. n > Tries
                        BY <1>7, <2>1, <6>1, RtConstants
                    <6>3. s.tries # 0
                        BY <1>7, <6>2, RtConstants
                    <6>4. s.life.at = "lost"
                        BY <1>1, <6>1, <6>3 DEF Placed, Sockets, Lives
                    <6> QED
                        BY <1>1, <1>7, <6>2, <6>4, RtConstants DEF Placed
                <5> QED
                    BY <5>1, <5>2
            <4> QED
                BY <4>1 DEF Hear
        <3>2. Dropped(s) = Ended(Tell([f EXCEPT !.tries = tries], [kind |-> "error"]))
            BY <1>3, <1>7, <2>1 DEF Dropped
        <3>3. tries = tries /\ [f EXCEPT !.tries = tries].life = s.life
            BY <1>5, <1>7 DEF Sockets
        <3> HIDE DEF tries, n, gives
        <3>4. life = [at |-> "ended", tries |-> 0] /\ phase = "removed"
            BY <2>1
        <3> HIDE DEF life, phase
        <3> QED
            BY <1>5, <3>1, <3>2, <3>3, <3>4 DEF Ended, Tell, Sockets
    <2>2. CASE ~gives
        <3>1. Hear(s.life, [kind |-> "reconnecting", attempt |-> n]) = [at |-> "lost", tries |-> n]
            <4>1. s.life.at \in {"open", "lost"} /\ s.life.tries = s.tries
                BY <1>1, <2>2 DEF Placed, Sockets, Lives
            <4> QED
                BY <1>7, <4>1 DEF Hear
        <3>2. Dropped(s) = [Tell(f, [kind |-> "reconnecting", attempt |-> n])
                            EXCEPT !.tries = n, !.phase = "waiting", !.link = Link]
            BY <1>3, <2>2 DEF Dropped
        <3>3. tries = n /\ life = [at |-> "lost", tries |-> n] /\ phase = "waiting"
            BY <2>2
        <3>4. Tell(f, [kind |-> "reconnecting", attempt |-> n]) = [f EXCEPT !.life = life]
            BY <1>5, <1>7, <3>1, <3>3 DEF Tell, Sockets
        <3> HIDE DEF tries, n, gives, life, phase
        <3>5. Dropped(s) = [[f EXCEPT !.life = life] EXCEPT !.tries = tries, !.phase = phase,
                                                            !.link = Link]
            BY <3>2, <3>3, <3>4
        <3> QED
            BY <1>5, <3>5 DEF Sockets
    <2> QED
        BY <2>1, <2>2
<1>9. /\ tries \in Nat /\ life \in Lives /\ phase \in {"waiting", "removed"}
      /\ Link \in Connections
      /\ gives => life.at = "ended" /\ phase = "removed"
      /\ ~gives => /\ life.at = "lost" /\ life.tries = tries /\ phase = "waiting" /\ tries <= Tries
                   /\ s.once
    BY <1>7 DEF Lives, Link, Connections, NoRef
<1> HIDE DEF gives, tries, life, phase, n
<1>10. u \in Sockets
    BY <1>5, <1>9, SocketsAre DEF Typed, Phases
<1>11. /\ Alike(f, u, {"tries", "life", "phase", "link"})
       /\ u.tries = tries /\ u.life = life /\ u.phase = phase /\ u.link = Link
    BY <1>5 DEF Sockets, Alike, Fields
<1> HIDE DEF u
<1>12. /\ u.pending = {} /\ u.joining = {} /\ u.due = {} /\ u.rejoining = {} /\ u.topics = s.topics
       /\ u.next = s.next /\ u.read = s.read /\ u.once = s.once /\ u.amiss = s.amiss
       /\ u.left = s.left /\ u.answers = f.answers
    BY <1>5, <1>6, <1>11 DEF Alike, Fields
<1>13. Link.opened = FALSE /\ Link.joinRef = NoRef /\ Link.joined = FALSE /\ Link.back = {}
    BY DEF Link
<1>14. Young(u)
    <2>1. IsFiniteSet(s.topics) /\ s.read <= Len(commands) /\ IsFiniteSet({})
        BY <1>1, FS_EmptySet DEF Young
    <2> QED
        BY <1>11, <1>12, <1>13, <2>1 DEF Young
<1>15. Parted(u)
    BY <1>1, <1>12 DEF Parted
<1>16. Owned(u)
    BY <1>1, <1>9, <1>11, <1>12 DEF Owned
<1>17. Accounted(u)
    <2>1. f.read = s.read /\ p.read = s.read /\ p.answers = f.answers
        BY <1>2, <1>5, <1>6 DEF Alike, Fields
    <2> QED
        BY <1>2, <1>12, <2>1 DEF Accounted, Queued, Waits
<1>18. Placed(u)
    BY <1>9, <1>11, <1>12, <1>13 DEF Placed, Ready
<1>19. u.phase # "live"
    BY <1>9, <1>11
<1> QED
    BY <1>8, <1>10, <1>14, <1>15, <1>16, <1>17, <1>18, <1>19 DEF Sound

LEMMA ClosedByGameIsSound ==
    ASSUME NEW s, Sound(s), s.phase # "removed"
    PROVE  Sound(ClosedByGame(s)) /\ ClosedByGame(s).phase # "live"
<1> DEFINE f == FailPending(s)
           life == [at |-> "ended", tries |-> 0]
           u == [f EXCEPT !.life = life, !.phase = "removed", !.link = Link]
<1>1. s \in Sockets /\ Young(s) /\ Parted(s) /\ Owned(s) /\ Accounted(s) /\ Placed(s)
    BY DEF Sound
<1>2. /\ f \in Sockets /\ Accounted(f) /\ f.pending = {} /\ f.joining = {}
      /\ Alike(s, f, {"pending", "joining", "answers"})
    BY <1>1, FailPendingIs
<1>3. ClosedByGame(s) = Ended(Tell(f, [kind |-> "closed"]))
    BY DEF ClosedByGame
<1> HIDE DEF f
<1>4. ClosedByGame(s) = u
    <2>1. f.life = s.life /\ s.life.at # "ended"
        BY <1>1, <1>2 DEF Alike, Fields, Placed
    <2>2. Hear(f.life, [kind |-> "closed"]) = life
        BY <2>1 DEF Hear
    <2>3. Tell(f, [kind |-> "closed"]) = [f EXCEPT !.life = life]
        BY <1>2, <2>2 DEF Tell, Sockets
    <2> HIDE DEF life
    <2> QED
        BY <1>2, <1>3, <2>3 DEF Ended, Sockets
<1>5. life \in Lives /\ life.at = "ended" /\ Link \in Connections
    BY DEF Lives, Link, Connections, NoRef
<1> HIDE DEF life
<1>6. u \in Sockets
    BY <1>2, <1>5, SocketsAre DEF Typed, Phases
<1>7. /\ Alike(f, u, {"life", "phase", "link"})
      /\ u.life = life /\ u.phase = "removed" /\ u.link = Link
    BY <1>2 DEF Sockets, Alike, Fields
<1> HIDE DEF u
<1>8. Alike(s, u, {"pending", "joining", "answers", "life", "phase", "link"})
    BY <1>2, <1>7 DEF Alike, Fields
<1>9. u.pending = {} /\ u.joining = {} /\ u.answers = f.answers /\ u.read = f.read /\ u.next = s.next
    BY <1>2, <1>7, <1>8 DEF Alike, Fields
<1>10. Link.opened = FALSE /\ Link.joinRef = NoRef /\ Link.joined = FALSE /\ Link.back = {}
    BY DEF Link
<1>11. Young(u)
    BY <1>1, <1>7, <1>8, <1>9, <1>10 DEF Young, Alike, Fields
<1>12. Parted(u)
    BY <1>1, <1>8 DEF Parted, Alike, Fields
<1>13. Owned(u)
    <2>1. u.amiss = s.amiss
        BY <1>8 DEF Alike, Fields
    <2> QED
        BY <1>1, <1>7, <1>9, <2>1 DEF Owned
<1>14. Accounted(u)
    BY <1>2, <1>9 DEF Accounted, Queued, Waits
<1>15. Placed(u)
    BY <1>5, <1>7, <1>10 DEF Placed, Ready
<1> QED
    BY <1>4, <1>6, <1>7, <1>11, <1>12, <1>13, <1>14, <1>15 DEF Sound

LEMMA RenewIsSound ==
    ASSUME NEW s, Sound(s), s.phase # "removed", ~s.link.opened, NEW renewed \in BOOLEAN
    PROVE  LET u == Renew([s EXCEPT !.renewed = renewed]) IN Sound(u) /\ u.phase # "live"
<1> DEFINE u == [s EXCEPT !.renewed = renewed, !.phase = "renewing", !.link = Link]
<1>1. s \in Sockets /\ Young(s) /\ Parted(s) /\ Owned(s) /\ Accounted(s) /\ Placed(s)
    BY DEF Sound
<1>2. Renew([s EXCEPT !.renewed = renewed]) = u
    BY <1>1 DEF Renew, Sockets
<1>3. Link \in Connections
    BY DEF Link, Connections, NoRef
<1>4. u \in Sockets
    BY <1>1, <1>3, SocketsAre DEF Typed, Phases, Flags
<1>5. Alike(s, u, {"renewed", "phase", "link"}) /\ u.phase = "renewing" /\ u.link = Link
    BY <1>1 DEF Sockets, Alike, Fields
<1> HIDE DEF u
<1>6. Link.opened = FALSE /\ Link.joinRef = NoRef /\ Link.joined = FALSE /\ Link.back = {}
    BY DEF Link
<1>7. ~s.link.joined /\ s.pending = {} /\ s.joining = {} /\ s.due = {} /\ s.rejoining = {}
    BY <1>1 DEF Young
<1>8. Young(u)
    BY <1>1, <1>5, <1>6, <1>7 DEF Young, Alike, Fields
<1>9. Parted(u)
    BY <1>1, <1>5 DEF Parted, Alike, Fields
<1>10. Owned(u)
    <2>1. u.pending = {} /\ u.amiss = s.amiss
        BY <1>5, <1>7 DEF Alike, Fields
    <2> QED
        BY <1>1, <1>5, <2>1 DEF Owned
<1>11. Accounted(u)
    BY <1>1, <1>5 DEF Accounted, Queued, Waits, Alike, Fields
<1>12. Placed(u)
    BY <1>1, <1>5, <1>6, <1>7 DEF Placed, Ready, Alike, Fields
<1> QED
    BY <1>2, <1>4, <1>5, <1>8, <1>9, <1>10, <1>11, <1>12 DEF Sound

(* A connection that begins has nothing on it.                             *)
LEMMA DialIsSound ==
    ASSUME NEW s, Sound(s), s.phase \in {"waiting", "renewing"}, s.sent = <<>>,
           wire = <<>>, server = NoServer, NEW token
    PROVE  Sound(Dial(s, token)) /\ (Dial(s, token).phase = "live" => Dial(s, token).link = Link)
<1> DEFINE u == [s EXCEPT !.phase = "live", !.link = Link]
<1>1. s \in Sockets /\ Young(s) /\ Parted(s) /\ Owned(s) /\ Accounted(s) /\ Placed(s)
    BY DEF Sound
<1>2. CASE token = "none"
    BY <1>2, DroppedIsSound DEF Dial
<1>3. CASE token # "none"
    <2>1. Dial(s, token) = u
        BY <1>3 DEF Dial
    <2>2. Link \in Connections
        BY DEF Link, Connections, NoRef
    <2>3. u \in Sockets
        BY <1>1, <2>2, SocketsAre DEF Typed, Phases
    <2>4. Alike(s, u, {"phase", "link"}) /\ u.phase = "live" /\ u.link = Link
        BY <1>1 DEF Sockets, Alike, Fields
    <2> HIDE DEF u
    <2>5. Link.opened = FALSE /\ Link.joinRef = NoRef /\ Link.joined = FALSE /\ Link.back = {}
        BY DEF Link
    <2>6. s.link = Link /\ s.pending = {} /\ s.joining = {} /\ s.due = {} /\ s.rejoining = {}
        BY <1>1, <2>5 DEF Young
    <2>7. Young(u)
        BY <1>1, <2>4, <2>5, <2>6 DEF Young, Alike, Fields
    <2>8. Parted(u)
        BY <1>1, <2>4 DEF Parted, Alike, Fields
    <2>9. Owned(u)
        <3>1. u.pending = {} /\ u.amiss = s.amiss /\ u.sent = <<>>
            BY <2>4, <2>6 DEF Alike, Fields
        <3>2. DOMAIN wire = {} /\ DOMAIN server.inbox = {} /\ DOMAIN u.sent = {}
            BY <3>1 DEF NoServer, NewServer
        <3> QED
            BY <1>1, <3>1, <3>2 DEF Owned
    <2>10. Accounted(u)
        BY <1>1, <2>4 DEF Accounted, Queued, Waits, Alike, Fields
    <2>11. Placed(u)
        BY <1>1, <2>4, <2>5, <2>6 DEF Placed, Ready, Alike, Fields
    <2> QED
        BY <2>1, <2>3, <2>4, <2>7, <2>8, <2>9, <2>10, <2>11 DEF Sound
<1> QED
    BY <1>2, <1>3

(* Where a tick of a live socket leads.                                    *)
LEMMA OutcomeIsSound ==
    ASSUME NEW s, Sound(s), s.phase = "live"
    PROVE  Sound(Outcome(s)) /\ (Outcome(s).phase = "live" => Outcome(s) = s)
<1>1. s \in Sockets /\ s.next \in {"stay", "drop", "refused", "closed"} /\ s.phase # "removed"
    BY DEF Sound, Sockets
<1>2. CASE s.next = "stay"
    BY <1>2 DEF Outcome
<1>3. CASE s.next = "drop"
    <2>1. Outcome(s) = Dropped(s)
        BY <1>3 DEF Outcome
    <2> QED
        BY <1>1, <2>1, DroppedIsSound
<1>4. CASE s.next = "refused" /\ s.renewed
    <2>1. Outcome(s) = Dropped(s)
        BY <1>4 DEF Outcome
    <2> QED
        BY <1>1, <2>1, DroppedIsSound
<1>5. CASE s.next = "refused" /\ ~s.renewed
    <2>1. Outcome(s) = Renew([s EXCEPT !.renewed = TRUE])
        BY <1>5 DEF Outcome
    <2>2. ~s.link.opened
        BY <1>5 DEF Sound, Young
    <2>3. LET u == Renew([s EXCEPT !.renewed = TRUE]) IN Sound(u) /\ u.phase # "live"
        BY <1>1, <2>2, RenewIsSound
    <2> QED
        BY <2>1, <2>3
<1>6. CASE s.next = "closed"
    <2>1. Outcome(s) = ClosedByGame(s)
        BY <1>6 DEF Outcome
    <2> QED
        BY <1>1, <2>1, ClosedByGameIsSound
<1> QED
    BY <1>1, <1>2, <1>3, <1>4, <1>5, <1>6

(* A socket that waits answers what it reads.                              *)
Resting(x) == Sound(x) /\ x.phase \in {"waiting", "renewing"} /\ x.sent = <<>>
Restings == {x \in Sockets : Resting(x)}

LEMMA WaitLeaveSettles ==
    ASSUME NEW s, CallsMade, NEW c, Holding(s, c.request), s.phase \in {"waiting", "renewing"},
           c.topic \in Topics, s.sent = <<>>
    PROVE  LET l == [s EXCEPT !.topics = @ \ {c.topic}, !.left = @ \union {c.topic}]
               u == Answer(l, c.request, "ok")
           IN  Resting(u) /\ u.read = s.read /\ u.next = s.next
<1> DEFINE r == c.request
           t == c.topic
           topics == s.topics \ {t}
           left == s.left \union {t}
           l == [s EXCEPT !.topics = topics, !.left = left]
           u == Answer(l, r, "ok")
<1>1. s \in Sockets /\ Young(s) /\ Parted(s) /\ Holding(s, r)
    BY DEF Holding
<1>2. /\ topics \in SUBSET Topics /\ topics \subseteq s.topics /\ t \notin topics
      /\ left \in SUBSET Topics /\ \A x \in left : x \in s.left \/ x = t
    BY <1>1 DEF Sockets
<1> HIDE DEF topics, left
<1>3. IsFiniteSet(topics)
    BY <1>1, <1>2, FS_Subset DEF Young
<1>4. l \in Sockets
    BY <1>1, <1>2, SocketsAre DEF Typed, TopicSets
<1>5. Alike(s, l, {"topics", "left"}) /\ l.topics = topics /\ l.left = left
    BY <1>1 DEF Sockets, Alike, Fields
<1> HIDE DEF l
<1>6. /\ l.phase = s.phase /\ l.link = s.link /\ l.sent = <<>> /\ l.read = s.read
      /\ l.next = s.next /\ l.due = s.due /\ l.rejoining = s.rejoining /\ l.amiss = s.amiss
    BY <1>5 DEF Alike, Fields
<1>7. Young(l)
    BY <1>1, <1>3, <1>5 DEF Young, Alike, Fields
<1>8. Parted(l)
    <2>1. s.due = {} /\ s.rejoining = {}
        BY <1>1 DEF Young, Link
    <2> QED
        BY <1>1, <1>2, <1>5, <1>6, <2>1 DEF Parted
<1>9. Holding(l, r)
    <2> HIDE DEF r
    <2>1. Alike(s, l, {"topics", "lost", "due", "rejoining", "gone", "joining", "mine", "link",
                       "renewed", "left", "shut"})
        BY <1>5 DEF Alike
    <2> QED
        BY <1>1, <1>4, <1>6, <1>7, <1>8, <2>1, HoldingEased
<1>10. Sound(u) /\ Alike(l, u, {"answers", "mine"})
    BY <1>9, AnswerSettles
<1> HIDE DEF u
<1>11. u.phase = s.phase /\ u.sent = <<>> /\ u.read = s.read /\ u.next = s.next
    BY <1>6, <1>10 DEF Alike, Fields
<1> QED
    BY <1>10, <1>11 DEF Resting, u, l, topics, left

LEMMA WaitCommandIsSound ==
    ASSUME NEW s \in Restings, CallsMade, NEW i \in DOMAIN commands,
           s.next = "stay" => s.read = i - 1
    PROVE  LET u == WaitCommand(s, commands[i])
           IN  u \in Restings /\ (u.next = "stay" => u.read = i)
<1> DEFINE c == commands[i]
           u == WaitCommand(s, c)
           r == [s EXCEPT !.read = @ + 1]
<1>1. /\ Sound(s) /\ s.phase \in {"waiting", "renewing"} /\ s.sent = <<>> /\ s \in Sockets
      /\ c \in Requests
    BY DEF Restings, Resting, CallsMade
<1>2. CASE s.next # "stay"
    BY <1>1, <1>2 DEF WaitCommand
<1>3. CASE s.next = "stay"
    <2>1. /\ r \in Sockets /\ Alike(s, r, {"read"}) /\ r.read = i
          /\ Young(r) /\ Parted(r) /\ Owned(r) /\ Placed(r)
          /\ c.kind \in {"close", "interrupt"} => Accounted(r)
          /\ c.kind \in {"join", "push", "leave"} => Holding(r, c.request)
        BY <1>1, <1>3, ReadIs
    <2>2. r.phase = s.phase /\ r.sent = <<>> /\ r.link = s.link /\ r.next = "stay"
        BY <1>1, <1>3, <2>1 DEF Alike, Fields
    <2>3. u = CASE c.kind \in {"join", "push"} -> Answer(r, c.request, "failed")
                [] c.kind = "leave" -> Answer([r EXCEPT !.topics = @ \ {c.topic},
                                                        !.left = @ \union {c.topic}],
                                              c.request, "ok")
                [] c.kind = "close" -> [r EXCEPT !.next = "closed"]
                [] c.kind = "interrupt" -> r
        BY <1>3 DEF WaitCommand
    <2> HIDE DEF r, u
    <2>4. c.kind = "leave" => c.topic \in Topics
        <3>1. c.kind = "leave" => /\ c.request \in DOMAIN asked
                                  /\ asked[c.request] = [kind |-> c.kind, topic |-> c.topic]
            BY DEF CallsMade
        <3>2. Calls \subseteq [kind : {"join", "push", "leave"}, topic : Topics]
                 \union [kind : {"push"}, topic : {User}]
            BY RtConstants
        <3>3. c.request \in DOMAIN asked => asked[c.request] \in Calls
            BY DEF CallsMade
        <3> HIDE DEF c
        <3> QED
            BY <3>1, <3>2, <3>3
    <2>5. Resting(u) /\ u.read = i
        <3>0. c.kind \in {"join", "push", "leave", "close", "interrupt"}
            BY <1>1 DEF Requests
        <3> HIDE DEF c
        <3>1. CASE c.kind \in {"join", "push"}
            <4>1. u = Answer(r, c.request, "failed") /\ Holding(r, c.request)
                BY <2>1, <2>3, <3>1
            <4>2. Sound(u) /\ Alike(r, u, {"answers", "mine"})
                BY <4>1, AnswerSettles
            <4>3. u.phase = r.phase /\ u.sent = r.sent /\ u.read = r.read
                BY <4>2 DEF Alike, Fields
            <4> QED
                BY <1>1, <2>1, <2>2, <4>2, <4>3 DEF Resting
        <3>2. CASE c.kind = "leave"
            BY <1>1, <2>1, <2>2, <2>3, <2>4, <3>2, WaitLeaveSettles
        <3>3. CASE c.kind = "close"
            <4>1. u = [r EXCEPT !.next = "closed"] /\ Accounted(r)
                BY <2>1, <2>3, <3>3
            <4>2. Sound(r)
                BY <2>1, <4>1 DEF Sound
            <4>3. Sound(u)
                BY <4>1, <4>2, StoppingIsSound
            <4>4. u.phase = r.phase /\ u.sent = r.sent /\ u.read = r.read
                BY <2>1, <4>1 DEF Sockets
            <4> QED
                BY <1>1, <2>1, <2>2, <4>3, <4>4 DEF Resting
        <3>4. CASE c.kind = "interrupt"
            BY <1>1, <2>1, <2>2, <2>3, <3>4 DEF Resting, Sound
        <3> QED
            BY <3>0, <3>1, <3>2, <3>3, <3>4
    <2> QED
        BY <2>5 DEF Restings, Resting, Sound, u
<1> QED
    BY <1>2, <1>3

LEMMA TakesIsTyped ==
    ASSUME NEW s, s \in Sockets, NEW takes \in BOOLEAN
    PROVE  [s EXCEPT !.takes = takes] \in Sockets
BY SocketsAre DEF Typed, Flags

LEMMA RestingSteps ==
    ASSUME NEW x \in Restings, NEW n \in Nat, NEW G \in [1 .. n -> [Restings -> Restings]]
    PROVE  \E f \in [0 .. n -> Restings] : f[0] = x /\ \A i \in 1 .. n : f[i] = G[i][f[i - 1]]
BY StepsExist

(* All the commands, read by a socket that waits.                          *)
AllWaited(s) ==
    LET read[i \in 0..Len(commands)] == IF i = 0 THEN s ELSE WaitCommand(read[i-1], commands[i])
    IN  read[Len(commands)]

LEMMA WaitSteps ==
    ASSUME NEW s \in Restings, CallsMade, s.read = 0
    PROVE  \E f : /\ f[0] = s /\ AllWaited(s) = f[Len(commands)]
                  /\ \A i \in 0 .. Len(commands) :
                        f[i] \in Restings /\ (f[i].next = "stay" => f[i].read = i)
                  /\ \A i \in 1 .. Len(commands) : f[i] = WaitCommand(f[i - 1], commands[i])
<1> DEFINE n == Len(commands)
           S == Restings
           Turn(x, i) == IF x.next = "stay" => x.read = i - 1 THEN WaitCommand(x, commands[i])
                         ELSE x
           F(f) == f = [i \in 0 .. n |-> IF i = 0 THEN s ELSE WaitCommand(f[i - 1], commands[i])]
           ran == CHOOSE f : F(f)
<1>1. n \in Nat /\ DOMAIN commands = 1 .. n
    BY DEF CallsMade
<1>2. \A i \in 1 .. n : i \in 0 .. n /\ i - 1 \in 0 .. n /\ i # 0
    BY <1>1
<1>3. \A i \in 0 .. n : i = 0 \/ i \in 1 .. n
    BY <1>1
<1>4. AllWaited(s) = ran[n]
    BY DEF AllWaited, n
<1> HIDE DEF n
<1>5. ASSUME NEW i \in 1 .. n, NEW x \in S, x.next = "stay" => x.read = i - 1
      PROVE  /\ WaitCommand(x, commands[i]) \in S
             /\ WaitCommand(x, commands[i]).next = "stay" => WaitCommand(x, commands[i]).read = i
    BY <1>1, <1>5, WaitCommandIsSound
<1>6. ASSUME NEW i \in 1 .. n, NEW x \in S
      PROVE  Turn(x, i) \in S
    BY <1>5
<1>7. PICK G \in [1 .. n -> [S -> S]] : \A i \in 1 .. n : \A x \in S : G[i][x] = Turn(x, i)
    <2> DEFINE G == [i \in 1 .. n |-> [x \in S |-> Turn(x, i)]]
    <2> HIDE DEF S, Turn
    <2>1. G \in [1 .. n -> [S -> S]]
        BY <1>6
    <2>2. \A i \in 1 .. n : \A x \in S : G[i][x] = Turn(x, i)
        OBVIOUS
    <2> HIDE DEF G
    <2> QED
        BY <2>1, <2>2
<1>8. PICK f \in [0 .. n -> S] : f[0] = s /\ \A i \in 1 .. n : f[i] = G[i][f[i - 1]]
    <2>1. n \in Nat /\ s \in Restings /\ G \in [1 .. n -> [Restings -> Restings]]
        BY <1>1, <1>7
    <2> HIDE DEF n, F, Turn
    <2> QED
        <3> HIDE DEF S
        <3>1. Restings = S
            BY DEF S
        <3> QED
            BY <2>1, <3>1, RestingSteps
<1> HIDE DEF S
<1> DEFINE Kept(g, i) == g[i] \in S /\ (g[i].next = "stay" => g[i].read = i)
           P == {i \in 0 .. n : Kept(f, i)}
<1>9. s \in S
    BY DEF S
<1>10. ASSUME NEW i \in 1 .. n, Kept(f, i - 1)
       PROVE  f[i] = WaitCommand(f[i - 1], commands[i]) /\ Kept(f, i)
    <2>1. i - 1 \in 0 .. n /\ f[i - 1] \in S /\ f[i] = Turn(f[i - 1], i)
        BY <1>2, <1>7, <1>8
    <2>2. f[i] = WaitCommand(f[i - 1], commands[i])
        BY <1>10, <2>1
    <2> QED
        BY <1>5, <1>10, <2>1, <2>2
<1>11. 0 .. n \subseteq P
    <2>1. 0 \in P
        BY <1>1, <1>8, <1>9
    <2>2. ASSUME NEW i \in 0 .. n - 1, i \in P PROVE i + 1 \in P
        <3>1. i + 1 \in 1 .. n /\ i + 1 \in 0 .. n /\ i + 1 - 1 = i
            BY <1>1
        <3>2. Kept(f, i + 1 - 1)
            BY <2>2, <3>1
        <3> HIDE DEF Kept
        <3>3. Kept(f, i + 1)
            BY <1>10, <3>1, <3>2
        <3> QED
            BY <3>1, <3>3
    <2> HIDE DEF P
    <2> QED
        BY <1>1, <2>1, <2>2, StepByStep
<1>12. \A i \in 1 .. n : f[i] = WaitCommand(f[i - 1], commands[i])
    <2>1. ASSUME NEW i \in 1 .. n PROVE Kept(f, i - 1)
        BY <1>2, <1>11
    <2> HIDE DEF Kept
    <2> QED
        BY <1>10, <2>1
<1>13. \A i \in 0 .. n : f[i] = IF i = 0 THEN s ELSE WaitCommand(f[i - 1], commands[i])
    BY <1>3, <1>8, <1>12
<1>14. F(f)
    BY <1>13
<1> HIDE DEF F
<1>15. F(ran)
    BY <1>14
<1>16. ran = [i \in 0 .. n |-> IF i = 0 THEN s ELSE WaitCommand(ran[i - 1], commands[i])]
    BY <1>15 DEF F
<1> HIDE DEF ran
<1>17. ran[0] = s /\ \A i \in 1 .. n : ran[i] = WaitCommand(ran[i - 1], commands[i])
    BY <1>1, <1>2, <1>16
<1> DEFINE Q == {i \in 0 .. n : Kept(ran, i)}
<1>18. 0 .. n \subseteq Q
    <2>1. 0 \in Q
        BY <1>1, <1>9, <1>17
    <2>2. ASSUME NEW i \in 0 .. n - 1, i \in Q PROVE i + 1 \in Q
        <3>1. i + 1 \in 1 .. n /\ i + 1 \in 0 .. n /\ i + 1 - 1 = i
            BY <1>1
        <3>2. ran[i + 1] = WaitCommand(ran[i], commands[i + 1])
            BY <1>17, <3>1
        <3>3. Kept(ran, i + 1)
            BY <1>5, <2>2, <3>1, <3>2
        <3> QED
            BY <3>1, <3>3
    <2> HIDE DEF Q
    <2> QED
        BY <1>1, <2>1, <2>2, StepByStep
<1>19. \A i \in 0 .. n : ran[i] \in S /\ (ran[i].next = "stay" => ran[i].read = i)
    BY <1>18
<1> QED
    BY <1>4, <1>17, <1>19 DEF S, n

LEMMA AllWaitedIsSound ==
    ASSUME NEW s \in Restings, CallsMade, s.read = 0
    PROVE  AllWaited(s) \in Restings
<1>1. PICK f : /\ AllWaited(s) = f[Len(commands)]
               /\ \A i \in 0 .. Len(commands) : f[i] \in Restings
    BY WaitSteps
<1>2. Len(commands) \in 0 .. Len(commands)
    BY DEF CallsMade
<1> QED
    BY <1>1, <1>2

(* And where the wait leads.                                               *)
LEMMA WaitedIsSound ==
    ASSUME NEW s \in Restings, CallsMade, s.read = 0, wire = <<>>, server = NoServer,
           NEW due \in BOOLEAN, NEW token
    PROVE  LET u == Waited(s, due, token)
           IN  Sound(u) /\ (u.phase = "live" => u.link = Link)
<1> DEFINE x == AllWaited(s)
           u == WaitOver(x, due, token)
<1>1. x \in Restings
    BY AllWaitedIsSound
<1>2. Waited(s, due, token) = u
    BY DEF Waited, AllWaited
<1> HIDE DEF x
<1>3. /\ Sound(x) /\ x.phase \in {"waiting", "renewing"} /\ x.sent = <<>> /\ x \in Sockets
      /\ x.phase # "removed"
    BY <1>1 DEF Restings, Resting
<1>4. CASE x.next = "closed"
    <2>1. u = ClosedByGame(x)
        BY <1>4 DEF WaitOver
    <2> QED
        BY <1>2, <1>3, <2>1, ClosedByGameIsSound
<1>5. CASE x.next # "closed" /\ ~due
    <2>1. u = x
        BY <1>5 DEF WaitOver
    <2> QED
        BY <1>2, <1>3, <2>1
<1>6. CASE x.next # "closed" /\ due /\ token = "stale"
    <2>1. u = Renew(x)
        BY <1>6 DEF WaitOver
    <2>2. x.renewed \in BOOLEAN /\ ~x.link.opened
        BY <1>3 DEF Sockets, Sound, Young, Link
    <2>3. [x EXCEPT !.renewed = x.renewed] = x
        BY <1>3 DEF Sockets
    <2>4. LET v == Renew([x EXCEPT !.renewed = x.renewed]) IN Sound(v) /\ v.phase # "live"
        BY <1>3, <2>2, RenewIsSound
    <2> QED
        BY <1>2, <2>1, <2>3, <2>4
<1>7. CASE x.next # "closed" /\ due /\ token = "refused"
    <2>1. u = Dropped(x)
        BY <1>7 DEF WaitOver
    <2> QED
        BY <1>2, <1>3, <2>1, DroppedIsSound
<1>8. CASE x.next # "closed" /\ due /\ token \notin {"stale", "refused"}
    <2>1. u = Dial(x, token)
        BY <1>8 DEF WaitOver
    <2> QED
        BY <1>2, <1>3, <2>1, DialIsSound
<1> QED
    BY <1>4, <1>5, <1>6, <1>7, <1>8

(* Where any tick leads.                                                   *)
LEMMA SteppedIsSound ==
    ASSUME Inv, sock.phase # "removed", NEW takes \in BOOLEAN, NEW ready, NEW beat,
           NEW due \in BOOLEAN, NEW token
    PROVE  LET u == Stepped(takes, ready, beat, due, token)
           IN  /\ Sound(u)
               /\ sock.phase = "live" /\ u.phase = "live" => (u.link.opened <=> Opening)
               /\ sock.phase # "live" /\ u.phase = "live" => u.link = Link
<1> DEFINE s == [sock EXCEPT !.takes = takes]
           u == Stepped(takes, ready, beat, due, token)
<1>1. /\ sock \in Sockets /\ Young(sock) /\ Parted(sock) /\ Owned(sock) /\ Accounted(sock)
      /\ Placed(sock) /\ CallsMade /\ Wired /\ AtRest
    BY DEF Inv, Sound
<1>2. s \in Sockets
    BY <1>1, TakesIsTyped, Zenon
<1>3. Alike(sock, s, {"takes"})
    BY <1>1 DEF Sockets, Alike, Fields
<1>4. u = IF s.phase = "live" THEN Outcome(Live(s, ready, beat)) ELSE Waited(s, due, token)
    BY DEF Stepped
<1> HIDE DEF s, u
<1>5. Sound(s)
    <2>1. Young(s)
        BY <1>1, <1>3 DEF Young, Alike, Fields
    <2>2. Parted(s)
        BY <1>1, <1>3 DEF Parted, Alike, Fields
    <2>3. Owned(s)
        BY <1>1, <1>3 DEF Owned, Its, Alike, Fields
    <2>4. Accounted(s)
        BY <1>1, <1>3 DEF Accounted, Queued, Waits, Alike, Fields
    <2>5. Placed(s)
        BY <1>1, <1>3 DEF Placed, Ready, Alike, Fields
    <2> QED
        BY <1>2, <2>1, <2>2, <2>3, <2>4, <2>5 DEF Sound
<1>6. /\ s.phase = sock.phase /\ s.link = sock.link /\ s.read = 0 /\ s.next = "stay"
      /\ s.sent = <<>>
    BY <1>1, <1>3 DEF AtRest, Alike, Fields
<1>7. CASE sock.phase = "live"
    <2> DEFINE opening == IF Opening THEN TRUE ELSE FALSE
               v == Live(s, ready, beat)
    <2>1. opening \in BOOLEAN /\ (opening <=> Opening)
        OBVIOUS
    <2> HIDE DEF opening
    <2>2. wire \in Seq(Events)
        BY <1>1 DEF Wired
    <2>3. opening <=> s.link.opened \/ \E i \in DOMAIN wire : wire[i].kind = "opened"
        BY <1>6, <2>1 DEF Opening
    <2>4. \A i \in DOMAIN wire : /\ wire[i].kind = "reply" => wire[i].ref # NoRef
                                 /\ wire[i].kind \in {"reply", "message"} => opening
                                 /\ wire[i].kind = "refused" => ~opening
        BY <1>1, <2>1 DEF Wired
    <2>5. Sound(v) /\ v.phase = "live" /\ v.link.opened = opening
        BY <1>1, <1>5, <1>6, <1>7, <2>1, <2>2, <2>3, <2>4, LiveIsSound
    <2> HIDE DEF v
    <2>6. Sound(Outcome(v)) /\ (Outcome(v).phase = "live" => Outcome(v) = v)
        BY <2>5, OutcomeIsSound
    <2>7. u = Outcome(v)
        BY <1>4, <1>6, <1>7 DEF v
    <2> QED
        BY <1>7, <2>1, <2>5, <2>6, <2>7 DEF u
<1>8. CASE sock.phase # "live"
    <2>1. sock.phase \in {"waiting", "renewing"}
        BY <1>1, <1>8 DEF Sockets
    <2>2. s \in Restings
        BY <1>2, <1>5, <1>6, <2>1 DEF Restings, Resting
    <2>3. wire = <<>> /\ server = NoServer
        BY <1>1, <1>8 DEF Wired
    <2>4. u = Waited(s, due, token)
        BY <1>4, <1>6, <1>8
    <2>5. LET w == Waited(s, due, token) IN Sound(w) /\ (w.phase = "live" => w.link = Link)
        BY <1>1, <1>6, <2>2, <2>3, WaitedIsSound
    <2> QED
        BY <1>8, <2>4, <2>5 DEF u
<1> QED
    BY <1>7, <1>8

-----------------------------------------------------------------------------
(* The queue a step leaves.                                                *)
LEMMA UnreadIs ==
    ASSUME CallsMade, NEW s, s.read \in Nat, s.read <= Len(commands)
    PROVE  /\ Unread(s) \in Seq(Requests)
           /\ Len(Unread(s)) = Len(commands) - s.read
           /\ \A i \in 1 .. Len(Unread(s)) : /\ i + s.read \in DOMAIN commands
                                             /\ Unread(s)[i] = commands[i + s.read]
<1> DEFINE k == s.read
           n == Len(commands)
<1>1. k \in Nat /\ n \in Nat /\ k <= n /\ commands \in Seq(Requests) /\ DOMAIN commands = 1 .. n
    BY DEF CallsMade
<1>2. Unread(s) = SubSeq(commands, k + 1, n)
    BY DEF Unread
<1>3. /\ \A i \in k + 1 .. n : commands[i] \in Requests
      /\ Unread(s) = [i \in 1 .. n - k |-> commands[i + k]]
    <2>1. n - (k + 1) + 1 = n - k /\ \A i \in 1 .. n - k : i + (k + 1) - 1 = i + k
        BY <1>1
    <2> HIDE DEF k, n
    <2> QED
        BY <1>1, <1>2, <2>1
<1>4. \A i \in 1 .. n - k : i + k \in k + 1 .. n /\ i + k \in 1 .. n
    BY <1>1
<1>5. n - k \in Nat
    BY <1>1
<1> HIDE DEF k, n
<1>6. Unread(s) \in [1 .. n - k -> Requests]
    BY <1>3, <1>4
<1>7. Unread(s) \in Seq(Requests) /\ Len(Unread(s)) = n - k
    BY <1>5, <1>6
<1> QED
    BY <1>1, <1>3, <1>4, <1>7 DEF k, n

(* The commands that name a request are one at most.                       *)
LEMMA NamedOnce ==
    ASSUME CallsMade, NEW s, s.read \in Nat, s.read <= Len(commands), NEW r \in Ids
    PROVE  LET rest == Unread(s)
           IN  Cardinality({i \in DOMAIN rest : rest[i].request = r})
                   = IF Queued(s, r) THEN 1 ELSE 0
<1> DEFINE rest == Unread(s)
           S == {i \in DOMAIN rest : rest[i].request = r}
           k == s.read
<1>1. /\ rest \in Seq(Requests) /\ DOMAIN rest = 1 .. Len(rest) /\ Len(rest) = Len(commands) - k
      /\ \A i \in 1 .. Len(rest) : i + k \in DOMAIN commands /\ rest[i] = commands[i + k]
    BY UnreadIs
<1>2. /\ k \in Nat /\ Len(commands) \in Nat /\ DOMAIN commands = 1 .. Len(commands)
      /\ r \in Nat /\ r # 0
    BY DEF CallsMade, Ids
<1> HIDE DEF rest, k
<1>3. ASSUME NEW i \in S, NEW j \in S
      PROVE  i = j
    <2>1. /\ i + k \in DOMAIN commands /\ j + k \in DOMAIN commands
          /\ commands[i + k].request = commands[j + k].request /\ commands[i + k].request # 0
        BY <1>1, <1>2
    <2>2. i + k = j + k
        BY <2>1 DEF CallsMade
    <2> QED
        BY <1>1, <1>2, <2>2
<1>4. S = {} <=> ~Queued(s, r)
    <2>1. ASSUME NEW i \in S PROVE Queued(s, r)
        <3>1. i + k \in DOMAIN commands /\ commands[i + k].request = r /\ i + k > k
            BY <1>1, <1>2
        <3> QED
            BY <3>1 DEF Queued, k
    <2>2. ASSUME Queued(s, r) PROVE S # {}
        <3>1. PICK j \in DOMAIN commands : j > k /\ commands[j].request = r
            BY <2>2 DEF Queued, k
        <3>2. j - k \in 1 .. Len(rest) /\ j - k + k = j
            BY <1>1, <1>2, <3>1
        <3>3. j - k \in S
            BY <1>1, <3>1, <3>2
        <3> QED
            BY <3>3
    <2> HIDE DEF S
    <2> QED
        BY <2>1, <2>2
<1> HIDE DEF S
<1>5. CASE S = {}
    BY <1>4, <1>5, FS_EmptySet DEF S, rest
<1>6. CASE S # {}
    <2>1. PICK i \in S : S = {i}
        BY <1>3, <1>6
    <2>2. Cardinality(S) = 1
        BY <2>1, FS_Singleton
    <2> QED
        BY <1>4, <1>6, <2>2 DEF S, rest
<1> QED
    BY <1>5, <1>6

(* What was queued for a socket that ended is answered with it.            *)
LEMMA DismissIs ==
    ASSUME CallsMade, NEW s, Sound(s)
    PROVE  LET v == Dismiss(s)
           IN  /\ v \in Sockets /\ Alike(s, v, {"answers"})
               /\ \A r \in Ids : v.answers[r] = IF s.phase = "removed" /\ Queued(s, r)
                                                THEN 1 ELSE s.answers[r]
<1> DEFINE rest == Unread(s)
           named(r) == {i \in DOMAIN rest : rest[i].request = r}
           told == [r \in Ids |-> s.answers[r] + Cardinality(named(r))]
           v == [s EXCEPT !.answers = told]
<1>1. s \in Sockets /\ s.read \in Nat /\ s.read <= Len(commands)
    BY DEF Sound, Young, Sockets
<1>2. \A r \in Ids : s.answers[r] \in {0, 1} /\ (s.answers[r] = 1 => ~Queued(s, r))
    BY DEF Sound, Accounted
<1>3. CASE s.phase # "removed"
    <2>1. Dismiss(s) = s
        BY <1>3 DEF Dismiss
    <2> QED
        BY <1>1, <1>3, <2>1 DEF Alike
<1>4. CASE s.phase = "removed"
    <2>1. Dismiss(s) = v
        BY <1>1, <1>4 DEF Dismiss, Abandon, Fail, Sockets
    <2>2. ASSUME NEW r \in Ids
          PROVE  Cardinality(named(r)) = IF Queued(s, r) THEN 1 ELSE 0
        BY <1>1, NamedOnce
    <2>3. \A r \in Ids : told[r] = s.answers[r] + IF Queued(s, r) THEN 1 ELSE 0
        BY <2>2
    <2> HIDE DEF named, rest
    <2>4. \A r \in Ids : told[r] = IF Queued(s, r) THEN 1 ELSE s.answers[r]
        BY <1>2, <2>3
    <2>5. told \in [Ids -> Nat]
        <3>1. \A r \in Ids : s.answers[r] + Cardinality(named(r)) \in Nat
            BY <1>2, <2>2
        <3> QED
            BY <3>1
    <2> HIDE DEF told
    <2>6. v \in Sockets
        BY <1>1, <2>5, SocketsAre DEF Typed, Answerings
    <2>7. Alike(s, v, {"answers"}) /\ v.answers = told
        BY <1>1 DEF Sockets, Alike, Fields
    <2> QED
        BY <1>4, <2>1, <2>4, <2>6, <2>7
<1> QED
    BY <1>3, <1>4

LEMMA LeaveKeepsCalls ==
    ASSUME CallsMade, NEW v, v.read \in Nat, v.read <= Len(commands), NEW takes,
           Leave(v, takes), UNCHANGED asked
    PROVE  /\ CallsMade'
           /\ \A r : (\E i \in DOMAIN commands' : commands'[i].request = r)
                        <=> v.phase # "removed" /\ Queued(v, r)
<1> DEFINE rest == Unread(v)
           k == v.read
<1>1. /\ rest \in Seq(Requests) /\ DOMAIN rest = 1 .. Len(rest) /\ Len(rest) = Len(commands) - k
      /\ \A i \in 1 .. Len(rest) : i + k \in DOMAIN commands /\ rest[i] = commands[i + k]
    BY UnreadIs
<1>2. /\ k \in Nat /\ Len(commands) \in Nat /\ DOMAIN commands = 1 .. Len(commands)
      /\ asked' = asked
    BY DEF CallsMade
<1>3. commands' = IF v.phase = "removed" THEN <<>> ELSE rest
    BY DEF Leave
<1> HIDE DEF rest, k
<1>4. CASE v.phase = "removed"
    BY <1>2, <1>3, <1>4 DEF CallsMade
<1>5. CASE v.phase # "removed"
    <2>1. commands' = rest
        BY <1>3, <1>5
    <2>2. ASSUME NEW i \in DOMAIN rest, NEW j \in DOMAIN rest,
                 rest[i].request = rest[j].request /\ rest[i].request # 0
          PROVE  i = j
        <3>1. /\ i + k \in DOMAIN commands /\ j + k \in DOMAIN commands
              /\ commands[i + k].request = commands[j + k].request /\ commands[i + k].request # 0
            BY <1>1, <2>2
        <3>2. i + k = j + k
            BY <3>1 DEF CallsMade
        <3> QED
            BY <1>1, <1>2, <3>2
    <2>3. ASSUME NEW i \in DOMAIN rest
          PROVE  LET c == rest[i]
                 IN  IF c.kind \in {"close", "interrupt"} THEN c.request = 0
                     ELSE /\ c.request \in DOMAIN asked
                          /\ asked[c.request] = [kind |-> c.kind, topic |-> c.topic]
        BY <1>1 DEF CallsMade
    <2>4. CallsMade'
        BY <1>1, <1>2, <2>1, <2>2, <2>3 DEF CallsMade
    <2>5. ASSUME NEW r, NEW i \in DOMAIN rest, rest[i].request = r
          PROVE  Queued(v, r)
        <3>1. i + k \in DOMAIN commands /\ commands[i + k].request = r /\ i + k > k
            BY <1>1, <1>2, <2>5
        <3> QED
            BY <3>1 DEF Queued, k
    <2>6. ASSUME NEW r, Queued(v, r)
          PROVE  \E i \in DOMAIN rest : rest[i].request = r
        <3>1. PICK j \in DOMAIN commands : j > k /\ commands[j].request = r
            BY <2>6 DEF Queued, k
        <3>2. j - k \in 1 .. Len(rest) /\ j - k + k = j
            BY <1>1, <1>2, <3>1
        <3> QED
            BY <1>1, <3>1, <3>2
    <2> QED
        BY <1>5, <2>1, <2>4, <2>5, <2>6
<1> QED
    BY <1>4, <1>5

(* What is in a queue that was added to was there or is new.               *)
LEMMA OneOrTheOther ==
    ASSUME NEW S, NEW a \in Seq(S), NEW b \in Seq(S), NEW i \in DOMAIN (a \o b)
    PROVE  \/ i \in DOMAIN a /\ (a \o b)[i] = a[i]
           \/ \E j \in DOMAIN b : (a \o b)[i] = b[j]
<1> DEFINE n == Len(a)
           c == a \o b
<1>1. n \in Nat /\ Len(b) \in Nat /\ DOMAIN a = 1 .. n /\ DOMAIN b = 1 .. Len(b)
    OBVIOUS
<1>2. c \in Seq(S) /\ Len(c) = n + Len(b) /\ DOMAIN c = 1 .. n + Len(b)
    OBVIOUS
<1>3. \A j \in 1 .. n + Len(b) : c[j] = IF j <= n THEN a[j] ELSE b[j - n]
    OBVIOUS
<1> HIDE DEF n, c
<1>4. i \in 1 .. n + Len(b)
    BY <1>2 DEF c
<1>5. CASE i <= n
    BY <1>1, <1>3, <1>4, <1>5 DEF c
<1>6. CASE ~(i <= n)
    <2>1. i - n \in 1 .. Len(b)
        BY <1>1, <1>4, <1>6
    <2> QED
        BY <1>1, <1>3, <1>4, <1>6, <2>1 DEF c
<1> QED
    BY <1>5, <1>6

LEMMA EmptyServers ==
    /\ NewServer \in Servers /\ NewServer.inbox = <<>> /\ NewServer.state = "dialing"
    /\ NoServer \in Servers /\ NoServer.inbox = <<>> /\ NoServer.state = "none"
<1>1. <<>> \in Seq(Frames) /\ {} \in SUBSET Channels /\ 0 \in Nat
    OBVIOUS
<1>2. NewServer \in Servers /\ NewServer.inbox = <<>> /\ NewServer.state = "dialing"
    BY <1>1 DEF NewServer, Servers
<1>3. NoServer = [NewServer EXCEPT !.state = "none"]
    BY DEF NoServer
<1>4. NoServer \in Servers
    BY <1>2, <1>3 DEF Servers
<1>5. NoServer.inbox = <<>> /\ NoServer.state = "none"
    BY <1>2, <1>3 DEF Servers
<1> QED
    BY <1>2, <1>4, <1>5

(* The frames of a step, and the connection it leaves or makes.            *)
LEMMA LeaveKeepsWires ==
    ASSUME Inv, NEW v \in Sockets, Owned(v), NEW takes, Leave(v, takes),
           sock.phase = "live" /\ v.phase = "live" => (v.link.opened <=> Opening),
           sock.phase # "live" /\ v.phase = "live" => v.link = Link
    PROVE  Wired'
<1>1. /\ sock'.phase = v.phase /\ sock'.link = v.link /\ v.sent \in Seq(Frames)
      /\ v.link.opened \in BOOLEAN
    BY DEF Leave, Sockets, Connections
<1>2. wire \in Seq(Events) /\ server \in Servers /\ Wired /\ server.inbox \in Seq(Frames)
    BY DEF Inv, Wired, Servers
<1>3. /\ NewServer \in Servers /\ NewServer.inbox = <<>> /\ NewServer.state = "dialing"
      /\ NoServer \in Servers /\ NoServer.inbox = <<>> /\ NoServer.state = "none"
    BY EmptyServers
<1>4. CASE sock.phase = "live" /\ v.phase = "live" /\ takes
    <2> DEFINE inbox == server.inbox \o v.sent
    <2>1. wire' = <<>> /\ server' = [server EXCEPT !.inbox = inbox]
        BY <1>4 DEF Leave
    <2>2. inbox \in Seq(Frames)
        BY <1>1, <1>2
    <2>3. ASSUME NEW i \in DOMAIN inbox
          PROVE  inbox[i].kind # "beat" => inbox[i].ref # NoRef
        <3>1. \/ i \in DOMAIN server.inbox /\ inbox[i] = server.inbox[i]
              \/ \E j \in DOMAIN v.sent : inbox[i] = v.sent[j]
            <4>1. /\ server.inbox \in Seq(Frames) /\ v.sent \in Seq(Frames)
                  /\ i \in DOMAIN (server.inbox \o v.sent)
                BY <1>1, <1>2
            <4> QED
                BY <4>1, OneOrTheOther, Zenon
        <3> HIDE DEF inbox
        <3> QED
            BY <1>2, <1>4, <3>1 DEF Wired, Owned
    <2> HIDE DEF inbox
    <2>4. server' \in Servers /\ server'.inbox = inbox /\ server'.state = server.state
        BY <1>2, <2>1, <2>2 DEF Servers
    <2>5. Opening' <=> Opening
        BY <1>1, <1>4, <2>1 DEF Opening
    <2> QED
        BY <1>1, <1>2, <1>4, <2>1, <2>3, <2>4, <2>5 DEF Wired
<1>5. CASE sock.phase = "live" /\ v.phase = "live" /\ ~takes
    <2> DEFINE e == [kind |-> "closed"]
               gone == [server EXCEPT !.state = "gone", !.inbox = <<>>]
    <2>1. wire' = <<e>> /\ server' = gone
        BY <1>5 DEF Leave
    <2>2. e \in Events /\ e.kind = "closed"
        BY DEF Events
    <2>3. gone \in Servers /\ gone.state = "gone" /\ gone.inbox = <<>>
        <3>1. <<>> \in Seq(Frames)
            OBVIOUS
        <3> QED
            BY <1>2, <3>1 DEF Servers
    <2> HIDE DEF e, gone
    <2>4. <<e>> \in Seq(Events) /\ DOMAIN <<e>> = {1} /\ <<e>>[1] = e
        BY <2>2
    <2> QED
        BY <1>1, <1>5, <2>1, <2>2, <2>3, <2>4 DEF Wired
<1>6. CASE ~(sock.phase = "live" /\ v.phase = "live")
    <2>1. wire' = <<>> /\ server' = IF v.phase = "live" THEN NewServer ELSE NoServer
        BY <1>6 DEF Leave
    <2>2. v.phase = "live" => ~v.link.opened
        BY <1>6 DEF Link
    <2>3. v.phase = "live" => ~Opening'
        BY <1>1, <2>1, <2>2 DEF Opening
    <2> QED
        BY <1>1, <1>3, <2>1, <2>3 DEF Wired
<1> QED
    BY <1>4, <1>5, <1>6

(* A step of the socket, from what its stages left.                        *)
LEMMA LeaveKeepsInv ==
    ASSUME Inv, NEW u, Sound(u), NEW takes, Leave(Dismiss(u), takes), UNCHANGED asked,
           sock.phase = "live" /\ u.phase = "live" => (u.link.opened <=> Opening),
           sock.phase # "live" /\ u.phase = "live" => u.link = Link
    PROVE  Inv'
<1>0. PICK v : v = Dismiss(u)
    OBVIOUS
<1> DEFINE none == <<>>
           z == 0
           rest == FALSE
           stay == "stay"
           w == [v EXCEPT !.sent = none, !.read = z, !.next = stay, !.takes = rest]
<1>1. /\ u \in Sockets /\ Young(u) /\ Parted(u) /\ Owned(u) /\ Accounted(u) /\ Placed(u)
      /\ CallsMade
    BY DEF Inv, Sound
<1>2. /\ v \in Sockets /\ Alike(u, v, {"answers"})
      /\ \A r \in Ids : v.answers[r] = IF u.phase = "removed" /\ Queued(u, r)
                                       THEN 1 ELSE u.answers[r]
    BY <1>0, <1>1, DismissIs
<1>3. Leave(v, takes) /\ sock' = w
    BY <1>0 DEF Leave
<1>4. none \in Seq(Frames) /\ z \in Nat /\ rest \in BOOLEAN
      /\ stay \in {"stay", "drop", "refused", "closed"}
    OBVIOUS
<1>5. none = <<>> /\ DOMAIN none = {} /\ z = 0 /\ rest = FALSE /\ stay = "stay"
    OBVIOUS
<1> HIDE DEF none, z, rest, stay
<1>6. w \in Sockets
    <2> DEFINE x == [v EXCEPT !.sent = none, !.read = z]
               y == [x EXCEPT !.next = stay]
    <2>1. v \in Sockets
        BY <1>2
    <2>2. x \in Sockets
        BY <1>4, <2>1, SocketsAre DEF Typed, Sendings
    <2>3. w = [y EXCEPT !.takes = rest]
        BY <2>1 DEF Sockets
    <2> HIDE DEF x, w
    <2>4. y \in Sockets
        BY <1>4, <2>2, SocketsAre DEF Typed, Nexts
    <2> HIDE DEF y
    <2>5. [y EXCEPT !.takes = rest] \in Sockets
        BY <1>4, <2>4, TakesIsTyped, Zenon
    <2> QED
        BY <2>3, <2>5
<1>7. Alike(v, w, {"sent", "read", "next", "takes"})
    BY <1>2 DEF Sockets, Alike, Fields
<1>8. w.sent = none /\ w.read = z /\ w.next = stay /\ w.takes = rest
    BY <1>2 DEF Sockets
<1> HIDE DEF w
<1>9. Alike(u, w, {"answers", "sent", "read", "next", "takes"}) /\ w.answers = v.answers
    BY <1>2, <1>7 DEF Alike, Fields
<1>10. v.phase = u.phase /\ v.link = u.link /\ v.read = u.read /\ v.sent = u.sent
    BY <1>2 DEF Alike, Fields
<1>11. v.read \in Nat /\ v.read <= Len(commands)
    BY <1>1, <1>10 DEF Young, Sockets
<1>12. /\ CallsMade'
       /\ \A r : (\E i \in DOMAIN commands' : commands'[i].request = r)
                    <=> u.phase # "removed" /\ Queued(u, r)
    <2>1. /\ CallsMade'
          /\ \A r : (\E i \in DOMAIN commands' : commands'[i].request = r)
                       <=> v.phase # "removed" /\ Queued(v, r)
        BY <1>1, <1>3, <1>11, LeaveKeepsCalls
    <2>2. \A r : Queued(v, r) <=> Queued(u, r)
        BY <1>10 DEF Queued
    <2> QED
        BY <1>10, <2>1, <2>2
<1>13. Owned(v)
    BY <1>1, <1>2 DEF Owned, Its, Alike, Fields
<1>14. Wired'
    BY <1>2, <1>3, <1>10, <1>13, LeaveKeepsWires
<1>15. AtRest'
    BY <1>3, <1>5, <1>8 DEF AtRest
<1>16. Young(w)'
    <2>1. Len(commands') \in Nat
        BY <1>12 DEF CallsMade
    <2> QED
        BY <1>1, <1>5, <1>8, <1>9, <2>1 DEF Young, Alike, Fields
<1>17. Parted(w)
    BY <1>1, <1>9 DEF Parted, Alike, Fields
<1>18. Placed(w)
    BY <1>1, <1>9 DEF Placed, Ready, Alike, Fields
<1>19. Accounted(w)'
    <2>1. w.pending = u.pending /\ w.read = 0 /\ asked' = asked
        BY <1>5, <1>8, <1>9 DEF Alike, Fields
    <2>2. ASSUME NEW r
          PROVE  (Queued(w, r)' <=> u.phase # "removed" /\ Queued(u, r)) /\ (Waits(w, r) <=> Waits(u, r))
        <3>1. \A i \in DOMAIN commands' : i > 0
            BY <1>12 DEF CallsMade
        <3> QED
            BY <1>12, <2>1, <3>1 DEF Queued, Waits
    <2>3. u.phase = "removed" => \A r : ~Waits(u, r)
        BY <1>1 DEF Young, Link, Waits
    <2>4. ASSUME NEW r \in Ids
          PROVE  /\ w.answers[r] \in {0, 1}
                 /\ r \in DOMAIN asked /\ w.answers[r] = 0 => Queued(w, r)' \/ Waits(w, r)
                 /\ w.answers[r] = 1 => r \in DOMAIN asked /\ ~Queued(w, r)'
                 /\ Waits(w, r) => w.answers[r] = 0 /\ ~Queued(w, r)'
        <3>1. w.answers[r] = IF u.phase = "removed" /\ Queued(u, r) THEN 1 ELSE u.answers[r]
            BY <1>2, <1>9
        <3>2. Queued(u, r) => r \in DOMAIN asked
            <4>1. r # 0
                BY DEF Ids
            <4> QED
                BY <1>1, <4>1 DEF CallsMade, Queued
        <3>3. /\ u.answers[r] \in {0, 1}
              /\ r \in DOMAIN asked /\ u.answers[r] = 0 => Queued(u, r) \/ Waits(u, r)
              /\ u.answers[r] = 1 => r \in DOMAIN asked /\ ~Queued(u, r)
              /\ Waits(u, r) => u.answers[r] = 0 /\ ~Queued(u, r)
            BY <1>1 DEF Accounted
        <3> QED
            BY <2>2, <2>3, <3>1, <3>2, <3>3
    <2>5. \A p \in w.pending : p[2] \in DOMAIN asked'
        BY <1>1, <2>1 DEF Accounted
    <2>6. \A p, q \in w.pending : p[2] = q[2] => p = q
        BY <1>1, <2>1 DEF Accounted
    <2> QED
        BY <2>1, <2>4, <2>5, <2>6 DEF Accounted, Waits
<1>20. Owned(w)'
    <2>1. /\ w.phase = u.phase /\ w.link = u.link /\ w.pending = u.pending /\ w.amiss = u.amiss
          /\ DOMAIN w.sent = {}
        BY <1>5, <1>8, <1>9 DEF Alike, Fields
    <2>2. /\ "crossed" \notin w.amiss
          /\ \A p \in w.pending : p[1] \in 1 .. w.link.nextRef - 1
          /\ \A p, q \in w.pending : p[1] = q[1] => p = q
        BY <1>1, <2>1 DEF Owned
    <2>3. ASSUME w.phase = "live"
          PROVE  /\ \A i \in DOMAIN server'.inbox :
                        Its(w, server'.inbox[i].ref, server'.inbox[i].request)
                 /\ \A i \in DOMAIN wire' : wire'[i].kind # "reply"
        <3> DEFINE Fine(f) == Its(u, f.ref, f.request)
        <3>1. \A i \in DOMAIN u.sent : Fine(u.sent[i])
            BY <1>1, <2>1, <2>3 DEF Owned
        <3>2. CASE sock.phase = "live"
            <4>1. \A i \in DOMAIN server.inbox : Fine(server.inbox[i])
                BY <1>1, <2>1, <2>3 DEF Owned
            <4>2. CASE takes
                <5>1. wire' = <<>> /\ server' = [server EXCEPT !.inbox = server.inbox \o u.sent]
                    BY <1>3, <1>10, <2>1, <2>3, <3>2, <4>2 DEF Leave
                <5>2. server \in Servers /\ server.inbox \in Seq(Frames) /\ u.sent \in Seq(Frames)
                    BY <1>1 DEF Inv, Wired, Servers, Sockets
                <5>3. server'.inbox = server.inbox \o u.sent
                    BY <5>1, <5>2 DEF Servers
                <5>4. ASSUME NEW i \in DOMAIN (server.inbox \o u.sent)
                      PROVE  Fine((server.inbox \o u.sent)[i])
                    <6>1. \/ i \in DOMAIN server.inbox /\ (server.inbox \o u.sent)[i] = server.inbox[i]
                          \/ \E j \in DOMAIN u.sent : (server.inbox \o u.sent)[i] = u.sent[j]
                        BY <5>2, <5>4, OneOrTheOther, Zenon
                    <6> HIDE DEF Fine
                    <6> QED
                        BY <3>1, <4>1, <6>1
                <5>5. \A i \in DOMAIN server'.inbox : Fine(server'.inbox[i])
                    <6> HIDE DEF Fine
                    <6> QED
                        BY <5>3, <5>4, Zenon
                <5>6. \A f : Its(w, f.ref, f.request) <=> Fine(f)
                    BY <2>1 DEF Its
                <5>7. \A i \in DOMAIN server'.inbox : Its(w, server'.inbox[i].ref, server'.inbox[i].request)
                    <6> HIDE DEF Fine
                    <6> QED
                        BY <5>5, <5>6, Zenon
                <5>8. \A i \in DOMAIN wire' : wire'[i].kind # "reply"
                    <6>1. wire' = <<>>
                        BY <5>1
                    <6> QED
                        BY <6>1
                <5> QED
                    BY <5>7, <5>8
            <4>3. CASE ~takes
                <5>1. wire' = <<[kind |-> "closed"]>>
                      /\ server' = [server EXCEPT !.state = "gone", !.inbox = <<>>]
                    BY <1>3, <1>10, <2>1, <2>3, <3>2, <4>3 DEF Leave
                <5>2. server'.inbox = <<>>
                    BY <5>1 DEF Inv, Wired, Servers
                <5> QED
                    BY <5>1, <5>2
            <4> QED
                BY <4>2, <4>3
        <3>3. CASE sock.phase # "live"
            <4>1. wire' = <<>> /\ server' = NewServer
                BY <1>3, <1>10, <2>1, <2>3, <3>3 DEF Leave
            <4> QED
                BY <4>1, EmptyServers
        <3> QED
            BY <3>2, <3>3
    <2> QED
        BY <2>1, <2>2, <2>3 DEF Owned, Its
<1>21. Sound(w)'
    <2>1. (w \in Sockets)' /\ Parted(w)' /\ Placed(w)'
        BY <1>6, <1>17, <1>18
    <2> QED
        BY <1>16, <1>19, <1>20, <2>1 DEF Sound
<1> QED
    BY <1>3, <1>12, <1>14, <1>15, <1>21 DEF Inv

LEMMA StepKeepsInv ==
    ASSUME Inv, NEW takes \in BOOLEAN, NEW ready, NEW beat, NEW due \in BOOLEAN, NEW token,
           Step(takes, ready, beat, due, token)
    PROVE  Inv'
<1> DEFINE closing == \E e \in Received : e.kind \in {"refused", "closed"}
           u == Stepped(takes /\ ~closing, ready, beat, due, token)
<1>1. /\ Leave(Dismiss(u), takes) /\ UNCHANGED asked /\ sock.phase # "removed"
    BY DEF Step
<1>2. PICK open \in BOOLEAN : open = (takes /\ ~closing)
    OBVIOUS
<1> HIDE DEF closing
<1>3. PICK w : w = u
    OBVIOUS
<1>4. /\ Sound(w)
      /\ sock.phase = "live" /\ w.phase = "live" => (w.link.opened <=> Opening)
      /\ sock.phase # "live" /\ w.phase = "live" => w.link = Link
    <2>1. w = Stepped(open, ready, beat, due, token)
        BY <1>2, <1>3
    <2> HIDE DEF u
    <2> QED
        BY <1>1, <2>1, SteppedIsSound
<1>5. Leave(Dismiss(w), takes)
    BY <1>1, <1>3
<1> HIDE DEF u
<1> QED
    BY <1>1, <1>4, <1>5, LeaveKeepsInv

-----------------------------------------------------------------------------
(* The game's calls.                                                       *)

(* What is added to a queue comes last.                                    *)
Grown(a, b, e, n) ==
    /\ Len(b) = n /\ DOMAIN b = 1 .. n
    /\ \A i \in DOMAIN a : i \in DOMAIN b /\ b[i] = a[i]
    /\ n \in DOMAIN b /\ b[n] = e
    /\ \A i \in DOMAIN b : i \in DOMAIN a \/ i = n
    /\ Len(a) \in Nat

LEMMA Added ==
    ASSUME NEW S, NEW a \in Seq(S), NEW e \in S
    PROVE  Append(a, e) \in Seq(S) /\ Grown(a, Append(a, e), e, Len(a) + 1)
<1>1. Append(a, e) \in Seq(S)
    OBVIOUS
<1>2. Grown(a, Append(a, e), e, Len(a) + 1)
    BY DEF Grown
<1> QED
    BY <1>1, <1>2

(* A socket that changed in what the game minds only.                      *)
LEMMA MinedIs ==
    ASSUME NEW mine \in SUBSET Topics, sock \in Sockets
    PROVE  [sock EXCEPT !.mine = mine] \in Sockets
           /\ Alike(sock, [sock EXCEPT !.mine = mine], {"mine"})
<1> DEFINE u == [sock EXCEPT !.mine = mine]
<1>1. u \in Sockets
    BY SocketsAre DEF Typed, TopicSets
<1>2. Alike(sock, u, {"mine"})
    BY DEF Sockets, Alike, Fields
<1> QED
    BY <1>1, <1>2

(* The queue, the calls and what the game minds are the game's own.        *)
LEMMA AskingKeepsRest ==
    ASSUME Inv, CallsMade', sock' \in Sockets, Alike(sock, sock', {"mine"}),
           Len(commands') >= Len(commands), UNCHANGED <<wire, server>>, Accounted(sock)'
    PROVE  Inv'
<1>1. /\ Young(sock) /\ Parted(sock) /\ Owned(sock) /\ Placed(sock) /\ Wired /\ AtRest /\ CallsMade
    BY DEF Inv, Sound
<1>2. AtRest'
    BY <1>1 DEF AtRest, Alike, Fields
<1>3. Young(sock)'
    <2>1. sock'.read = 0 /\ Len(commands') \in Nat
        BY <1>2 DEF AtRest, CallsMade
    <2> QED
        BY <1>1, <2>1 DEF Young, Alike, Fields
<1>4. Parted(sock)'
    BY <1>1 DEF Parted, Alike, Fields
<1>5. Owned(sock)'
    <2>1. /\ sock'.phase = sock.phase /\ sock'.link = sock.link /\ sock'.pending = sock.pending
          /\ sock'.sent = sock.sent /\ sock'.amiss = sock.amiss /\ server' = server /\ wire' = wire
        BY DEF Alike, Fields
    <2> QED
        BY <1>1, <2>1 DEF Owned, Its
<1>6. Placed(sock)'
    BY <1>1 DEF Placed, Ready, Alike, Fields
<1>7. Wired'
    <2>1. sock'.phase = sock.phase /\ sock'.link = sock.link /\ server' = server /\ wire' = wire
        BY DEF Alike, Fields
    <2> QED
        BY <1>1, <2>1 DEF Wired, Opening
<1> QED
    BY <1>2, <1>3, <1>4, <1>5, <1>6, <1>7 DEF Inv, Sound

LEMMA CallKeepsInv ==
    ASSUME Inv, NEW c \in Calls, Call(c.kind, c.topic)
    PROVE  Inv'
<1> DEFINE n == Len(asked) + 1
           m == Len(commands) + 1
           e == [kind |-> c.kind, topic |-> c.topic]
           q == [kind |-> c.kind, topic |-> c.topic, request |-> n]
<1>1. /\ sock \in Sockets /\ Accounted(sock) /\ CallsMade /\ AtRest
      /\ asked \in Seq(Calls) /\ commands \in Seq(Requests)
    BY DEF Inv, Sound, CallsMade
<1>2. /\ asked' = Append(asked, e) /\ commands' = Append(commands, q) /\ UNCHANGED <<wire, server>>
      /\ Len(asked) < MaxRequests
      /\ sock' = IF c.kind = "leave" THEN [sock EXCEPT !.mine = @ \ {c.topic}] ELSE sock
    BY DEF Call
<1>3. /\ e = c /\ c.kind \in {"join", "push", "leave"} /\ c.topic \in Channels
    BY RtConstants DEF Channels
<1>4. n \in Nat /\ n # 0 /\ n \in Ids /\ n \notin DOMAIN asked /\ Len(asked) \in Nat
    <2>1. Len(asked) \in Nat /\ DOMAIN asked = 1 .. Len(asked)
        BY <1>1
    <2> QED
        BY <1>2, <2>1, RtConstants DEF Ids
<1>5. q \in Requests /\ q.request = n /\ q.kind = c.kind /\ q.topic = c.topic
    BY <1>3, <1>4 DEF Requests
<1> HIDE DEF e, q
<1>6. /\ asked' \in Seq(Calls) /\ Len(asked') = n /\ DOMAIN asked' = 1 .. n
      /\ \A i \in DOMAIN asked : i \in DOMAIN asked' /\ asked'[i] = asked[i]
      /\ n \in DOMAIN asked' /\ asked'[n] = c
      /\ \A i \in DOMAIN asked' : i \in DOMAIN asked \/ i = n
    <2>1. Append(asked, e) \in Seq(Calls) /\ Grown(asked, Append(asked, e), e, n)
        BY <1>1, <1>3, Added, Zenon
    <2>2. asked' \in Seq(Calls) /\ Grown(asked, asked', c, n)
        BY <1>2, <1>3, <2>1, Zenon
    <2> HIDE DEF n
    <2> QED
        BY <2>2 DEF Grown
<1>7. /\ commands' \in Seq(Requests) /\ Len(commands') = m
      /\ \A i \in DOMAIN commands : i \in DOMAIN commands' /\ commands'[i] = commands[i]
      /\ m \in DOMAIN commands' /\ commands'[m] = q
      /\ \A i \in DOMAIN commands' : i \in DOMAIN commands \/ i = m
      /\ Len(commands) \in Nat
    <2>1. Append(commands, q) \in Seq(Requests) /\ Grown(commands, Append(commands, q), q, m)
        BY <1>1, <1>5, Added, Zenon
    <2>2. commands' \in Seq(Requests) /\ Grown(commands, commands', q, m)
        BY <1>2, <2>1, Zenon
    <2> HIDE DEF m
    <2> QED
        BY <2>2 DEF Grown
<1>8. Len(commands') >= Len(commands) /\ Len(asked') <= MaxRequests
    BY <1>2, <1>4, <1>6, <1>7, RtConstants
<1>9. \A i \in DOMAIN commands : commands[i].request # n
    BY <1>1, <1>4 DEF CallsMade
<1> HIDE DEF n, m
<1>10. CallsMade'
    <2>1. ASSUME NEW i \in DOMAIN commands'
          PROVE  LET d == commands'[i]
                 IN  IF d.kind \in {"close", "interrupt"} THEN d.request = 0
                     ELSE /\ d.request \in DOMAIN asked'
                          /\ asked'[d.request] = [kind |-> d.kind, topic |-> d.topic]
        <3>1. CASE i \in DOMAIN commands
            BY <1>1, <1>6, <1>7, <3>1 DEF CallsMade
        <3>2. CASE i = m
            BY <1>3, <1>5, <1>6, <1>7, <3>2 DEF e
        <3> QED
            BY <1>7, <3>1, <3>2
    <2>2. ASSUME NEW i \in DOMAIN commands', NEW j \in DOMAIN commands',
                 commands'[i].request = commands'[j].request /\ commands'[i].request # 0
          PROVE  i = j
        <3>1. CASE i \in DOMAIN commands /\ j \in DOMAIN commands
            BY <1>1, <1>7, <2>2, <3>1 DEF CallsMade
        <3>2. CASE i = m /\ j \in DOMAIN commands
            BY <1>5, <1>7, <1>9, <2>2, <3>2
        <3>3. CASE j = m /\ i \in DOMAIN commands
            BY <1>5, <1>7, <1>9, <2>2, <3>3
        <3> QED
            BY <1>7, <3>1, <3>2, <3>3
    <2> QED
        BY <1>6, <1>7, <1>8, <2>1, <2>2 DEF CallsMade
<1>11. sock' \in Sockets /\ Alike(sock, sock', {"mine"})
    <2>1. CASE c.kind = "leave"
        <3> DEFINE mine == sock.mine \ {c.topic}
        <3>1. sock' = [sock EXCEPT !.mine = mine]
            BY <1>2, <2>1
        <3>2. mine \in SUBSET Topics
            BY <1>1 DEF Sockets
        <3> HIDE DEF mine
        <3> QED
            BY <1>1, <3>1, <3>2, MinedIs
    <2>2. CASE c.kind # "leave"
        BY <1>1, <1>2, <2>2 DEF Alike
    <2> QED
        BY <2>1, <2>2
<1>12. Accounted(sock)'
    <2>1. sock'.pending = sock.pending /\ sock'.answers = sock.answers /\ sock'.read = 0 /\ sock.read = 0
        BY <1>1, <1>11 DEF AtRest, Alike, Fields
    <2>2. ASSUME NEW r
          PROVE  (Queued(sock, r)' <=> Queued(sock, r) \/ r = n) /\ (Waits(sock, r)' <=> Waits(sock, r))
        <3>1. \A i \in DOMAIN commands' : i > 0
            BY <1>7
        <3>2. \A i \in DOMAIN commands : i > 0
            BY <1>1
        <3> QED
            BY <1>5, <1>7, <2>1, <3>1, <3>2 DEF Queued, Waits
    <2>3. ~Waits(sock, n)
        BY <1>1, <1>4 DEF Accounted, Waits
    <2>4. ASSUME NEW r \in Ids
          PROVE  /\ sock.answers[r] \in {0, 1}
                 /\ r \in DOMAIN asked' /\ sock.answers[r] = 0 => Queued(sock, r)' \/ Waits(sock, r)'
                 /\ sock.answers[r] = 1 => r \in DOMAIN asked' /\ ~Queued(sock, r)'
                 /\ Waits(sock, r)' => sock.answers[r] = 0 /\ ~Queued(sock, r)'
        <3>1. /\ sock.answers[r] \in {0, 1}
              /\ r \in DOMAIN asked /\ sock.answers[r] = 0 => Queued(sock, r) \/ Waits(sock, r)
              /\ sock.answers[r] = 1 => r \in DOMAIN asked /\ ~Queued(sock, r)
              /\ Waits(sock, r) => sock.answers[r] = 0 /\ ~Queued(sock, r)
            BY <1>1 DEF Accounted
        <3>2. r \in DOMAIN asked' <=> r \in DOMAIN asked \/ r = n
            BY <1>6
        <3> QED
            BY <1>4, <2>2, <2>3, <3>1, <3>2
    <2>5. \A p \in sock.pending : p[2] \in DOMAIN asked'
        BY <1>1, <1>6 DEF Accounted
    <2>6. \A p, p1 \in sock.pending : p[2] = p1[2] => p = p1
        BY <1>1 DEF Accounted
    <2> QED
        BY <2>1, <2>4, <2>5, <2>6 DEF Accounted
<1> QED
    BY <1>2, <1>8, <1>10, <1>11, <1>12, AskingKeepsRest

LEMMA OrderKeepsInv ==
    ASSUME Inv, NEW kind, Order(kind)
    PROVE  Inv'
<1> DEFINE m == Len(commands) + 1
           q == [kind |-> kind, topic |-> User, request |-> 0]
<1>1. /\ sock \in Sockets /\ Accounted(sock) /\ CallsMade /\ AtRest
      /\ asked \in Seq(Calls) /\ commands \in Seq(Requests)
    BY DEF Inv, Sound, CallsMade
<1>2. /\ commands' = Append(commands, q) /\ UNCHANGED <<sock, wire, server, asked>>
      /\ kind \in {"close", "interrupt"}
    BY RtConstants DEF Order
<1>3. q \in Requests /\ q.request = 0 /\ q.kind = kind
    BY <1>2 DEF Requests, Channels
<1> HIDE DEF q
<1>4. /\ commands' \in Seq(Requests) /\ Len(commands') = m
      /\ \A i \in DOMAIN commands : i \in DOMAIN commands' /\ commands'[i] = commands[i]
      /\ m \in DOMAIN commands' /\ commands'[m] = q
      /\ \A i \in DOMAIN commands' : i \in DOMAIN commands \/ i = m
      /\ Len(commands) \in Nat
    <2>1. Append(commands, q) \in Seq(Requests) /\ Grown(commands, Append(commands, q), q, m)
        BY <1>1, <1>3, Added, Zenon
    <2>2. commands' \in Seq(Requests) /\ Grown(commands, commands', q, m)
        BY <1>2, <2>1, Zenon
    <2> HIDE DEF m
    <2> QED
        BY <2>2 DEF Grown
<1>5. Len(commands') >= Len(commands)
    BY <1>4
<1> HIDE DEF m
<1>6. CallsMade'
    BY <1>1, <1>2, <1>3, <1>4 DEF CallsMade
<1>7. sock' \in Sockets /\ Alike(sock, sock', {"mine"})
    BY <1>1, <1>2 DEF Alike
<1>8. Accounted(sock)'
    <2>1. sock' = sock /\ asked' = asked /\ sock.read = 0
        BY <1>1, <1>2 DEF AtRest
    <2>2. ASSUME NEW r \in Ids
          PROVE  (Queued(sock, r)' <=> Queued(sock, r)) /\ (Waits(sock, r)' <=> Waits(sock, r))
        <3>1. \A i \in DOMAIN commands' : i > 0
            BY <1>4
        <3>2. (\A i \in DOMAIN commands : i > 0) /\ r # 0
            BY <1>1 DEF Ids
        <3> QED
            BY <1>3, <1>4, <2>1, <3>1, <3>2 DEF Queued, Waits
    <2> QED
        BY <1>1, <2>1, <2>2 DEF Accounted
<1> QED
    BY <1>2, <1>5, <1>6, <1>7, <1>8, AskingKeepsRest

-----------------------------------------------------------------------------
(* The server and the network.                                             *)
LEMMA SaysKeepsInv ==
    ASSUME Inv, NEW e \in Events, NEW s \in Servers, Says(e, s),
           server.state \in {"dialing", "up"}, s.state \in {"up", "gone"},
           server.state = "dialing" => e.kind \in {"opened", "refused", "closed"},
           server.state = "up" => e.kind \in {"reply", "message", "beat", "closed"},
           s.state = "up" => server.state = "up" \/ e.kind = "opened",
           \A i \in DOMAIN s.inbox : \E j \in DOMAIN server.inbox : s.inbox[i] = server.inbox[j],
           e.kind = "reply" => e.ref # NoRef /\ Its(sock, e.ref, e.request)
    PROVE  Inv'
<1>1. /\ sock \in Sockets /\ Young(sock) /\ Parted(sock) /\ Owned(sock) /\ Accounted(sock)
      /\ Placed(sock) /\ CallsMade /\ Wired /\ AtRest
    BY DEF Inv, Sound
<1>2. wire' = Append(wire, e) /\ server' = s /\ UNCHANGED <<sock, commands, asked>>
    BY DEF Says
<1>3. wire \in Seq(Events) /\ DOMAIN wire = 1 .. Len(wire) /\ Len(wire) \in Nat
    BY <1>1 DEF Wired
<1>4. wire' \in Seq(Events) /\ Grown(wire, wire', e, Len(wire) + 1)
    <2>1. Append(wire, e) \in Seq(Events) /\ Grown(wire, Append(wire, e), e, Len(wire) + 1)
        BY <1>3, Added, Zenon
    <2> QED
        BY <1>2, <2>1, Zenon
<1>5. sock.phase = "live"
    BY <1>1, EmptyServers DEF Wired
<1>6. \A i \in DOMAIN wire' : (i \in DOMAIN wire /\ wire'[i] = wire[i]) \/ wire'[i] = e
    BY <1>4 DEF Grown
<1>7. /\ \A i \in DOMAIN wire : i \in DOMAIN wire' /\ wire'[i] = wire[i]
      /\ \E i \in DOMAIN wire' : wire'[i] = e
    BY <1>4 DEF Grown
<1>8. Opening' <=> Opening \/ e.kind = "opened"
    BY <1>2, <1>6, <1>7 DEF Opening
<1>9. server.state = "dialing" => wire = <<>> /\ ~Opening
    BY <1>1 DEF Wired
<1>10. server.state = "up" => Opening
    BY <1>1 DEF Wired
<1>11. /\ \A i \in DOMAIN wire : /\ wire[i].kind \in {"reply", "message"} => Opening
                                 /\ wire[i].kind = "refused" => ~Opening
                                 /\ wire[i].kind = "reply" => wire[i].ref # NoRef
       /\ \A i \in DOMAIN server.inbox : server.inbox[i].kind # "beat" => server.inbox[i].ref # NoRef
    BY <1>1 DEF Wired
<1>12. Wired'
    <2>1. sock' = sock /\ sock'.phase = "live" /\ server'.state \in {"up", "gone"}
        BY <1>2, <1>5
    <2>2. server'.state = "up" => Opening'
        BY <1>2, <1>8, <1>10
    <2>3. ASSUME NEW i \in DOMAIN wire'
          PROVE  /\ wire'[i].kind \in {"reply", "message"} => Opening'
                 /\ wire'[i].kind = "refused" => ~Opening'
                 /\ wire'[i].kind = "reply" => wire'[i].ref # NoRef
        <3>1. CASE i \in DOMAIN wire /\ wire'[i] = wire[i]
            <4>1. server.state = "up"
                BY <1>3, <1>9, <3>1
            <4> QED
                BY <1>8, <1>10, <1>11, <3>1, <4>1
        <3>2. CASE wire'[i] = e
            BY <1>8, <1>9, <1>10, <3>2
        <3> QED
            BY <1>6, <3>1, <3>2
    <2>4. \A i \in DOMAIN s.inbox : s.inbox[i].kind # "beat" => s.inbox[i].ref # NoRef
        BY <1>11
    <2> QED
        BY <1>2, <1>4, <2>1, <2>2, <2>3, <2>4 DEF Wired
<1>13. Owned(sock)'
    <2>1. \A i \in DOMAIN s.inbox : Its(sock, s.inbox[i].ref, s.inbox[i].request)
        BY <1>1, <1>5 DEF Owned
    <2>2. \A i \in DOMAIN wire' : wire'[i].kind = "reply" => Its(sock, wire'[i].ref, wire'[i].request)
        <3>1. \A i \in DOMAIN wire : wire[i].kind = "reply" => Its(sock, wire[i].ref, wire[i].request)
            BY <1>1, <1>5 DEF Owned
        <3> QED
            BY <1>6, <3>1
    <2>3. \A ref, request : Its(sock, ref, request)' <=> Its(sock, ref, request)
        BY <1>2 DEF Its
    <2> QED
        BY <1>1, <1>2, <2>1, <2>2, <2>3 DEF Owned
<1>14. Young(sock)' /\ Parted(sock)' /\ Accounted(sock)' /\ Placed(sock)' /\ AtRest' /\ CallsMade'
    BY <1>1, <1>2 DEF Young, Parted, Accounted, Queued, Waits, Placed, Ready, AtRest, CallsMade
<1>15. (sock \in Sockets)'
    BY <1>1, <1>2
<1> QED
    BY <1>12, <1>13, <1>14, <1>15 DEF Inv, Sound

LEMMA AcceptKeepsInv == Inv /\ Accept => Inv'
<1> DEFINE e == [kind |-> "opened"]
           s == [server EXCEPT !.state = "up"]
<1> SUFFICES ASSUME Inv, Accept PROVE Inv'
    OBVIOUS
<1>1. server.state = "dialing" /\ Says(e, s) /\ server \in Servers
    BY DEF Accept, Inv, Wired
<1>2. e \in Events /\ e.kind = "opened"
    BY DEF Events
<1>3. s \in Servers /\ s.state = "up" /\ s.inbox = server.inbox
    BY <1>1 DEF Servers
<1> HIDE DEF e, s
<1> QED
    BY <1>1, <1>2, <1>3, SaysKeepsInv

LEMMA Refuse401KeepsInv == Inv /\ Refuse401 => Inv'
<1> DEFINE e == [kind |-> "refused"]
           s == [server EXCEPT !.state = "gone"]
<1> SUFFICES ASSUME Inv, Refuse401 PROVE Inv'
    OBVIOUS
<1>1. server.state = "dialing" /\ Says(e, s) /\ server \in Servers
    BY DEF Refuse401, Inv, Wired
<1>2. e \in Events /\ e.kind = "refused"
    BY DEF Events
<1>3. s \in Servers /\ s.state = "gone" /\ s.inbox = server.inbox
    BY <1>1 DEF Servers
<1> HIDE DEF e, s
<1> QED
    BY <1>1, <1>2, <1>3, SaysKeepsInv

LEMMA VanishKeepsInv == Inv /\ Vanish => Inv'
<1> DEFINE e == [kind |-> "closed"]
           none == <<>>
           s == [server EXCEPT !.state = "gone", !.inbox = none]
<1> SUFFICES ASSUME Inv, Vanish PROVE Inv'
    OBVIOUS
<1>1. server.state \in {"dialing", "up"} /\ Says(e, s) /\ server \in Servers
    BY DEF Vanish, Inv, Wired
<1>2. e \in Events /\ e.kind = "closed"
    BY DEF Events
<1>3. none \in Seq(Frames) /\ DOMAIN none = {}
    OBVIOUS
<1> HIDE DEF none
<1>4. s \in Servers /\ s.state = "gone" /\ s.inbox = none
    BY <1>1, <1>3 DEF Servers
<1> HIDE DEF e, s
<1> QED
    BY <1>1, <1>2, <1>3, <1>4, SaysKeepsInv

(* A frame that is taken off a queue, and what is behind it.               *)
LEMMA TailIs ==
    ASSUME server.inbox \in Seq(Frames), server.inbox # <<>>
    PROVE  /\ Tail(server.inbox) \in Seq(Frames)
           /\ \A i \in DOMAIN Tail(server.inbox) :
                \E j \in DOMAIN server.inbox : Tail(server.inbox)[i] = server.inbox[j]
<1> DEFINE inbox == Tail(server.inbox)
<1>1. /\ inbox \in Seq(Frames) /\ Len(inbox) = Len(server.inbox) - 1
      /\ \A i \in 1 .. Len(inbox) : inbox[i] = server.inbox[i + 1]
    OBVIOUS
<1>2. Len(server.inbox) \in Nat /\ DOMAIN server.inbox = 1 .. Len(server.inbox)
    OBVIOUS
<1> HIDE DEF inbox
<1>3. ASSUME NEW i \in DOMAIN inbox
      PROVE  \E j \in DOMAIN server.inbox : inbox[i] = server.inbox[j]
    <2>1. i \in 1 .. Len(inbox)
        BY <1>1, <1>3
    <2>2. i + 1 \in DOMAIN server.inbox
        BY <1>1, <1>2, <2>1
    <2> QED
        BY <1>1, <2>1, <2>2
<1> QED
    BY <1>1, <1>3 DEF inbox

LEMMA ServeKeepsInv ==
    ASSUME Inv, NEW ok \in BOOLEAN, Serve(ok)
    PROVE  Inv'
<1> DEFINE f == Head(server.inbox)
           joined == CASE ok /\ f.kind = "join" -> server.joined \union {f.topic}
                       [] ok /\ f.kind = "leave" -> server.joined \ {f.topic}
                       [] OTHER -> server.joined
           e == IF f.kind = "beat" THEN [kind |-> "beat"]
                ELSE [kind |-> "reply", ref |-> f.ref, ok |-> ok, request |-> f.request]
           inbox == Tail(server.inbox)
           s == [server EXCEPT !.inbox = inbox, !.joined = joined]
<1>1. /\ server.state = "up" /\ Says(e, s) /\ server \in Servers /\ server.inbox # <<>>
      /\ Owned(sock) /\ Wired
    BY DEF Serve, Inv, Wired, Sound
<1>2. /\ server.inbox \in Seq(Frames) /\ server.joined \in SUBSET Channels
      /\ 1 \in DOMAIN server.inbox /\ f = server.inbox[1]
    BY <1>1 DEF Servers
<1>3. /\ inbox \in Seq(Frames)
      /\ \A i \in DOMAIN inbox : \E j \in DOMAIN server.inbox : inbox[i] = server.inbox[j]
    BY <1>1, <1>2, TailIs
<1>4. /\ sock.phase = "live" => Its(sock, f.ref, f.request)
      /\ f.kind # "beat" => f.ref # NoRef
    BY <1>1, <1>2 DEF Owned, Wired
<1> HIDE DEF f, inbox
<1>5. f \in Frames
    BY <1>2
<1>6. joined \in SUBSET Channels
    BY <1>2, <1>5 DEF Frames
<1> HIDE DEF joined
<1>7. s \in Servers /\ s.state = "up" /\ s.inbox = inbox
    BY <1>1, <1>3, <1>6 DEF Servers
<1>8. /\ e \in Events /\ e.kind \in {"beat", "reply"}
      /\ e.kind = "reply" => f.kind # "beat" /\ e.ref = f.ref /\ e.request = f.request
    BY <1>5 DEF Events, Frames
<1>9. sock.phase = "live"
    BY <1>1, EmptyServers DEF Wired
<1> HIDE DEF e, s
<1> QED
    BY <1>1, <1>3, <1>4, <1>5, <1>7, <1>8, <1>9, SaysKeepsInv

LEMMA IgnoreKeepsInv == Inv /\ Ignore => Inv'
<1> SUFFICES ASSUME Inv, Ignore PROVE Inv'
    OBVIOUS
<1> DEFINE inbox == Tail(server.inbox)
           s == [server EXCEPT !.inbox = inbox]
<1>1. /\ server.state = "up" /\ server.inbox # <<>> /\ server' = s
      /\ UNCHANGED <<sock, commands, wire, asked>>
      /\ server \in Servers /\ Sound(sock) /\ Wired /\ CallsMade /\ AtRest
    BY DEF Ignore, Inv, Wired
<1>2. /\ inbox \in Seq(Frames)
      /\ \A i \in DOMAIN inbox : \E j \in DOMAIN server.inbox : inbox[i] = server.inbox[j]
    BY <1>1, TailIs DEF Servers
<1> HIDE DEF inbox
<1>3. s \in Servers /\ s.state = "up" /\ s.inbox = inbox
    BY <1>1, <1>2 DEF Servers
<1>4. sock.phase = "live"
    BY <1>1, EmptyServers DEF Wired
<1> HIDE DEF s
<1>5. Wired'
    BY <1>1, <1>2, <1>3, <1>4 DEF Wired, Opening
<1>6. Owned(sock)'
    BY <1>1, <1>2, <1>3, <1>4 DEF Sound, Owned, Its
<1>7. Sound(sock)'
    BY <1>1, <1>6 DEF Sound, Young, Parted, Accounted, Queued, Waits, Placed, Ready
<1> QED
    BY <1>1, <1>5, <1>7 DEF Inv, CallsMade, AtRest

LEMMA EndChannelKeepsInv ==
    ASSUME Inv, NEW t \in Channels, NEW event \in {"error", "close"}, EndChannel(t, event)
    PROVE  Inv'
<1> DEFINE e == [kind |-> "message", event |-> event, topic |-> t]
           joined == server.joined \ {t}
           ends == server.ends + 1
           s == [server EXCEPT !.joined = joined, !.ends = ends]
<1>1. server.state = "up" /\ Says(e, s) /\ server \in Servers
    BY DEF EndChannel, Inv, Wired
<1>2. e \in Events /\ e.kind = "message"
    BY DEF Events
<1>3. joined \in SUBSET Channels /\ ends \in Nat
    BY <1>1 DEF Servers
<1> HIDE DEF joined, ends
<1>4. s \in Servers /\ s.state = "up" /\ s.inbox = server.inbox
    BY <1>1, <1>3 DEF Servers
<1> HIDE DEF e, s
<1> QED
    BY <1>1, <1>2, <1>4, SaysKeepsInv

-----------------------------------------------------------------------------
(* The invariant holds all along.                                          *)
LEMMA InitIsSound == Init => Inv
<1> SUFFICES ASSUME Init PROVE Inv
    OBVIOUS
<1> DEFINE none == [r \in Ids |-> 0]
           life == [at |-> "new", tries |-> 0]
<1>1. /\ sock = NewSocket /\ commands = <<>> /\ wire = <<>> /\ server = NoServer /\ asked = <<>>
    BY DEF Init
<1>2. none \in [Ids -> Nat] /\ (\A r \in Ids : none[r] = 0) /\ life \in Lives /\ Link \in Connections
    BY DEF Lives, Link, Connections, NoRef
<1>3. IsFiniteSet({})
    BY FS_EmptySet
<1>4. /\ Link.opened = FALSE /\ Link.joinRef = NoRef /\ Link.joined = FALSE /\ Link.back = {}
      /\ Link.nextRef = 1
    BY DEF Link
<1>5. NewSocket \in Sockets
    <2>1. <<>> \in Seq(Frames)
        OBVIOUS
    <2> QED
        BY <1>2, <2>1 DEF NewSocket, Sockets
<1>6. CallsMade
    BY <1>1, RtConstants DEF CallsMade
<1>7. Wired
    BY <1>1, EmptyServers DEF Wired, NewSocket
<1>8. AtRest
    BY <1>1 DEF AtRest, NewSocket
<1>9. Young(sock) /\ Parted(sock)
    BY <1>1, <1>3, <1>4 DEF Young, Parted, NewSocket
<1>10. Owned(sock)
    BY <1>1 DEF Owned, NewSocket
<1>11. Accounted(sock)
    BY <1>1 DEF Accounted, Queued, Waits, NewSocket
<1>12. Placed(sock)
    BY <1>1, <1>4 DEF Placed, Ready, NewSocket
<1> QED
    BY <1>1, <1>5, <1>6, <1>7, <1>8, <1>9, <1>10, <1>11, <1>12 DEF Inv, Sound

LEMMA NextKeepsInv == Inv /\ [Next]_vars => Inv'
<1> SUFFICES ASSUME Inv, [Next]_vars PROVE Inv'
    OBVIOUS
<1>1. ASSUME NEW ready, NEW takes \in BOOLEAN, NEW beat \in BOOLEAN, NEW due \in BOOLEAN,
             NEW token, Step(takes, ready, beat, due, token)
      PROVE  Inv'
    BY <1>1, StepKeepsInv
<1>2. ASSUME NEW c \in Calls, Call(c.kind, c.topic) PROVE Inv'
    BY <1>2, CallKeepsInv
<1>3. ASSUME Close \/ Interrupt PROVE Inv'
    BY <1>3, OrderKeepsInv DEF Close, Interrupt
<1>4. ASSUME Accept \/ Refuse401 \/ Vanish PROVE Inv'
    BY <1>4, AcceptKeepsInv, Refuse401KeepsInv, VanishKeepsInv
<1>5. ASSUME NEW ok \in BOOLEAN, Serve(ok) PROVE Inv'
    BY <1>5, ServeKeepsInv
<1>6. ASSUME NEW t \in Channels, NEW event \in {"error", "close"}, EndChannel(t, event) PROVE Inv'
    BY <1>6, EndChannelKeepsInv
<1>7. ASSUME UNCHANGED vars PROVE Inv'
    BY <1>7 DEF vars, Inv, CallsMade, Wired, Opening, AtRest, Sound, Young, Parted, Owned, Its,
                Accounted, Queued, Waits, Placed, Ready
<1> QED
    BY <1>1, <1>2, <1>3, <1>4, <1>5, <1>6, <1>7, IgnoreKeepsInv DEF Next

(* At every moment of any run a socket's state, its calls and its wires    *)
(* agree: each part of Inv, of which the theorems below are read off.      *)
THEOREM SocketsStaySound == Spec => []Inv
<1>1. Init => Inv
    BY InitIsSound
<1>2. Inv /\ [Next]_vars => Inv'
    BY NextKeepsInv
<1> QED
    BY <1>1, <1>2, PTL DEF Spec

LEMMA AccountedIsOnce == Inv => AnsweredOnce
<1> SUFFICES ASSUME Inv, NEW r \in DOMAIN asked
             PROVE  sock.answers[r] + Cardinality({i \in DOMAIN commands : commands[i].request = r})
                        + Cardinality({p \in sock.pending : p[2] = r}) = 1
    BY DEF AnsweredOnce
<1>1. /\ sock \in Sockets /\ Accounted(sock) /\ CallsMade /\ sock.read = 0 /\ r \in Ids
    BY AskedIds DEF Inv, Sound, AtRest
<1>2. Cardinality({i \in DOMAIN commands : commands[i].request = r})
          = IF Queued(sock, r) THEN 1 ELSE 0
    <2>1. commands \in Seq(Requests) /\ Len(commands) \in Nat /\ sock.read <= Len(commands)
          /\ DOMAIN commands = 1 .. Len(commands) /\ sock.read \in Nat
        BY <1>1 DEF CallsMade
    <2>2. /\ Unread(sock) \in Seq(Requests) /\ Len(Unread(sock)) = Len(commands) - 0
          /\ \A i \in 1 .. Len(Unread(sock)) : Unread(sock)[i] = commands[i + 0]
        BY <1>1, <2>1, UnreadIs
    <2>3. DOMAIN Unread(sock) = DOMAIN commands
          /\ \A i \in DOMAIN commands : Unread(sock)[i] = commands[i]
        BY <2>1, <2>2
    <2>4. {i \in DOMAIN Unread(sock) : Unread(sock)[i].request = r}
              = {i \in DOMAIN commands : commands[i].request = r}
        BY <2>3
    <2>5. Cardinality({i \in DOMAIN Unread(sock) : Unread(sock)[i].request = r})
              = IF Queued(sock, r) THEN 1 ELSE 0
        BY <1>1, <2>1, NamedOnce
    <2> QED
        BY <2>4, <2>5
<1>3. Cardinality({p \in sock.pending : p[2] = r}) = IF Waits(sock, r) THEN 1 ELSE 0
    BY <1>1, WaitingOnce
<1>4. /\ sock.answers[r] \in {0, 1}
      /\ sock.answers[r] = 0 => Queued(sock, r) \/ Waits(sock, r)
      /\ sock.answers[r] = 1 => ~Queued(sock, r)
      /\ Waits(sock, r) => sock.answers[r] = 0 /\ ~Queued(sock, r)
    BY <1>1 DEF Accounted
<1> QED
    BY <1>2, <1>3, <1>4

(* AnsweredOnce: whatever the game calls and orders and whatever becomes   *)
(* of the connection, every call is queued, waits for its reply, or was    *)
(* answered, and is in one of these places only.                           *)
THEOREM CallsAreAnsweredOnce == Spec => []AnsweredOnce
<1>1. Inv => AnsweredOnce
    BY AccountedIsOnce
<1> QED
    BY <1>1, SocketsStaySound, PTL

(* RepliesAreTheirOwn: no reply settles a call of another connection, or   *)
(* of another ref.                                                         *)
THEOREM RepliesSettleTheirOwn == Spec => []RepliesAreTheirOwn
<1>1. Inv => RepliesAreTheirOwn
    BY DEF Inv, Sound, Owned, RepliesAreTheirOwn
<1> QED
    BY <1>1, SocketsStaySound, PTL

(* HeardInOrder: open once, each try counted from one, reopened only after *)
(* a try, and one end that is told when the socket is removed.             *)
THEOREM GameHearsInOrder == Spec => []HeardInOrder
<1>1. Inv => HeardInOrder
    BY DEF Inv, Sound, Placed, HeardInOrder
<1> QED
    BY <1>1, SocketsStaySound, PTL

(* LeftStaysLeft: neither a reconnect nor a crashed channel's retry joins  *)
(* a topic the game has left since.                                        *)
THEOREM LeftTopicsStayLeft == Spec => []LeftStaysLeft
<1>1. Inv => LeftStaysLeft
    BY DEF Inv, Sound, Parted, LeftStaysLeft
<1> QED
    BY <1>1, SocketsStaySound, PTL

-----------------------------------------------------------------------------
(* What a game that waits for its answers can rely on. It has one join or  *)
(* leave of a topic on its way at a time, and minds the topic once it knows*)
(* it joined and until it leaves.                                          *)
Joins(p) == asked[p[2]].kind = "join"
On(p) == asked[p[2]].topic
Awaits(s, r) == asked[r].kind # "push" /\ s.answers[r] = 0

Minded(s) == s.mine \subseteq s.topics \union s.gone \union s.lost \union s.shut

OneTurn(s) ==
    /\ \A r \in DOMAIN asked : Awaits(s, r) => asked[r].topic \notin s.mine
    /\ \A r, q \in DOMAIN asked :
        Awaits(s, r) /\ Awaits(s, q) /\ asked[r].topic = asked[q].topic => r = q

(* A topic is joining by a call that waits for its reply.                  *)
Listed(s) ==
    \A j \in s.joining : \E p \in s.pending : p[1] = j[1] /\ Joins(p) /\ On(p) = j[2]

(* A join waits once the reconnect is over, and its topic is kept, or the  *)
(* server has ended it for good since the join was sent.                   *)
Coming(s) ==
    \A p \in s.pending :
        Joins(p) => s.link.back = {} /\ On(p) \in s.topics \union s.gone \union s.shut

(* No call waits under the ref of a crashed channel's join.                *)
Apart(s) ==
    s.phase = "live" => \A x \in s.rejoining : /\ x.ref \in 1 .. s.link.nextRef - 1
                                               /\ \A p \in s.pending : p[1] # x.ref

(* The game joins nothing before the socket is open.                       *)
Asking(s) ==
    s.phase = "live" /\ ~Ready(s) =>
        \A i \in DOMAIN commands : i > s.read => commands[i].kind # "join"

Mindful(s) == Minded(s) /\ OneTurn(s) /\ Listed(s) /\ Coming(s) /\ Apart(s) /\ Asking(s)

-----------------------------------------------------------------------------
(* What changes nothing of it.                                             *)
LEMMA MindfulStill ==
    ASSUME NEW s, NEW u, Mindful(s),
           Alike(s, u, {"link", "sent", "next", "due", "renewed", "life", "once", "takes",
                        "tries", "amiss", "left"}),
           u.link.back = s.link.back, u.link.joined = s.link.joined,
           s.link.nextRef \in Nat, u.link.nextRef \in Nat, u.link.nextRef >= s.link.nextRef
    PROVE  Mindful(u)
<1>1. /\ u.mine = s.mine /\ u.topics = s.topics /\ u.gone = s.gone /\ u.shut = s.shut
      /\ u.lost = s.lost /\ u.answers = s.answers /\ u.pending = s.pending
      /\ u.joining = s.joining /\ u.rejoining = s.rejoining /\ u.read = s.read /\ u.phase = s.phase
    BY DEF Alike, Fields
<1>2. Minded(u) /\ OneTurn(u) /\ Listed(u) /\ Coming(u)
    BY <1>1 DEF Mindful, Minded, OneTurn, Awaits, Listed, Coming
<1>3. Apart(u) /\ Asking(u)
    BY <1>1 DEF Mindful, Apart, Asking, Ready
<1> QED
    BY <1>2, <1>3 DEF Mindful

(* What the game minds less, and what keeps the rest.                      *)
LEMMA MindfulMild ==
    ASSUME NEW s, NEW u, Mindful(s), u.mine \subseteq s.mine, Minded(u), Coming(u),
           Ready(s) => Ready(u), u.rejoining \subseteq s.rejoining,
           u.link.nextRef = s.link.nextRef,
           Alike(s, u, {"link", "topics", "mine", "gone", "lost", "shut", "due", "rejoining",
                        "life", "once", "tries", "left", "sent", "next", "renewed"})
    PROVE  Mindful(u)
<1>1. /\ u.answers = s.answers /\ u.pending = s.pending /\ u.joining = s.joining
      /\ u.read = s.read /\ u.phase = s.phase
    BY DEF Alike, Fields
<1>2. OneTurn(u) /\ Listed(u)
    BY <1>1 DEF Mindful, OneTurn, Awaits, Listed
<1>3. Apart(u) /\ Asking(u)
    BY <1>1 DEF Mindful, Apart, Asking
<1> QED
    BY <1>2, <1>3 DEF Mindful

(* A call is answered.                                                     *)
LEMMA AnswerMinds ==
    ASSUME NEW s \in Sockets, CallsMade, NEW r \in DOMAIN asked, NEW how
    PROVE  \/ Answer(s, r, how).mine = s.mine
           \/ /\ asked[r].kind = "join" /\ how = "ok"
              /\ Answer(s, r, how).mine = s.mine \union {asked[r].topic}
BY DEF Answer, Sockets

LEMMA AnswerIsMindful ==
    ASSUME NEW s \in Sockets, Mindful(s), CallsMade, NEW r \in DOMAIN asked, NEW how,
           s.answers[r] = 0,
           asked[r].kind = "join" /\ how = "ok" =>
               asked[r].topic \in s.topics \union s.gone \union s.shut
    PROVE  Mindful(Answer(s, r, how))
<1> DEFINE u == Answer(s, r, how)
           t == asked[r].topic
<1>1. /\ Alike(s, u, {"answers", "mine"}) /\ u.answers = [s.answers EXCEPT ![r] = @ + 1]
    BY AnswerIs, Zenon
<1>2. u.mine = s.mine \/ (asked[r].kind = "join" /\ how = "ok" /\ u.mine = s.mine \union {t})
    BY AnswerMinds
<1>3. s.answers \in [Ids -> Nat] /\ r \in Ids /\ DOMAIN asked \subseteq Ids
    BY AskedIds DEF Sockets
<1> HIDE DEF u
<1>4. u.answers[r] = 1 /\ \A q \in Ids \ {r} : u.answers[q] = s.answers[q]
    BY <1>1, <1>3
<1>5. /\ u.topics = s.topics /\ u.gone = s.gone /\ u.shut = s.shut /\ u.lost = s.lost
      /\ u.pending = s.pending /\ u.joining = s.joining /\ u.link = s.link
      /\ u.rejoining = s.rejoining /\ u.read = s.read /\ u.phase = s.phase
    BY <1>1 DEF Alike, Fields
<1>6. Minded(u)
    BY <1>2, <1>5 DEF Mindful, Minded
<1>7. OneTurn(u)
    <2>1. \A q \in DOMAIN asked : Awaits(u, q) => Awaits(s, q) /\ q # r
        BY <1>3, <1>4 DEF Awaits
    <2>2. ASSUME NEW q \in DOMAIN asked, Awaits(u, q)
          PROVE  asked[q].topic \notin u.mine
        <3>1. asked[q].topic \notin s.mine
            BY <2>1, <2>2 DEF Mindful, OneTurn
        <3>2. asked[r].kind = "join" => asked[q].topic # t
            BY <2>1, <2>2 DEF Mindful, OneTurn, Awaits
        <3> QED
            BY <1>2, <3>1, <3>2
    <2>3. \A q1, q2 \in DOMAIN asked :
            Awaits(u, q1) /\ Awaits(u, q2) /\ asked[q1].topic = asked[q2].topic => q1 = q2
        BY <2>1 DEF Mindful, OneTurn
    <2> QED
        BY <2>2, <2>3 DEF OneTurn
<1>8. Listed(u) /\ Coming(u)
    BY <1>5 DEF Mindful, Listed, Coming
<1>9. Apart(u) /\ Asking(u)
    BY <1>5 DEF Mindful, Apart, Asking, Ready
<1> QED
    BY <1>6, <1>7, <1>8, <1>9 DEF Mindful, u

-----------------------------------------------------------------------------
(* What the server says.                                                   *)

LEMMA MessageIsMindful ==
    ASSUME NEW s, Sound(s), Mindful(s), NEW e \in Events, e.kind = "message"
    PROVE  Mindful(Message(s, e))
<1> DEFINE u == Message(s, e)
<1>1. s \in Sockets
    BY DEF Sound
<1>2. /\ Alike(s, u, {"topics", "mine", "due", "shut"})
      /\ \/ u.topics = s.topics /\ u.mine = s.mine /\ u.shut = s.shut
         \/ /\ u.topics = s.topics \ {e.topic} /\ u.mine = s.mine \ {e.topic}
            /\ u.shut = s.shut \union {e.topic}
    <2> DEFINE topics == s.topics \ {e.topic}
               mine == s.mine \ {e.topic}
               shut == s.shut \union {e.topic}
               due == IF e.event = "close" THEN {d \in s.due : d.topic # e.topic}
                      ELSE {d \in s.due : d.topic # e.topic}
                               \union {[topic |-> e.topic, attempt |-> 1]}
    <2>1. CASE e.event = "close"
        <3>1. u = [s EXCEPT !.topics = topics, !.mine = mine, !.due = due, !.shut = shut]
            BY <1>1, <2>1 DEF Message, Sockets
        <3> HIDE DEF u, topics, mine, due, shut
        <3>2. /\ Alike(s, u, {"topics", "mine", "due", "shut"})
              /\ u.topics = topics /\ u.mine = mine /\ u.shut = shut
            BY <1>1, <3>1 DEF Sockets, Alike, Fields
        <3> QED
            BY <3>2 DEF topics, mine, shut
    <2>2. CASE e.event # "close"
        <3>1. u = s \/ u = [s EXCEPT !.due = due]
            BY <1>1, <2>2 DEF Message, Sockets
        <3> HIDE DEF u, due
        <3> QED
            BY <1>1, <3>1 DEF Sockets, Alike, Fields
    <2> QED
        BY <2>1, <2>2
<1> HIDE DEF u
<1>3. /\ u.gone = s.gone /\ u.lost = s.lost /\ u.pending = s.pending /\ u.link = s.link
      /\ u.phase = s.phase /\ u.rejoining = s.rejoining /\ u.sent = s.sent
    BY <1>2 DEF Alike, Fields
<1>4. Minded(u)
    BY <1>2, <1>3 DEF Mindful, Minded
<1>5. Coming(u)
    BY <1>2, <1>3 DEF Mindful, Coming
<1>6. Alike(s, u, {"link", "topics", "mine", "gone", "lost", "shut", "due", "rejoining",
                   "life", "once", "tries", "left", "sent", "next", "renewed"})
    BY <1>2 DEF Alike
<1>7. Mindful(u)
    BY <1>2, <1>3, <1>4, <1>5, <1>6, MindfulMild DEF Ready
<1> QED
    BY <1>7 DEF u

LEMMA CrashReplyIsMindful ==
    ASSUME NEW s, Sound(s), Mindful(s), s.phase = "live", NEW e \in Events, e.kind = "reply",
           NEW ok, \E x \in s.rejoining : x.ref = e.ref
    PROVE  Mindful(CrashReply(s, e.ref, ok))
<1> DEFINE u == CrashReply(s, e.ref, ok)
           j == CHOOSE x \in s.rejoining : x.ref = e.ref
<1>1. s \in Sockets
    BY DEF Sound
<1>2. /\ Alike(s, u, {"topics", "gone", "due", "rejoining"})
      /\ u.rejoining \subseteq s.rejoining
      /\ \/ u.topics = s.topics /\ u.gone = s.gone
         \/ \E t : u.topics = s.topics \ {t} /\ u.gone = s.gone \union {t}
    <2> DEFINE rejoining == s.rejoining \ {j}
               topics == s.topics \ {j.topic}
               gone == s.gone \union {j.topic}
               due == s.due \union {[topic |-> j.topic, attempt |-> j.attempt + 1]}
    <2>1. \/ u = [s EXCEPT !.rejoining = rejoining]
          \/ u = [s EXCEPT !.rejoining = rejoining, !.topics = topics, !.gone = gone]
          \/ u = [s EXCEPT !.rejoining = rejoining, !.due = due]
        BY <1>1 DEF CrashReply, Sockets
    <2>2. rejoining \subseteq s.rejoining
        OBVIOUS
    <2> HIDE DEF u, rejoining, topics, gone, due
    <2>3. /\ Alike(s, u, {"topics", "gone", "due", "rejoining"}) /\ u.rejoining = rejoining
          /\ (u.topics = s.topics /\ u.gone = s.gone) \/ (u.topics = topics /\ u.gone = gone)
        BY <1>1, <2>1 DEF Sockets, Alike, Fields
    <2> QED
        BY <2>2, <2>3 DEF topics, gone
<1> HIDE DEF u
<1>3. /\ u.mine = s.mine /\ u.lost = s.lost /\ u.pending = s.pending /\ u.link = s.link
      /\ u.phase = s.phase /\ u.sent = s.sent /\ u.shut = s.shut
    BY <1>2 DEF Alike, Fields
<1>4. Minded(u)
    BY <1>2, <1>3 DEF Mindful, Minded
<1>5. Coming(u)
    BY <1>2, <1>3 DEF Mindful, Coming
<1>6. Alike(s, u, {"link", "topics", "mine", "gone", "lost", "shut", "due", "rejoining",
                   "life", "once", "tries", "left", "sent", "next", "renewed"})
    BY <1>2 DEF Alike
<1>7. Mindful(u)
    BY <1>2, <1>3, <1>4, <1>5, <1>6, MindfulMild DEF Ready
<1> QED
    BY <1>7 DEF u

(* What was lost is told, and only what was lost is minded no more.        *)
LEMMA ReopenedIsMindful ==
    ASSUME NEW s \in Sockets, Mindful(s), Ready(s)
    PROVE  /\ Mindful(Reopened(s)) /\ Reopened(s).pending = s.pending
           /\ Reopened(s).sent = s.sent
<1> DEFINE u == Reopened(s)
<1>1. /\ Alike(s, u, {"life", "tries", "mine", "lost"})
      /\ u.mine = s.mine \ s.lost
    BY SocketsAre DEF Reopened, Tell, Typed, Alike, Fields
<1> HIDE DEF u
<1>2. /\ u.topics = s.topics /\ u.gone = s.gone /\ u.shut = s.shut
      /\ u.pending = s.pending /\ u.link = s.link
      /\ u.phase = s.phase /\ u.sent = s.sent /\ u.rejoining = s.rejoining
    BY <1>1 DEF Alike, Fields
<1>3. Minded(u)
    BY <1>1, <1>2 DEF Mindful, Minded
<1>4. Coming(u)
    BY <1>2 DEF Mindful, Coming
<1>5. Alike(s, u, {"link", "topics", "mine", "gone", "lost", "shut", "due", "rejoining",
                   "life", "once", "tries", "left", "sent", "next", "renewed"})
    BY <1>1 DEF Alike
<1>6. Mindful(u)
    BY <1>1, <1>2, <1>3, <1>4, <1>5, MindfulMild DEF Ready
<1> QED
    BY <1>2, <1>6 DEF u

LEMMA BackReplyIsMindful ==
    ASSUME NEW s, Sound(s), Mindful(s), s.phase = "live", NEW e \in Events, e.kind = "reply",
           e.ref \in Refs(s.link.back), NEW ok \in BOOLEAN
    PROVE  Mindful(BackReply(s, e.ref, ok))
<1> DEFINE ref == e.ref
           t == Of(s.link.back, ref)
           back == {p \in s.link.back : p[1] # ref}
           link == [s.link EXCEPT !.back = back]
           topics == IF ok THEN s.topics ELSE s.topics \ {t}
           lost == IF ok THEN s.lost ELSE s.lost \union {t}
           r == [s EXCEPT !.link = link, !.topics = topics, !.lost = lost]
<1>1. s \in Sockets /\ Young(s) /\ s.link \in Connections
    BY DEF Sound, Sockets
<1>2. s.link.back # {} /\ s.link.joined
    BY <1>1 DEF Refs, Young
<1>3. \A p \in s.pending : ~Joins(p)
    BY <1>2 DEF Mindful, Coming
<1>4. r = [s EXCEPT !.link.back = {p \in @ : p[1] # ref},
                    !.topics = IF ok THEN @ ELSE @ \ {t},
                    !.lost = IF ok THEN @ ELSE @ \union {t}]
    BY <1>1 DEF Sockets, Connections
<1>5. /\ link \in Connections /\ link.joined = s.link.joined /\ link.nextRef = s.link.nextRef
    BY <1>1 DEF Connections
<1>6. topics \in SUBSET Topics /\ lost \in SUBSET Topics
      /\ s.mine \subseteq topics \union s.gone \union lost \union s.shut
    <2>1. PICK p \in s.link.back : p[1] = ref
        BY DEF Refs
    <2>2. (CHOOSE q \in s.link.back : q[1] = ref) \in s.link.back
        BY <2>1
    <2>3. s.link.back \subseteq Nat \X Topics
        BY <1>1 DEF Connections
    <2>4. t \in Topics
        BY <2>2, <2>3 DEF Of
    <2>5. s.topics \in SUBSET Topics /\ s.lost \in SUBSET Topics
        BY <1>1 DEF Sockets
    <2>6. s.mine \subseteq s.topics \union s.gone \union s.lost \union s.shut
        BY DEF Mindful, Minded
    <2> HIDE DEF t
    <2> QED
        BY <2>4, <2>5, <2>6
<1>7. BackReply(s, ref, ok) = IF r.link.back = {} THEN Reopened(r) ELSE r
    BY <1>4 DEF BackReply
<1> HIDE DEF ref, back, link, topics, lost
<1>8. r \in Sockets
    BY <1>1, <1>5, <1>6, SocketsAre DEF Typed, TopicSets
<1>9. /\ Alike(s, r, {"link", "topics", "lost"}) /\ r.link = link /\ r.topics = topics
      /\ r.lost = lost
    BY <1>1 DEF Sockets, Alike, Fields
<1> HIDE DEF r
<1>10. /\ r.mine = s.mine /\ r.gone = s.gone /\ r.shut = s.shut
       /\ r.pending = s.pending /\ r.phase = s.phase
       /\ r.sent = s.sent /\ r.rejoining = s.rejoining
    BY <1>9 DEF Alike, Fields
<1>11. Minded(r)
    BY <1>6, <1>9, <1>10 DEF Minded
<1>12. Coming(r)
    BY <1>3, <1>10 DEF Coming
<1>13. Alike(s, r, {"link", "topics", "mine", "gone", "lost", "shut", "due", "rejoining",
                    "life", "once", "tries", "left", "sent", "next", "renewed"})
    BY <1>9 DEF Alike
<1>14. Mindful(r)
    BY <1>2, <1>5, <1>9, <1>10, <1>11, <1>12, <1>13, MindfulMild DEF Ready
<1>15. CASE r.link.back = {}
    <2>1. Ready(r)
        BY <1>2, <1>5, <1>9, <1>10, <1>15 DEF Ready
    <2>2. Mindful(Reopened(r)) /\ Reopened(r).pending = s.pending /\ Reopened(r).sent = s.sent
        BY <1>8, <1>10, <1>14, <2>1, ReopenedIsMindful
    <2> QED
        BY <1>3, <1>7, <1>15, <2>2 DEF ref
<1>16. CASE r.link.back # {}
    BY <1>3, <1>7, <1>10, <1>14, <1>16 DEF ref
<1> QED
    BY <1>15, <1>16

(* What no call waits for any more.                                        *)
LEMMA MindfulAlone ==
    ASSUME NEW s, Mindful(s), NEW u, u.pending = {}, u.joining = {},
           u.mine \subseteq s.mine, Minded(u), Apart(u), Asking(u),
           \A r \in DOMAIN asked : Awaits(u, r) => Awaits(s, r)
    PROVE  Mindful(u)
<1>1. OneTurn(u)
    BY DEF Mindful, OneTurn
<1>2. Listed(u) /\ Coming(u)
    BY DEF Listed, Coming
<1> QED
    BY <1>1, <1>2 DEF Mindful

LEMMA RejoinIsMindful ==
    ASSUME NEW s \in Sockets, Young(s), Parted(s), Owned(s), Mindful(s), s.phase = "live",
           s.link.joined, s.pending = {}, s.joining = {},
           \A i \in DOMAIN commands : i > s.read => commands[i].kind # "join"
    PROVE  Mindful(Rejoin(s)) /\ Rejoin(s).pending = {}
<1> DEFINE list == SetToSeq(s.topics)
           n == s.link.nextRef
           pairs == {<<n + i - 1, list[i]>> : i \in DOMAIN list}
           a == JoinAll(s, list)
           back == IF s.takes THEN pairs ELSE a.link.back
           again == [a EXCEPT !.link.back = back]
<1>1. list \in Seq(s.topics) /\ s.topics \subseteq Topics /\ n \in Nat \ {0}
    BY InSomeOrder DEF Young, Sockets, Connections
<1> HIDE DEF list
<1>2. /\ list \in Seq(Channels) /\ DOMAIN list = 1 .. Len(list) /\ Len(list) \in Nat
      /\ \A i \in DOMAIN list : list[i] \in s.topics
    BY <1>1 DEF Channels
<1>3. Range(list) \intersect s.left = {}
    BY <1>2 DEF Range, Parted
<1>4. /\ a \in Sockets /\ Alike(s, a, {"link", "sent"})
      /\ a.link.nextRef = n + Len(list) /\ a.link.joined = s.link.joined
      /\ a.link.back = s.link.back
    BY <1>2, <1>3, JoinAllIsOwned, Zenon
<1>5. pairs \in SUBSET (Nat \X Topics)
    BY <1>1, <1>2
<1>6. Rejoin(s) = IF again.link.back = {} THEN Reopened(again) ELSE again
    BY DEF Rejoin, Sends, list, pairs, n
<1> HIDE DEF pairs
<1>7. back \in SUBSET (Nat \X Topics)
    BY <1>4, <1>5 DEF Sockets, Connections
<1> HIDE DEF a, back
<1> DEFINE link == [a.link EXCEPT !.back = back]
<1>8. again = [a EXCEPT !.link = link] /\ link.back = back
    BY <1>4 DEF Sockets, Connections
<1>9. link \in Connections /\ link.nextRef = a.link.nextRef /\ link.joined = a.link.joined
    BY <1>4, <1>7 DEF Sockets, Connections
<1> HIDE DEF link, again
<1>10. again \in Sockets /\ Alike(a, again, {"link"}) /\ again.link = link
    BY <1>4, <1>8, <1>9, SocketsAre DEF Typed, Alike, Fields
<1>11. /\ again.mine = s.mine /\ again.topics = s.topics
       /\ again.gone = s.gone /\ again.shut = s.shut
       /\ again.lost = s.lost /\ again.answers = s.answers /\ again.pending = {}
       /\ again.joining = {} /\ again.rejoining = s.rejoining /\ again.read = s.read
       /\ again.phase = "live"
    BY <1>4, <1>10 DEF Alike, Fields
<1>12. Apart(again)
    <2>1. n >= 1 /\ again.link.nextRef = n + Len(list) /\ n \in Nat
        BY <1>1, <1>4, <1>9, <1>10
    <2>2. \A x \in s.rejoining : x.ref \in 1 .. n - 1
        BY DEF Mindful, Apart
    <2> HIDE DEF n
    <2> QED
        BY <1>2, <1>11, <2>1, <2>2 DEF Apart
<1>13. Mindful(again)
    <2>1. Minded(again) /\ Asking(again)
        BY <1>11 DEF Mindful, Minded, Asking
    <2>2. \A r \in DOMAIN asked : Awaits(again, r) => Awaits(s, r)
        BY <1>11 DEF Awaits
    <2> QED
        BY <1>11, <1>12, <2>1, <2>2, MindfulAlone
<1>14. CASE again.link.back = {}
    <2>1. Ready(again)
        BY <1>4, <1>9, <1>10, <1>11, <1>14 DEF Ready
    <2> QED
        BY <1>6, <1>10, <1>11, <1>13, <1>14, <2>1, ReopenedIsMindful
<1>15. CASE again.link.back # {}
    BY <1>6, <1>11, <1>13, <1>15
<1> QED
    BY <1>14, <1>15

LEMMA UserReplyIsMindful ==
    ASSUME NEW s, Sound(s), Mindful(s), s.phase = "live", s.link.opened,
           s.link.joinRef # NoRef, ~s.link.joined, NEW e, NEW ok
    PROVE  Mindful(UserReply(s, ok))
<1> DEFINE link == [s.link EXCEPT !.joined = TRUE]
           no == FALSE
           yes == TRUE
           j == [s EXCEPT !.link = link, !.renewed = no]
<1>1. s \in Sockets /\ Young(s) /\ Parted(s) /\ Owned(s)
    BY DEF Sound
<1>2. s.pending = {} /\ s.joining = {}
    BY <1>1 DEF Young
<1>3. \A i \in DOMAIN commands : i > s.read => commands[i].kind # "join"
    BY DEF Mindful, Asking, Ready
<1>4. /\ link \in Connections /\ link.joined /\ link.opened = s.link.opened
      /\ link.joinRef = s.link.joinRef /\ link.back = s.link.back
      /\ link.nextRef = s.link.nextRef
    BY <1>1 DEF Sockets, Connections
<1>5. no \in BOOLEAN
    OBVIOUS
<1>6. j = [s EXCEPT !.link.joined = TRUE, !.renewed = FALSE]
    BY <1>1 DEF Sockets, Connections
<1> HIDE DEF link, no
<1>7. j \in Sockets
    BY <1>1, <1>4, <1>5, SocketsAre DEF Typed, Flags
<1>8. Alike(s, j, {"link", "renewed"}) /\ j.link = link
    BY <1>1 DEF Sockets, Alike, Fields
<1> HIDE DEF j
<1>9. ASSUME NEW u, Alike(j, u, {"life", "once"})
      PROVE  Mindful(u) /\ u.pending = {}
    <2>1. /\ u.mine = s.mine /\ u.topics = s.topics /\ u.gone = s.gone /\ u.shut = s.shut
          /\ u.lost = s.lost /\ u.answers = s.answers /\ u.pending = {}
          /\ u.joining = {} /\ u.rejoining = s.rejoining /\ u.read = s.read
          /\ u.phase = s.phase /\ u.link = link
        BY <1>2, <1>8, <1>9 DEF Alike, Fields
    <2>2. Minded(u) /\ Asking(u) /\ Apart(u)
        BY <1>3, <1>4, <2>1 DEF Mindful, Minded, Asking, Apart
    <2>3. \A r \in DOMAIN asked : Awaits(u, r) => Awaits(s, r)
        BY <2>1 DEF Awaits
    <2> QED
        BY <2>1, <2>2, <2>3, MindfulAlone
<1>10. CASE ~ok
    <2> DEFINE where == "drop"
               u == [s EXCEPT !.next = where]
    <2>1. UserReply(s, ok) = u
        BY <1>10 DEF UserReply
    <2> HIDE DEF where
    <2>2. Alike(s, u, {"next"})
        BY <1>1 DEF Sockets, Alike, Fields
    <2> HIDE DEF u
    <2>3. u.link = s.link /\ u.pending = s.pending
        BY <2>2 DEF Alike, Fields
    <2>4. Alike(s, u, {"link", "sent", "next", "due", "renewed", "life", "once", "takes",
                       "tries", "amiss", "left"})
        BY <2>2 DEF Alike
    <2>5. s.link.nextRef \in Nat
        BY <1>1 DEF Sockets, Connections
    <2>6. Mindful(u)
        BY <2>3, <2>4, <2>5, MindfulStill
    <2> QED
        BY <1>2, <2>1, <2>3, <2>6
<1>11. CASE ok /\ s.once
    <2>1. /\ j.phase = "live" /\ j.pending = {} /\ j.joining = {} /\ j.read = s.read
          /\ j.link.joined
        BY <1>2, <1>4, <1>8 DEF Alike, Fields
    <2>2. Mindful(j)
        BY <1>9 DEF Alike
    <2>3. Young(j)
        BY <1>1, <1>2, <1>4, <1>8 DEF Young, Alike, Fields
    <2>4. Parted(j)
        BY <1>1, <1>8 DEF Parted, Alike, Fields
    <2>5. Owned(j)
        BY <1>1, <1>4, <1>8 DEF Owned, Its, Alike, Fields
    <2>6. Mindful(Rejoin(j)) /\ Rejoin(j).pending = {}
        BY <1>3, <1>7, <2>1, <2>2, <2>3, <2>4, <2>5, RejoinIsMindful
    <2>7. UserReply(s, ok) = Rejoin(j)
        BY <1>6, <1>11 DEF UserReply
    <2> QED
        BY <2>6, <2>7
<1>12. CASE ok /\ ~s.once
    <2> DEFINE life == Hear(j.life, [kind |-> "open"])
               u == [j EXCEPT !.life = life, !.once = yes]
    <2>1. UserReply(s, ok) = u
        BY <1>6, <1>7, <1>12 DEF UserReply, Tell, Sockets
    <2> HIDE DEF life, yes
    <2>2. Alike(j, u, {"life", "once"})
        BY <1>7 DEF Sockets, Alike, Fields
    <2> HIDE DEF u
    <2>3. Mindful(u) /\ u.pending = {}
        BY <1>9, <2>2
    <2> QED
        BY <2>1, <2>3
<1> QED
    BY <1>10, <1>11, <1>12

(* A call that waits is not answered, and no other call waits with it.     *)
LEMMA WaitingAwaits ==
    ASSUME NEW s, Accounted(s), CallsMade, NEW p \in s.pending
    PROVE  /\ p[2] \in DOMAIN asked /\ s.answers[p[2]] = 0 /\ ~Queued(s, p[2])
           /\ Joins(p) => Awaits(s, p[2])
<1>1. Waits(s, p[2]) /\ p[2] \in DOMAIN asked
    BY DEF Waits, Accounted
<1>2. s.answers[p[2]] = 0 /\ ~Queued(s, p[2])
    BY <1>1, AskedIds DEF Accounted
<1> QED
    BY <1>1, <1>2 DEF Awaits, Joins

LEMMA JoinsApart ==
    ASSUME NEW s, Accounted(s), CallsMade, OneTurn(s), NEW p \in s.pending, NEW q \in s.pending,
           Joins(p), Joins(q), On(p) = On(q)
    PROVE  p = q
<1>1. /\ p[2] \in DOMAIN asked /\ Awaits(s, p[2])
      /\ q[2] \in DOMAIN asked /\ Awaits(s, q[2])
    BY WaitingAwaits
<1>2. p[2] = q[2]
    BY <1>1 DEF OneTurn, On
<1> QED
    BY <1>2 DEF Accounted

LEMMA CallReplyIsMindful ==
    ASSUME NEW s, Sound(s), CallsMade, Mindful(s), s.phase = "live",
           NEW e \in Events, e.kind = "reply", Its(s, e.ref, e.request)
    PROVE  Mindful(CallReply(s, e))
<1> DEFINE u == CallReply(s, e)
           join == {p[2] : p \in {q \in s.joining : q[1] = e.ref}}
           joining == {p \in s.joining : p[1] # e.ref}
           topics == IF e.ok THEN s.topics ELSE s.topics \ join
           pending == {p \in s.pending : p[1] # e.ref}
           f == [s EXCEPT !.joining = joining, !.topics = topics]
           g == [s EXCEPT !.joining = joining, !.topics = topics, !.pending = pending]
           r == Of(s.pending, e.ref)
           how == IF e.ok THEN "ok" ELSE "refused"
<1>1. s \in Sockets /\ Accounted(s) /\ Owned(s) /\ OneTurn(s)
    BY DEF Sound, Mindful
<1>2. joining \subseteq s.joining /\ topics \subseteq s.topics /\ pending \subseteq s.pending
    OBVIOUS
<1>3. ASSUME NEW t \in join
      PROVE  \E p \in s.pending : p[1] = e.ref /\ Joins(p) /\ On(p) = t
    <2>1. PICK j \in s.joining : j[1] = e.ref /\ j[2] = t
        OBVIOUS
    <2> QED
        BY <2>1 DEF Mindful, Listed
<1>4. \A j \in joining : j \in s.joining /\ j[1] # e.ref
    OBVIOUS
<1>5. \A p : p \in pending <=> p \in s.pending /\ p[1] # e.ref
    OBVIOUS
<1>6. \A t \in s.topics : t \in topics \/ t \in join
    OBVIOUS
<1>7. e.ok => topics = s.topics
    OBVIOUS
<1>8. f = [s EXCEPT !.joining = {p \in @ : p[1] # e.ref},
                    !.topics = IF e.ok THEN @ ELSE @ \ join]
    BY <1>1 DEF Sockets
<1>9. /\ g \in Sockets /\ Alike(s, g, {"joining", "topics", "pending"})
      /\ g.joining = joining /\ g.topics = topics /\ g.pending = pending
    <2> HIDE DEF joining, topics, pending
    <2>1. joining \in Joinings /\ topics \in TopicSets /\ pending \in Pendings
        BY <1>1, <1>2 DEF Sockets, Joinings, TopicSets, Pendings
    <2>2. g \in Sockets
        BY <1>1, <2>1, SocketsAre DEF Typed
    <2>3. /\ Alike(s, g, {"joining", "topics", "pending"})
          /\ g.joining = joining /\ g.topics = topics /\ g.pending = pending
        BY <1>1 DEF Sockets, Alike, Fields
    <2> QED
        BY <2>2, <2>3
<1>10. CallReply(s, e) = IF e.ref \notin Refs(s.pending) THEN f
           ELSE [Answer(f, r, how) EXCEPT
                    !.pending = {p \in @ : p[1] # e.ref},
                    !.amiss = IF r = e.request THEN @ ELSE @ \union {"crossed"}]
    BY <1>8 DEF CallReply
<1> HIDE DEF join, joining, topics, g, r, how, u
<1>11. /\ g.mine = s.mine /\ g.gone = s.gone /\ g.shut = s.shut
       /\ g.lost = s.lost /\ g.answers = s.answers
       /\ g.read = s.read /\ g.phase = s.phase /\ g.link = s.link
       /\ g.rejoining = s.rejoining /\ g.sent = s.sent
    BY <1>9 DEF Alike, Fields
<1>12. Minded(g)
    <2>1. ASSUME NEW t \in s.mine
          PROVE  t \in g.topics \union g.gone \union g.lost \union g.shut
        <3>1. t \in s.topics \union s.gone \union s.lost \union s.shut
            BY DEF Mindful, Minded
        <3>2. t \notin join
            <4>1. SUFFICES ASSUME t \in join PROVE FALSE
                OBVIOUS
            <4>2. PICK p \in s.pending : Joins(p) /\ On(p) = t
                BY <1>3, <4>1
            <4>3. p[2] \in DOMAIN asked /\ Awaits(s, p[2])
                BY <1>1, <4>2, WaitingAwaits
            <4> QED
                BY <1>1, <4>2, <4>3 DEF OneTurn, On
        <3> QED
            BY <1>6, <1>9, <1>11, <3>1, <3>2
    <2> QED
        BY <1>11, <2>1 DEF Minded
<1>13. OneTurn(g)
    BY <1>1, <1>11 DEF OneTurn, Awaits
<1>14. Listed(g)
    <2>1. ASSUME NEW j \in g.joining
          PROVE  \E p \in g.pending : p[1] = j[1] /\ Joins(p) /\ On(p) = j[2]
        <3>1. j \in s.joining /\ j[1] # e.ref
            BY <1>4, <1>9
        <3>2. PICK p \in s.pending : p[1] = j[1] /\ Joins(p) /\ On(p) = j[2]
            BY <3>1 DEF Mindful, Listed
        <3> QED
            BY <1>5, <1>9, <3>1, <3>2
    <2> QED
        BY <2>1 DEF Listed
<1>15. Coming(g)
    <2>1. ASSUME NEW p \in g.pending, Joins(p)
          PROVE  g.link.back = {} /\ On(p) \in g.topics \union g.gone \union g.shut
        <3>1. p \in s.pending /\ p[1] # e.ref
            BY <1>5, <1>9
        <3>2. s.link.back = {} /\ On(p) \in s.topics \union s.gone \union s.shut
            BY <2>1, <3>1 DEF Mindful, Coming
        <3>3. On(p) \notin join
            <4>1. SUFFICES ASSUME On(p) \in join PROVE FALSE
                OBVIOUS
            <4>2. PICK q \in s.pending : q[1] = e.ref /\ Joins(q) /\ On(q) = On(p)
                BY <1>3, <4>1
            <4> QED
                BY <1>1, <2>1, <3>1, <4>2, JoinsApart
        <3> QED
            BY <1>6, <1>9, <1>11, <3>2, <3>3
    <2> QED
        BY <2>1 DEF Coming
<1>16. Apart(g) /\ Asking(g)
    <2>1. \A p \in g.pending : p \in s.pending
        BY <1>5, <1>9
    <2> QED
        BY <1>11, <2>1 DEF Mindful, Apart, Asking, Ready
<1>17. Mindful(g)
    BY <1>12, <1>13, <1>14, <1>15, <1>16 DEF Mindful
<1>19. CASE e.ref \notin Refs(s.pending)
    <2>1. pending = s.pending
        BY <1>19 DEF Refs
    <2>2. g = [s EXCEPT !.joining = joining, !.topics = topics, !.pending = s.pending]
        BY <2>1 DEF g
    <2> HIDE DEF pending
    <2>3. f = g
        BY <1>1, <2>2 DEF Sockets
    <2> QED
        BY <1>10, <1>17, <1>19, <2>3
<1>20. CASE e.ref \in Refs(s.pending)
    <2>1. PICK p \in s.pending : p[1] = e.ref
        BY <1>20 DEF Refs
    <2>2. r = p[2]
        <3>1. \A q \in s.pending : q[1] = e.ref => q = p
            BY <1>1, <2>1 DEF Owned
        <3>2. (CHOOSE q \in s.pending : q[1] = e.ref) = p
            BY <2>1, <3>1
        <3> QED
            BY <3>2, Zenon DEF Of, r
    <2>3. r = e.request
        BY <2>1, <2>2 DEF Its
    <2>4. r \in DOMAIN asked /\ s.answers[r] = 0
        BY <1>1, <2>2, WaitingAwaits
    <2>5. asked[r].kind = "join" /\ how = "ok" =>
              asked[r].topic \in g.topics \union g.gone \union g.shut
        <3>1. SUFFICES ASSUME asked[r].kind = "join", how = "ok"
                       PROVE  asked[r].topic \in g.topics \union g.gone \union g.shut
            OBVIOUS
        <3>2. e.ok
            BY <3>1 DEF how
        <3>3. On(p) \in s.topics \union s.gone \union s.shut
            BY <2>2, <3>1 DEF Mindful, Coming, Joins
        <3> QED
            BY <1>7, <1>9, <1>11, <2>2, <3>2, <3>3 DEF On
    <2> DEFINE a == Answer(g, r, how)
    <2>6. Mindful(a)
        BY <1>9, <1>11, <1>17, <2>4, <2>5, AnswerIsMindful
    <2>7. Alike(g, a, {"answers", "mine"})
        BY <1>9, <2>4, AnswerIs, Zenon
    <2>8. u = a
        <3> DEFINE told == [s.answers EXCEPT ![r] = @ + 1]
                   mine == IF /\ asked[r].kind = "join" /\ how = "ok"
                              /\ LatestOn(asked[r].topic, r)
                           THEN s.mine \union {asked[r].topic} ELSE s.mine
        <3>1. Answer(f, r, how) = [f EXCEPT !.answers = told, !.mine = mine]
            BY <1>1 DEF Answer, Sockets
        <3>2. a = [g EXCEPT !.answers = told, !.mine = mine]
            BY <1>1 DEF Answer, Sockets, g
        <3>3. u = [Answer(f, r, how) EXCEPT !.pending = {q \in @ : q[1] # e.ref},
                                            !.amiss = @]
            BY <1>10, <1>20, <2>3 DEF u
        <3> HIDE DEF told, mine, a
        <3>4. /\ Answer(f, r, how).pending = s.pending
              /\ Answer(f, r, how).amiss = s.amiss
            BY <1>1, <3>1 DEF Sockets
        <3>5. u = [Answer(f, r, how) EXCEPT !.pending = pending, !.amiss = s.amiss]
            BY <1>1, <3>1, <3>3, <3>4 DEF Sockets
        <3> HIDE DEF pending
        <3> QED
            BY <1>1, <3>1, <3>2, <3>5 DEF g, Sockets
    <2> HIDE DEF a
    <2> QED
        BY <2>6, <2>8 DEF u
<1> QED
    BY <1>19, <1>20

LEMMA DeliverIsMindful ==
    ASSUME NEW s, Sound(s), CallsMade, Mindful(s), s.phase = "live", Hearable(s),
           NEW k \in 0 .. Len(wire) - 1
    PROVE  Mindful(Deliver(s, wire[k + 1]))
<1> DEFINE e == wire[k + 1]
           u == Deliver(s, e)
<1>1. /\ wire \in Seq(Events) /\ DOMAIN wire \subseteq Nat /\ k \in Nat
      /\ k + 1 \in DOMAIN wire /\ e \in Events
    BY DEF Hearable
<1>2. /\ e.kind = "reply" => e.ref # NoRef
      /\ e.kind \in {"reply", "message"} => s.link.opened
    BY <1>1 DEF Hearable
<1>3. e.kind = "reply" => Its(s, e.ref, e.request)
    BY <1>1 DEF Sound, Owned
<1>4. e.kind = "reply" => e.ok \in BOOLEAN
    BY <1>1 DEF Events
<1>6. CASE s.next # "stay"
    BY <1>6 DEF Deliver
<1> HIDE DEF e
<1>8. CASE s.next = "stay" /\ e.kind = "reply"
    <2>1. u = Reply(s, e)
        BY <1>8 DEF Deliver
    <2>2. CASE ~s.link.joined /\ e.ref = s.link.joinRef
        <3>1. u = UserReply(s, e.ok)
            BY <2>1, <2>2 DEF Reply
        <3>2. Mindful(u)
            BY <1>2, <1>8, <2>2, <3>1, UserReplyIsMindful
        <3> QED
            BY <3>2 DEF e
    <2>3. CASE ~(~s.link.joined /\ e.ref = s.link.joinRef) /\ e.ref \in Refs(s.link.back)
        <3>1. u = BackReply(s, e.ref, e.ok)
            BY <2>1, <2>3 DEF Reply
        <3>2. Mindful(u)
            BY <1>1, <1>4, <1>8, <2>3, <3>1, BackReplyIsMindful
        <3> QED
            BY <3>2 DEF e
    <2>4. CASE /\ ~(~s.link.joined /\ e.ref = s.link.joinRef) /\ e.ref \notin Refs(s.link.back)
               /\ \E x \in s.rejoining : x.ref = e.ref
        <3>1. u = CrashReply(s, e.ref, e.ok)
            BY <2>1, <2>4 DEF Reply
        <3>2. Mindful(u)
            BY <1>1, <1>8, <2>4, <3>1, CrashReplyIsMindful
        <3> QED
            BY <3>2 DEF e
    <2>5. CASE /\ ~(~s.link.joined /\ e.ref = s.link.joinRef) /\ e.ref \notin Refs(s.link.back)
               /\ ~\E x \in s.rejoining : x.ref = e.ref
        <3>1. u = CallReply(s, e)
            BY <2>1, <2>5 DEF Reply
        <3>2. Mindful(u)
            BY <1>1, <1>3, <1>8, <3>1, CallReplyIsMindful
        <3> QED
            BY <3>2 DEF e
    <2> QED
        BY <2>2, <2>3, <2>4, <2>5
<1>9. CASE s.next = "stay" /\ e.kind = "message"
    <2>1. u = Message(s, e)
        BY <1>9 DEF Deliver
    <2>2. Mindful(u)
        BY <1>1, <1>9, <2>1, MessageIsMindful
    <2> QED
        BY <2>2 DEF e
<1>10. CASE s.next = "stay" /\ e.kind \notin {"reply", "message"}
    <2>1. u = s
        BY <1>10 DEF Deliver
    <2> QED
        BY <2>1 DEF e
<1> QED
    BY <1>6, <1>8, <1>9, <1>10 DEF e

LEMMA HeardIsMindful ==
    ASSUME NEW s, Sound(s), s.phase = "live", CallsMade, Hearable(s), Mindful(s)
    PROVE  Mindful(Heard(s))
<1> DEFINE n == Len(wire)
<1>1. n \in Nat
    BY DEF Hearable
<1>2. PICK f : /\ f[0] = s /\ Heard(s) = f[n]
               /\ \A i \in 0 .. n : f[i] \in Beyond(s)
               /\ \A i \in 1 .. n : f[i] = Deliver(f[i - 1], wire[i])
    BY HeardSteps
<1> DEFINE P == {i \in 0 .. n : Mindful(f[i])}
<1>3. 0 \in P
    BY <1>1, <1>2
<1>4. ASSUME NEW i \in 0 .. n - 1, i \in P
      PROVE  i + 1 \in P
    <2>1. i \in 0 .. n /\ i + 1 \in 1 .. n /\ i + 1 \in 0 .. n /\ i + 1 - 1 = i
        BY <1>1
    <2>2. Mindful(f[i])
        BY <1>4
    <2>3. Sound(f[i]) /\ Onward(s, f[i])
        BY <1>2, <2>1 DEF Beyond
    <2>4. f[i].phase = "live" /\ Hearable(f[i])
        BY <2>3 DEF Onward, Hearable
    <2>5. f[i + 1] = Deliver(f[i], wire[i + 1])
        BY <1>2, <2>1
    <2>6. Mindful(f[i + 1])
        BY <2>2, <2>3, <2>4, <2>5, DeliverIsMindful
    <2> QED
        BY <2>1, <2>6
<1> HIDE DEF P
<1>5. 0 .. n \subseteq P
    BY <1>1, <1>3, <1>4, StepByStep
<1>6. n \in P
    BY <1>1, <1>5
<1> QED
    BY <1>2, <1>6 DEF P

-----------------------------------------------------------------------------
(* The rest of a tick.                                                     *)
LEMMA StoppingIsMindful ==
    ASSUME NEW s, Sound(s), Mindful(s), NEW where, where # "stay"
    PROVE  LET u == [s EXCEPT !.next = where] IN Mindful(u)
<1> DEFINE u == [s EXCEPT !.next = where]
<1>1. s \in Sockets /\ s.link.nextRef \in Nat
    BY DEF Sound, Sockets, Connections
<1>2. Alike(s, u, {"next"}) /\ u.next = where
    BY <1>1 DEF Sockets, Alike, Fields
<1> HIDE DEF u
<1>3. u.link = s.link
    BY <1>2 DEF Alike, Fields
<1>4. Alike(s, u, {"link", "sent", "next", "due", "renewed", "life", "once", "takes",
                   "tries", "amiss", "left"})
    BY <1>2 DEF Alike
<1>5. Mindful(u)
    BY <1>1, <1>3, <1>4, MindfulStill
<1> QED
    BY <1>2, <1>5 DEF u

LEMMA DecodedIsMindful ==
    ASSUME NEW s, Sound(s), Mindful(s)
    PROVE  Mindful(Decoded(s))
<1> DEFINE u == Decoded(s)
           opened == s.link.opened \/ \E e \in Received : e.kind = "opened"
           joins == s.link.joins \ {e.topic : e \in {x \in Received : x.kind = "message"}}
           beat == s.link.beat /\ ~\E e \in Received : e.kind = "beat"
           link == [s.link EXCEPT !.opened = opened, !.joins = joins, !.beat = beat]
<1>1. s \in Sockets /\ s.link \in Connections
    BY DEF Sound, Sockets
<1>2. u = [s EXCEPT !.link = link]
    BY <1>1 DEF Decoded, Sockets, Connections
<1> HIDE DEF opened, joins, beat
<1>3. /\ link.joined = s.link.joined /\ link.back = s.link.back
      /\ link.nextRef = s.link.nextRef /\ s.link.nextRef \in Nat
    BY <1>1 DEF Connections
<1> HIDE DEF link, u
<1>4. Alike(s, u, {"link"}) /\ u.link = link
    BY <1>1, <1>2 DEF Sockets, Alike, Fields
<1>5. u.pending = s.pending /\ u.sent = s.sent /\ u.next = s.next
    BY <1>4 DEF Alike, Fields
<1>6. Alike(s, u, {"link", "sent", "next", "due", "renewed", "life", "once", "takes",
                   "tries", "amiss", "left"})
    BY <1>4 DEF Alike
<1>7. Mindful(u)
    BY <1>3, <1>4, <1>6, MindfulStill
<1> QED
    BY <1>7 DEF u

LEMMA HelloIsMindful ==
    ASSUME NEW s, Sound(s), Mindful(s)
    PROVE  Mindful(Hello(s))
<1> DEFINE one == <<User>>
           a == JoinAll(s, one)
           ref == s.link.nextRef
           link == [a.link EXCEPT !.joinRef = ref]
           u == [a EXCEPT !.link.joinRef = ref]
<1>1. s \in Sockets /\ Owned(s) /\ s.link.nextRef \in Nat
    BY DEF Sound, Sockets, Connections
<1>2. CASE ~(s.link.opened /\ s.link.joinRef = NoRef)
    BY <1>2 DEF Hello
<1>3. CASE s.link.opened /\ s.link.joinRef = NoRef /\ ~s.takes
    BY <1>3, StoppingIsMindful DEF Hello, Sends
<1>4. CASE s.link.opened /\ s.link.joinRef = NoRef /\ s.takes
    <2>1. one \in Seq(Channels) /\ Range(one) \intersect s.left = {} /\ Len(one) = 1
        <3>1. Range(one) = {User}
            BY DEF Range
        <3>2. User \notin s.left
            BY <1>1, RtConstants DEF Sockets
        <3> QED
            BY <3>1, <3>2 DEF Channels
    <2>2. Hello(s) = u
        BY <1>4 DEF Hello, Sends
    <2> HIDE DEF one
    <2>3. /\ a \in Sockets /\ Alike(s, a, {"link", "sent"})
          /\ a.link.nextRef = s.link.nextRef + Len(one)
          /\ a.link.joined = s.link.joined /\ a.link.back = s.link.back
        BY <1>1, <2>1, JoinAllIsOwned, Zenon
    <2> HIDE DEF a, ref
    <2>5. u = [a EXCEPT !.link = link]
        BY <2>3 DEF Sockets, Connections
    <2>6. /\ link.joined = s.link.joined /\ link.back = s.link.back
          /\ link.nextRef \in Nat /\ link.nextRef >= s.link.nextRef
        BY <1>1, <2>1, <2>3 DEF Sockets, Connections
    <2> HIDE DEF u, link
    <2>7. Alike(a, u, {"link"}) /\ u.link = link
        BY <2>3, <2>5 DEF Sockets, Alike, Fields
    <2>8. /\ u.pending = s.pending /\ u.sent = a.sent /\ u.next = s.next
          /\ Alike(s, u, {"link", "sent", "next", "due", "renewed", "life", "once", "takes",
                          "tries", "amiss", "left"})
        BY <2>3, <2>7 DEF Alike, Fields
    <2>9. Mindful(u)
        BY <1>1, <2>6, <2>7, <2>8, MindfulStill
    <2> QED
        BY <2>2, <2>9
<1> QED
    BY <1>2, <1>3, <1>4

LEMMA CutOffIsMindful ==
    ASSUME NEW s, Sound(s), Mindful(s)
    PROVE  Mindful(CutOff(s))
<1> DEFINE ends == {e.kind : e \in Received} \intersect {"refused", "closed"}
           where == IF "refused" \in ends THEN "refused" ELSE "drop"
<1>1. CASE s.next # "stay" \/ ends = {}
    BY <1>1 DEF CutOff
<1>2. CASE ~(s.next # "stay" \/ ends = {})
    <2>1. CutOff(s) = [s EXCEPT !.next = where] /\ where # "stay"
        BY <1>2 DEF CutOff
    <2> HIDE DEF where, ends
    <2> QED
        BY <2>1, StoppingIsMindful
<1> QED
    BY <1>1, <1>2

LEMMA BeatDueIsMindful ==
    ASSUME NEW s, Sound(s), Mindful(s), NEW beat
    PROVE  Mindful(BeatDue(s, beat))
<1> DEFINE frame == [ref |-> NoRef, kind |-> "beat", topic |-> User, request |-> 0]
           yes == TRUE
           link == [s.link EXCEPT !.beat = yes]
           sent == Append(s.sent, frame)
           u == [s EXCEPT !.sent = sent, !.link = link]
<1>1. s \in Sockets /\ s.link \in Connections /\ s.sent \in Seq(Frames)
    BY DEF Sound, Sockets
<1>2. CASE ~(Going(s) /\ beat)
    BY <1>2 DEF BeatDue
<1>3. CASE Going(s) /\ beat /\ (s.link.beat \/ ~s.takes)
    BY <1>3, StoppingIsMindful DEF BeatDue, Heartbeat, Sends
<1>4. CASE Going(s) /\ beat /\ ~(s.link.beat \/ ~s.takes)
    <2>1. BeatDue(s, beat) = u
        BY <1>1, <1>4 DEF BeatDue, Heartbeat, Send, Sends, Sockets, Connections
    <2> HIDE DEF frame, yes
    <2>2. /\ link.joined = s.link.joined /\ link.back = s.link.back
          /\ link.nextRef = s.link.nextRef /\ s.link.nextRef \in Nat
        BY <1>1 DEF Connections
    <2> HIDE DEF link, sent
    <2>4. Alike(s, u, {"sent", "link"}) /\ u.sent = sent /\ u.link = link
        BY <1>1 DEF Sockets, Alike, Fields
    <2> HIDE DEF u
    <2>5. /\ u.pending = s.pending /\ u.next = s.next
          /\ Alike(s, u, {"link", "sent", "next", "due", "renewed", "life", "once", "takes",
                          "tries", "amiss", "left"})
        BY <2>4 DEF Alike, Fields
    <2>6. Mindful(u)
        BY <2>2, <2>4, <2>5, MindfulStill
    <2> QED
        BY <2>1, <2>6
<1> QED
    BY <1>2, <1>3, <1>4

LEMMA RejoinDueIsMindful ==
    ASSUME NEW s, Sound(s), s.phase = "live", Mindful(s), NEW ready
    PROVE  Mindful(RejoinDue(s, ready))
<1> DEFINE due == {d \in s.due : d.topic \in ready}
           list == SetToSeq(due)
           rest == s.due \ due
           taken == [s EXCEPT !.due = rest]
           topics == [i \in DOMAIN list |-> list[i].topic]
           a == JoinAll(taken, topics)
           n == s.link.nextRef
           more == {[ref |-> n + i - 1, topic |-> list[i].topic,
                     attempt |-> list[i].attempt] : i \in DOMAIN list}
           rejoining == a.rejoining \union more
           u == [a EXCEPT !.rejoining = rejoining]
<1>1. s \in Sockets /\ Young(s) /\ Parted(s) /\ Owned(s) /\ n \in Nat \ {0}
    BY DEF Sound, Sockets, Connections
<1>2. IsFiniteSet(due) /\ due \subseteq s.due /\ rest \in Dues
    <2>1. due \subseteq s.due /\ rest \subseteq s.due
        OBVIOUS
    <2> HIDE DEF due, rest
    <2> QED
        BY <1>1, <2>1, FS_Subset DEF Young, Sockets, Dues
<1>3. taken = [s EXCEPT !.due = @ \ due]
    BY <1>1 DEF Sockets
<1>4. CASE ~Going(s) \/ due = {}
    BY <1>4 DEF RejoinDue
<1>5. CASE Going(s) /\ due # {}
    <2>1. RejoinDue(s, ready) = IF ~s.takes THEN [taken EXCEPT !.next = "drop"] ELSE u
        BY <1>3, <1>5 DEF RejoinDue, Sends
    <2> HIDE DEF due, rest, n
    <2>2. taken \in Sockets /\ Alike(s, taken, {"due"})
        BY <1>1, <1>2, SocketsAre DEF Typed, Alike, Fields
    <2> DEFINE drop == "drop"
               v == [s EXCEPT !.next = drop]
               w == [taken EXCEPT !.next = drop]
    <2>3. CASE ~s.takes
        <3>1. drop # "stay"
            OBVIOUS
        <3> HIDE DEF taken
        <3>2. RejoinDue(s, ready) = w
            BY <2>1, <2>3
        <3> HIDE DEF drop
        <3>3. Alike(taken, w, {"next"}) /\ w.next = drop
            BY <2>2 DEF Sockets, Alike, Fields
        <3> HIDE DEF w
        <3>4. /\ w.link = s.link
              /\ Alike(s, w, {"link", "sent", "next", "due", "renewed", "life", "once", "takes",
                              "tries", "amiss", "left"})
            BY <2>2, <3>3 DEF Alike, Fields
        <3>5. Mindful(w)
            BY <1>1, <3>4, MindfulStill DEF n
        <3> QED
            BY <3>1, <3>2, <3>3, <3>5
    <2>4. CASE s.takes
        <3> HIDE DEF taken
        <3>1. list \in Seq(due)
            BY <1>2, InSomeOrder
        <3> HIDE DEF list
        <3>2. /\ Len(list) \in Nat /\ DOMAIN list = 1 .. Len(list)
              /\ \A i \in DOMAIN list : list[i] \in s.due
            BY <1>2, <3>1
        <3>3. \A i \in DOMAIN list : list[i].topic \in Channels /\ list[i].topic \notin s.left
            BY <1>1, <3>2 DEF Sockets, Parted
        <3>4. /\ topics \in Seq(Channels) /\ Len(topics) = Len(list)
              /\ \A x \in Range(topics) : x \notin s.left
            BY <3>2, <3>3 DEF Range
        <3>5. Range(topics) \intersect taken.left = {}
            BY <2>2, <3>4 DEF Alike, Fields
        <3>6. \A x \in more : x.ref \in n .. n + Len(list) - 1
            BY <1>1, <3>2
        <3> HIDE DEF topics, more
        <3>7. Owned(taken) /\ taken.link = s.link
            BY <1>1, <2>2 DEF Owned, Its, Alike, Fields
        <3>8. /\ a \in Sockets /\ Alike(taken, a, {"link", "sent"})
              /\ a.link.nextRef = taken.link.nextRef + Len(topics)
              /\ a.link.joined = taken.link.joined /\ a.link.back = taken.link.back
            BY <2>2, <3>4, <3>5, <3>7, JoinAllIsOwned, Zenon
        <3> HIDE DEF a
        <3>10. \A x \in rejoining : x \in s.rejoining \/ x \in more
            BY <2>2, <3>8 DEF Alike, Fields
        <3> HIDE DEF rejoining
        <3>11. Alike(a, u, {"rejoining"}) /\ u.rejoining = rejoining
            BY <3>8 DEF Sockets, Alike, Fields
        <3> HIDE DEF u
        <3>12. /\ u.link.nextRef = n + Len(list) /\ u.link.joined = s.link.joined
               /\ u.link.back = s.link.back
            BY <3>4, <3>7, <3>8, <3>11 DEF Alike, Fields, n
        <3>13. /\ u.mine = s.mine /\ u.topics = s.topics /\ u.gone = s.gone /\ u.shut = s.shut
               /\ u.lost = s.lost /\ u.answers = s.answers /\ u.pending = s.pending
               /\ u.joining = s.joining /\ u.read = s.read /\ u.phase = s.phase
            BY <2>2, <3>8, <3>11 DEF Alike, Fields
        <3>14. Minded(u) /\ OneTurn(u) /\ Listed(u) /\ Coming(u) /\ Asking(u)
            BY <3>12, <3>13 DEF Mindful, Minded, OneTurn, Awaits, Listed, Coming, Asking, Ready
        <3>15. Apart(u)
            <4>1. ASSUME NEW x \in u.rejoining
                  PROVE  /\ x.ref \in 1 .. u.link.nextRef - 1
                         /\ \A p \in u.pending : p[1] # x.ref
                <5>1. \A p \in s.pending : p[1] \in 1 .. n - 1
                    BY <1>1 DEF Owned, n
                <5>2. CASE x \in s.rejoining
                    <6>1. /\ x.ref \in 1 .. n - 1
                          /\ \A p \in s.pending : p[1] # x.ref
                        BY <5>2 DEF Mindful, Apart, n
                    <6> QED
                        BY <1>1, <3>2, <3>12, <3>13, <6>1
                <5>3. CASE x \in more
                    BY <1>1, <3>2, <3>6, <3>12, <3>13, <5>1, <5>3
                <5> QED
                    BY <3>10, <3>11, <5>2, <5>3
            <4> QED
                BY <4>1 DEF Apart
        <3>16. Mindful(u)
            BY <3>14, <3>15 DEF Mindful
        <3> QED
            BY <2>1, <2>4, <3>16
    <2> QED
        BY <2>3, <2>4
<1> QED
    BY <1>4, <1>5

-----------------------------------------------------------------------------
(* What the game asks.                                                     *)
LEMMA HoldingAwaits ==
    ASSUME NEW s, CallsMade, NEW r, Holding(s, r)
    PROVE  /\ r \in DOMAIN asked /\ s.answers[r] = 0
           /\ \A p \in s.pending : /\ p[2] \in DOMAIN asked /\ p[2] # r
                                   /\ Joins(p) => Awaits(s, p[2])
<1>1. \A p \in s.pending : Waits(s, p[2]) /\ p[2] \in DOMAIN asked
    BY DEF Waits, Holding
<1>2. \A p \in s.pending : p[2] \in Ids \ {r}
    BY <1>1, AskedIds DEF Holding
<1>3. \A p \in s.pending : s.answers[p[2]] = 0
    BY <1>1, <1>2 DEF Holding
<1> QED
    BY <1>1, <1>2, <1>3 DEF Holding, Awaits, Joins

(* A call that is sent, and the join that waits for its reply with it.     *)
LEMMA PostIsMindful ==
    ASSUME NEW s, CallsMade, NEW r, Holding(s, r), s.phase = "live", NEW kind, NEW t,
           asked[r].kind = kind, asked[r].topic = t,
           Minded(s), OneTurn(s), Coming(s), Apart(s), Asking(s),
           \A j \in s.joining :
                \/ \E p \in s.pending : p[1] = j[1] /\ Joins(p) /\ On(p) = j[2]
                \/ kind = "join" /\ j = <<s.link.nextRef, t>>,
           kind = "join" => s.link.back = {} /\ t \in s.topics \union s.gone \union s.shut,
           wire \in Seq(Events)
    PROVE  LET u == Post(s, kind, t, r) IN Mindful(u)
<1> DEFINE u == Post(s, kind, t, r)
           n == s.link.nextRef
           m == n + 1
           link == [s.link EXCEPT !.nextRef = m]
           new == <<n, r>>
           pending == s.pending \union {new}
           frame == [ref |-> n, kind |-> kind, topic |-> t, request |-> r]
           sent == IF s.takes THEN Append(s.sent, frame) ELSE s.sent
           next == IF s.takes THEN s.next ELSE "drop"
<1>1. s \in Sockets /\ Owned(s) /\ s.link \in Connections
    BY DEF Holding, Sockets
<1>2. n \in Nat \ {0} /\ m = n + 1
    BY <1>1 DEF Connections
<1>3. u = [s EXCEPT !.link = link, !.pending = pending, !.sent = sent, !.next = next]
    <2>1. CASE s.takes
        BY <1>1, <2>1 DEF Post, Sends, Send, Sockets, Connections
    <2>2. CASE ~s.takes
        BY <1>1, <2>2 DEF Post, Sends, Send, Sockets, Connections
    <2> QED
        BY <2>1, <2>2
<1> HIDE DEF m
<1>4. /\ link.nextRef = n + 1 /\ link.joined = s.link.joined /\ link.back = s.link.back
    BY <1>1, <1>2 DEF Connections
<1>5. /\ new[1] = n /\ new[2] = r
      /\ \A p : p \in pending <=> p \in s.pending \/ p = new
    OBVIOUS
<1>6. frame.kind = kind /\ frame.ref = n /\ frame.topic = t
    OBVIOUS
<1>9. \A p \in s.pending : p[1] \in 1 .. n - 1
    BY <1>1 DEF Owned
<1> HIDE DEF u, n, link, new, pending, frame, sent, next
<1>10. /\ Alike(s, u, {"link", "pending", "sent", "next"}) /\ u.link = link
       /\ u.pending = pending /\ u.sent = sent /\ u.next = next
    BY <1>1, <1>3 DEF Sockets, Alike, Fields
<1>11. /\ u.mine = s.mine /\ u.topics = s.topics /\ u.gone = s.gone /\ u.shut = s.shut
       /\ u.lost = s.lost /\ u.answers = s.answers /\ u.joining = s.joining
       /\ u.rejoining = s.rejoining /\ u.read = s.read /\ u.phase = s.phase
    BY <1>10 DEF Alike, Fields
<1>12. Minded(u) /\ OneTurn(u) /\ Asking(u)
    BY <1>4, <1>10, <1>11 DEF Minded, OneTurn, Awaits, Asking, Ready
<1>13. On(new) = t /\ (Joins(new) <=> kind = "join")
    BY <1>5 DEF On, Joins
<1>14. Listed(u)
    <2>1. ASSUME NEW j \in u.joining
          PROVE  \E p \in u.pending : p[1] = j[1] /\ Joins(p) /\ On(p) = j[2]
        <3>1. CASE \E p \in s.pending : p[1] = j[1] /\ Joins(p) /\ On(p) = j[2]
            BY <1>5, <1>10, <3>1
        <3>2. CASE kind = "join" /\ j = <<n, t>>
            <4>1. j[1] = n /\ j[2] = t
                BY <3>2
            <4> QED
                BY <1>5, <1>10, <1>13, <3>2, <4>1
        <3> QED
            BY <1>11, <3>1, <3>2 DEF n
    <2> QED
        BY <2>1 DEF Listed
<1>15. Coming(u)
    BY <1>4, <1>5, <1>10, <1>11, <1>13 DEF Coming
<1>16. Apart(u)
    <2>1. ASSUME u.phase = "live", NEW x \in u.rejoining
          PROVE  /\ x.ref \in 1 .. u.link.nextRef - 1
                 /\ \A p \in u.pending : p[1] # x.ref
        <3>1. x.ref \in 1 .. n - 1 /\ \A p \in s.pending : p[1] # x.ref
            BY <1>11, <2>1 DEF Apart, n
        <3>2. x.ref # n /\ x.ref \in 1 .. u.link.nextRef - 1
            BY <1>2, <1>4, <1>10, <3>1
        <3> QED
            BY <1>5, <1>10, <3>1, <3>2
    <2> QED
        BY <2>1 DEF Apart
<1>17. Mindful(u)
    BY <1>12, <1>14, <1>15, <1>16 DEF Mindful
<1> QED
    BY <1>17 DEF u

LEMMA RefuseIsMindful ==
    ASSUME NEW s, CallsMade, NEW c, Holding(s, c.request), Mindful(s),
           asked[c.request].kind # "join", NEW how
    PROVE  Mindful(Refuse(s, c, how))
<1> DEFINE n == s.link.nextRef + 1
           link == [s.link EXCEPT !.nextRef = n]
           v == [s EXCEPT !.link = link]
           r == c.request
           u == Answer(v, r, how)
<1>1. s \in Sockets /\ s.link \in Connections
    BY DEF Holding, Sockets
<1>2. r \in DOMAIN asked /\ s.answers[r] = 0
    BY HoldingAwaits
<1>3. n \in Nat \ {0} /\ n >= s.link.nextRef /\ s.link.nextRef \in Nat
    BY <1>1 DEF Connections
<1>4. v = [s EXCEPT !.link.nextRef = @ + 1]
    BY <1>1 DEF Sockets, Connections
<1> HIDE DEF n
<1>5. /\ link \in Connections /\ link.nextRef = n /\ link.joined = s.link.joined
      /\ link.back = s.link.back
    BY <1>1, <1>3 DEF Connections
<1> HIDE DEF link
<1>6. v \in Sockets /\ Alike(s, v, {"link"}) /\ v.link = link
    BY <1>1, <1>5, SocketsAre DEF Typed, Alike, Fields
<1>7. Refuse(s, c, how) = u
    BY <1>4 DEF Refuse
<1> HIDE DEF v, r
<1>8. Alike(s, v, {"link", "sent", "next", "due", "renewed", "life", "once", "takes",
                   "tries", "amiss", "left"})
    BY <1>6 DEF Alike
<1>9. Mindful(v)
    BY <1>3, <1>5, <1>6, <1>8, MindfulStill
<1>10. v.answers[r] = 0 /\ asked[r].kind # "join"
    BY <1>2, <1>6 DEF Alike, Fields, r
<1>11. Mindful(u)
    BY <1>2, <1>6, <1>9, <1>10, AnswerIsMindful
<1>12. Alike(v, u, {"answers", "mine"})
    BY <1>2, <1>6, AnswerIs, Zenon
<1> HIDE DEF u
<1>13. u.pending = s.pending /\ u.next = s.next /\ u.sent = s.sent
    BY <1>6, <1>12 DEF Alike, Fields
<1> QED
    BY <1>7, <1>11

(* A topic joined is among what is joined again, from the sending on.      *)
LEMMA RunJoinIsMindful ==
    ASSUME NEW s, CallsMade, NEW c, Holding(s, c.request), s.phase = "live", s.link.joined,
           c.topic \in Topics, asked[c.request] = [kind |-> "join", topic |-> c.topic],
           s.link.back = {}, Mindful(s), wire \in Seq(Events)
    PROVE  Mindful(RunJoin(s, c))
<1> DEFINE r == c.request
           t == c.topic
           one == {t}
           new == <<s.link.nextRef, t>>
           joining == s.joining \union {new}
           topics == s.topics \union one
           joins == s.link.joins \union one
           link == [s.link EXCEPT !.joins = joins]
           gone == s.gone \ one
           left == s.left \ one
           shut == s.shut \ one
           j == [s EXCEPT !.joining = joining, !.topics = topics, !.link = link, !.gone = gone,
                          !.left = left, !.shut = shut]
<1>1. s \in Sockets /\ Young(s) /\ Parted(s) /\ Holding(s, r) /\ s.link \in Connections
    BY DEF Holding, Sockets
<1>2. /\ joining \in Joinings /\ topics \in TopicSets /\ joins \in SUBSET Channels
      /\ gone \in ChannelSets /\ left \in TopicSets /\ shut \in ChannelSets
    <2>1. s.link.nextRef \in Nat /\ t \in Channels
        BY <1>1 DEF Connections, Channels
    <2> QED
        BY <1>1, <2>1 DEF Sockets, Connections, Joinings, TopicSets, ChannelSets
<1>3. IsFiniteSet(topics)
    BY <1>1, FS_Union, FS_Singleton DEF Young
<1>4. RunJoin(s, c) = Post(j, "join", t, r)
    BY <1>1 DEF RunJoin, Sockets, Connections
<1>5. left \intersect topics = {} /\ left \subseteq s.left
    BY <1>1 DEF Parted
<1>6. /\ s.topics \union s.gone \union s.shut \subseteq topics \union gone \union shut
      /\ t \in topics
      /\ \A x \in joining : x \in s.joining \/ x = new
    OBVIOUS
<1> HIDE DEF joining, topics, joins, gone, left, shut
<1>7. /\ link \in Connections /\ link.opened = s.link.opened /\ link.joined = s.link.joined
      /\ link.joinRef = s.link.joinRef /\ link.back = s.link.back /\ link.nextRef = s.link.nextRef
    BY <1>1, <1>2 DEF Connections
<1> HIDE DEF link
<1>8. j \in Sockets
    BY <1>1, <1>2, <1>7, SocketsAre DEF Typed
<1>9. /\ Alike(s, j, {"joining", "topics", "link", "gone", "left", "shut"})
      /\ j.topics = topics /\ j.link = link /\ j.left = left /\ j.gone = gone
      /\ j.joining = joining /\ j.shut = shut
    BY <1>1 DEF Sockets, Alike, Fields
<1> HIDE DEF j
<1>10. Young(j)
    BY <1>1, <1>3, <1>7, <1>9 DEF Young, Alike, Fields
<1>11. Parted(j)
    BY <1>1, <1>5, <1>9 DEF Parted, Alike, Fields
<1>12. Holding(j, r)
    <2> HIDE DEF r, t
    <2> QED
        BY <1>1, <1>7, <1>8, <1>9, <1>10, <1>11, HoldingEased DEF Alike, Fields
<1>13. asked[r].kind = "join" /\ asked[r].topic = t
    OBVIOUS
<1> HIDE DEF r, t
<1>14. /\ j.phase = "live" /\ j.mine = s.mine /\ j.lost = s.lost /\ j.answers = s.answers
       /\ j.pending = s.pending /\ j.rejoining = s.rejoining /\ j.read = s.read
       /\ j.next = s.next /\ j.sent = s.sent
    BY <1>9 DEF Alike, Fields
<1>15. Minded(j)
    BY <1>6, <1>9, <1>14 DEF Mindful, Minded
<1>16. OneTurn(j) /\ Apart(j) /\ Asking(j)
    BY <1>7, <1>9, <1>14 DEF Mindful, OneTurn, Awaits, Apart, Asking, Ready
<1>17. Coming(j)
    BY <1>6, <1>7, <1>9, <1>14 DEF Mindful, Coming
<1>18. \A x \in j.joining :
           \/ \E p \in j.pending : p[1] = x[1] /\ Joins(p) /\ On(p) = x[2]
           \/ x = <<j.link.nextRef, t>>
    BY <1>6, <1>7, <1>9, <1>14 DEF Mindful, Listed, new
<1>20. j.link.back = {} /\ t \in j.topics \union j.gone \union j.shut
    BY <1>6, <1>7, <1>9
<1>21. LET u == Post(j, "join", t, r) IN Mindful(u)
    <2> DEFINE kind == "join"
    <2>1. kind = "join"
        OBVIOUS
    <2> HIDE DEF kind
    <2>2. LET u == Post(j, kind, t, r) IN Mindful(u)
        BY <1>12, <1>13, <1>14, <1>15, <1>16, <1>17, <1>18, <1>20, <2>1, PostIsMindful
    <2> QED
        BY <2>1, <2>2
<1> QED
    BY <1>4, <1>21

(* A topic the game leaves is none it minds and none it waits for.         *)
LEMMA RunLeaveIsMindful ==
    ASSUME NEW s, CallsMade, NEW c, Holding(s, c.request), s.phase = "live", s.link.joined,
           c.topic \in Topics, asked[c.request] = [kind |-> "leave", topic |-> c.topic],
           Mindful(s), wire \in Seq(Events)
    PROVE  Mindful(RunLeave(s, c))
<1> DEFINE r == c.request
           t == c.topic
           topics == s.topics \ {t}
           rejoining == {x \in s.rejoining : x.topic # t}
           due == {d \in s.due : d.topic # t}
           joins == s.link.joins \ {t}
           left == s.left \union {t}
           link == [s.link EXCEPT !.joins = joins]
           l == [s EXCEPT !.topics = topics, !.rejoining = rejoining, !.due = due, !.link = link,
                          !.left = left]
           how == IF \E d \in s.due : d.topic = t THEN "ok" ELSE "failed"
<1>1. s \in Sockets /\ Young(s) /\ Parted(s) /\ Holding(s, r) /\ s.link \in Connections
    BY DEF Holding, Sockets
<1>2. /\ topics \in TopicSets /\ topics \subseteq s.topics /\ t \notin topics
      /\ rejoining \in Rejoinings
      /\ rejoining \subseteq s.rejoining /\ \A x \in rejoining : x.topic # t
      /\ due \in Dues
      /\ due \subseteq s.due /\ \A x \in due : x.topic # t
      /\ joins \in SUBSET Channels
      /\ left \in TopicSets /\ \A x \in left : x \in s.left \/ x = t
    BY <1>1 DEF Sockets, Connections, TopicSets, Rejoinings, Dues
<1>3. RunLeave(s, c) = IF t \in s.link.joins THEN Post(l, "leave", t, r) ELSE Refuse(l, c, how)
    BY <1>1 DEF RunLeave, Sockets, Connections
<1>4. \A x \in s.topics : x # t => x \in topics
    OBVIOUS
<1> HIDE DEF topics, rejoining, due, joins, left, how
<1>5. IsFiniteSet(topics) /\ IsFiniteSet(due)
    BY <1>1, <1>2, FS_Subset DEF Young
<1>6. /\ link \in Connections /\ link.opened = s.link.opened /\ link.joined = s.link.joined
      /\ link.joinRef = s.link.joinRef /\ link.back = s.link.back /\ link.nextRef = s.link.nextRef
    BY <1>1, <1>2 DEF Connections
<1> HIDE DEF link
<1>7. l \in Sockets
    BY <1>1, <1>2, <1>6, SocketsAre DEF Typed
<1>8. /\ Alike(s, l, {"topics", "rejoining", "due", "link", "left"})
      /\ l.topics = topics /\ l.link = link /\ l.left = left /\ l.due = due
      /\ l.rejoining = rejoining
    BY <1>1 DEF Sockets, Alike, Fields
<1> HIDE DEF l
<1>9. Young(l)
    BY <1>1, <1>2, <1>5, <1>6, <1>8 DEF Young, Alike, Fields
<1>10. Parted(l)
    BY <1>1, <1>2, <1>8 DEF Parted, Alike, Fields
<1>11. Holding(l, r)
    <2> HIDE DEF r, t
    <2> QED
        BY <1>1, <1>6, <1>7, <1>8, <1>9, <1>10, HoldingEased DEF Alike, Fields
<1>12. asked[r].kind = "leave" /\ asked[r].topic = t
    OBVIOUS
<1>13. r \in DOMAIN asked /\ Awaits(s, r)
    BY <1>1, <1>12, HoldingAwaits DEF Awaits
<1>14. t \notin s.mine
    BY <1>12, <1>13 DEF Mindful, OneTurn
<1>15. ASSUME NEW p \in s.pending, Joins(p)
       PROVE  On(p) # t
    <2>1. p[2] \in DOMAIN asked /\ p[2] # r /\ Awaits(s, p[2])
        BY <1>1, <1>15, HoldingAwaits
    <2> QED
        BY <1>12, <1>13, <2>1 DEF Mindful, OneTurn, On
<1> HIDE DEF t
<1>16. /\ l.phase = "live" /\ l.mine = s.mine /\ l.lost = s.lost /\ l.answers = s.answers
       /\ l.pending = s.pending /\ l.joining = s.joining /\ l.read = s.read
       /\ l.gone = s.gone /\ l.shut = s.shut /\ l.next = s.next /\ l.sent = s.sent
    BY <1>8 DEF Alike, Fields
<1>17. Minded(l)
    BY <1>4, <1>8, <1>14, <1>16 DEF Mindful, Minded
<1>18. OneTurn(l) /\ Listed(l) /\ Asking(l)
    BY <1>6, <1>8, <1>16 DEF Mindful, OneTurn, Awaits, Listed, Asking, Ready
<1>19. Coming(l)
    BY <1>4, <1>6, <1>8, <1>15, <1>16 DEF Mindful, Coming
<1>20. Apart(l)
    BY <1>2, <1>6, <1>8, <1>16 DEF Mindful, Apart
<1>22. CASE t \in s.link.joins
    <2> DEFINE kind == "leave"
    <2>1. kind # "join" /\ kind = "leave"
        OBVIOUS
    <2> HIDE DEF r, kind
    <2>2. LET u == Post(l, kind, t, r) IN Mindful(u)
        BY <1>11, <1>12, <1>16, <1>17, <1>18, <1>19, <1>20, <2>1, PostIsMindful
           DEF Listed
    <2> QED
        BY <1>3, <1>22, <2>1, <2>2
<1>23. CASE t \notin s.link.joins
    <2>1. Mindful(l)
        BY <1>17, <1>18, <1>19, <1>20 DEF Mindful
    <2>2. Mindful(Refuse(l, c, how))
        BY <1>11, <1>12, <2>1, RefuseIsMindful
    <2> QED
        BY <1>3, <1>23, <2>2
<1> QED
    BY <1>22, <1>23

LEMMA RunPushIsMindful ==
    ASSUME NEW s, CallsMade, NEW c, Holding(s, c.request), s.phase = "live",
           asked[c.request] = [kind |-> "push", topic |-> c.topic],
           Mindful(s), wire \in Seq(Events)
    PROVE  Mindful(RunPush(s, c))
<1> DEFINE r == c.request
           t == c.topic
<1>1. asked[r].kind = "push" /\ asked[r].topic = t
    OBVIOUS
<1>2. CASE t \in s.link.joins
    <2> DEFINE kind == "push"
    <2>1. kind # "join" /\ kind = "push"
        OBVIOUS
    <2>2. RunPush(s, c) = Post(s, kind, t, r)
        BY <1>2 DEF RunPush
    <2>3. Holding(s, r)
        OBVIOUS
    <2> HIDE DEF r, t, kind
    <2>4. LET u == Post(s, kind, t, r) IN Mindful(u)
        BY <1>1, <2>1, <2>3, PostIsMindful DEF Mindful, Listed
    <2> QED
        BY <2>2, <2>4
<1>3. CASE t \notin s.link.joins
    <2>1. RunPush(s, c) = Refuse(s, c, "failed")
        BY <1>3 DEF RunPush
    <2> QED
        BY <1>1, <2>1, RefuseIsMindful
<1> QED
    BY <1>2, <1>3

LEMMA RunIsMindful ==
    ASSUME NEW w, NEW s \in Running(w), CallsMade, NEW i \in DOMAIN commands,
           s.next = "stay" => s.read = i - 1,
           Mindful(s), wire \in Seq(Events)
    PROVE  LET u == Run(s, commands[i]) IN Mindful(u)
<1> DEFINE c == commands[i]
           u == Run(s, c)
           r == [s EXCEPT !.read = @ + 1]
<1>1. Sound(s) /\ s.phase = "live" /\ s.link.joined /\ c \in Requests
    BY DEF Running, CallsMade
<1>2. CASE s.next # "stay"
    BY <1>2 DEF Run
<1>3. CASE s.next = "stay"
    <2>1. /\ r \in Sockets /\ Alike(s, r, {"read"}) /\ r.read = i
          /\ Young(r) /\ Parted(r) /\ Owned(r) /\ Placed(r)
          /\ c.kind \in {"close", "interrupt"} => Accounted(r)
          /\ c.kind \in {"join", "push", "leave"} => Holding(r, c.request)
        BY <1>1, <1>3, ReadIs
    <2>2. u = CASE c.kind = "join" -> RunJoin(r, c)
                [] c.kind = "push" -> RunPush(r, c)
                [] c.kind = "leave" -> RunLeave(r, c)
                [] c.kind = "close" -> [r EXCEPT !.next = "closed"]
                [] c.kind = "interrupt" -> [r EXCEPT !.next = "drop"]
        BY <1>3 DEF Run
    <2> HIDE DEF r, u
    <2>3. /\ r.phase = "live" /\ r.link = s.link /\ r.mine = s.mine /\ r.topics = s.topics
          /\ r.gone = s.gone /\ r.shut = s.shut /\ r.lost = s.lost /\ r.answers = s.answers
          /\ r.pending = s.pending /\ r.joining = s.joining /\ r.rejoining = s.rejoining
          /\ r.next = s.next /\ r.sent = s.sent
        BY <1>1, <2>1 DEF Alike, Fields
    <2>4. i > s.read /\ s.read = i - 1 /\ i \in Nat /\ DOMAIN commands \subseteq Nat
        BY <1>3 DEF CallsMade
    <2>5. Mindful(r)
        <3>1. Minded(r) /\ OneTurn(r) /\ Listed(r) /\ Coming(r) /\ Apart(r)
            BY <1>1, <2>3 DEF Mindful, Minded, OneTurn, Awaits, Listed, Coming, Apart
        <3>2. \A k \in DOMAIN commands : k > r.read => k > s.read
            BY <2>1, <2>4
        <3>3. Asking(r)
            BY <1>1, <2>3, <3>2 DEF Mindful, Asking, Ready
        <3> QED
            BY <3>1, <3>3 DEF Mindful
    <2>7. c.kind = "join" => s.link.back = {}
        BY <1>1, <2>4 DEF Mindful, Asking, Ready
    <2>8. c.kind \in {"join", "push", "leave"} =>
            /\ asked[c.request] = [kind |-> c.kind, topic |-> c.topic]
            /\ c.kind # "push" => c.topic \in Topics
        <3>1. c.kind \in {"join", "push", "leave"} =>
                /\ c.request \in DOMAIN asked
                /\ asked[c.request] = [kind |-> c.kind, topic |-> c.topic]
            BY DEF CallsMade
        <3>2. Calls \subseteq [kind : {"join", "push", "leave"}, topic : Topics]
                 \union [kind : {"push"}, topic : {User}]
            BY RtConstants
        <3>3. c.request \in DOMAIN asked => asked[c.request] \in Calls
            BY DEF CallsMade
        <3> HIDE DEF c
        <3> QED
            BY <3>1, <3>2, <3>3
    <2>9. c.kind \in {"join", "push", "leave", "close", "interrupt"}
        BY <1>1 DEF Requests
    <2>10. c.kind \in {"close", "interrupt"} => Sound(r)
        BY <2>1 DEF Sound
    <2>11. Mindful(u)
        <3> HIDE DEF c
        <3>1. CASE c.kind = "join"
            BY <1>1, <2>1, <2>2, <2>3, <2>5, <2>7, <2>8, <3>1, RunJoinIsMindful
        <3>2. CASE c.kind = "push"
            BY <1>1, <2>1, <2>2, <2>3, <2>5, <2>8, <3>2, RunPushIsMindful
        <3>3. CASE c.kind = "leave"
            BY <1>1, <2>1, <2>2, <2>3, <2>5, <2>8, <3>3, RunLeaveIsMindful
        <3>4. CASE c.kind = "close"
            BY <2>2, <2>5, <2>10, <3>4, StoppingIsMindful
        <3>5. CASE c.kind = "interrupt"
            BY <2>2, <2>5, <2>10, <3>5, StoppingIsMindful
        <3> QED
            BY <2>9, <3>1, <3>2, <3>3, <3>4, <3>5
    <2> QED
        BY <2>11 DEF u
<1> QED
    BY <1>2, <1>3

LEMMA RunAllIsMindful ==
    ASSUME NEW s, Sound(s), s.phase = "live", CallsMade, s.read = 0,
           Mindful(s), wire \in Seq(Events)
    PROVE  Mindful(RunAll(s))
<1> DEFINE n == Len(commands)
<1>1. n \in Nat /\ DOMAIN commands = 1 .. n
    BY DEF CallsMade
<1>2. CASE ~Going(s)
    BY <1>2 DEF RunAll
<1>3. CASE Going(s)
    <2>1. PICK f : /\ f[0] = s /\ RunAll(s) = f[n]
                   /\ \A i \in 0 .. n : f[i] \in Running(s) /\ (f[i].next = "stay" => f[i].read = i)
                   /\ \A i \in 1 .. n : f[i] = Run(f[i - 1], commands[i])
        BY <1>3, RunSteps
    <2> DEFINE P == {i \in 0 .. n : Mindful(f[i])}
    <2>2. 0 \in P
        BY <1>1, <2>1
    <2>3. ASSUME NEW i \in 0 .. n - 1, i \in P
          PROVE  i + 1 \in P
        <3>1. i \in 0 .. n /\ i + 1 \in 1 .. n /\ i + 1 \in 0 .. n /\ i + 1 - 1 = i
              /\ i + 1 \in DOMAIN commands
            BY <1>1
        <3>2. Mindful(f[i])
            BY <2>3
        <3>3. f[i] \in Running(s) /\ (f[i].next = "stay" => f[i].read = i + 1 - 1)
            BY <2>1, <3>1
        <3>4. f[i + 1] = Run(f[i], commands[i + 1])
            BY <2>1, <3>1
        <3>5. Mindful(f[i + 1])
            BY <3>1, <3>2, <3>3, <3>4, RunIsMindful
        <3> QED
            BY <3>1, <3>5
    <2> HIDE DEF P
    <2>4. 0 .. n \subseteq P
        BY <1>1, <2>2, <2>3, StepByStep
    <2>5. n \in P
        BY <1>1, <2>4
    <2> QED
        BY <2>1, <2>5 DEF P
<1> QED
    BY <1>2, <1>3

(* A tick of a live socket, to where it leads.                             *)
LEMMA LiveIsMindful ==
    ASSUME NEW s, Sound(s), s.phase = "live", s.next = "stay", s.read = 0, CallsMade,
           NEW ready, NEW beat, wire \in Seq(Events),
           NEW opening \in BOOLEAN,
           opening <=> s.link.opened \/ \E i \in DOMAIN wire : wire[i].kind = "opened",
           \A i \in DOMAIN wire : /\ wire[i].kind = "reply" => wire[i].ref # NoRef
                                  /\ wire[i].kind \in {"reply", "message"} => opening
                                  /\ wire[i].kind = "refused" => ~opening,
           Mindful(s)
    PROVE  Mindful(Live(s, ready, beat))
<1> DEFINE s1 == Decoded(s)
           s2 == Hello(s1)
           s3 == Heard(s2)
           s4 == CutOff(s3)
           s5 == RunAll(s4)
           s6 == RejoinDue(s5, ready)
           s7 == BeatDue(s6, beat)
           Up(x) == Sound(x) /\ x.phase = "live" /\ x.link.opened = opening /\ Mindful(x)
<1>1. Up(s1) /\ s1.read = 0
    <2>1. /\ Sound(s1) /\ s1.phase = "live" /\ s1.read = s.read
          /\ s1.link.opened <=> s.link.opened \/ \E i \in DOMAIN wire : wire[i].kind = "opened"
        BY DecodedIsSound
    <2>2. s1.link.opened \in BOOLEAN
        BY <2>1 DEF Sound, Sockets, Connections
    <2>3. Mindful(s1)
        BY DecodedIsMindful
    <2> QED
        BY <2>1, <2>2, <2>3
<1> HIDE DEF s1
<1>2. Up(s2) /\ s2.read = 0
    <2>1. Mindful(s2)
        BY <1>1, HelloIsMindful
    <2> QED
        BY <1>1, <2>1, HelloIsSound DEF Onward
<1> HIDE DEF s2
<1>3. Up(s3) /\ s3.read = 0
    <2>1. Hearable(s2)
        BY <1>2 DEF Hearable
    <2>2. Mindful(s3)
        BY <1>2, <2>1, HeardIsMindful
    <2> QED
        BY <1>2, <2>1, <2>2, HeardIsSound DEF Onward
<1> HIDE DEF s3
<1>4. Up(s4) /\ s4.read = 0
    <2>1. Mindful(s4)
        BY <1>3, CutOffIsMindful
    <2> QED
        BY <1>3, <2>1, CutOffIsSound DEF Onward
<1> HIDE DEF s4
<1>5. Up(s5)
    <2>1. Mindful(s5)
        BY <1>4, RunAllIsMindful
    <2> QED
        BY <1>4, <2>1, RunAllIsSound
<1> HIDE DEF s5
<1>6. Up(s6)
    <2>1. Mindful(s6)
        BY <1>5, RejoinDueIsMindful
    <2> QED
        BY <1>5, <2>1, RejoinDueIsSound DEF Onward
<1> HIDE DEF s6
<1>7. Mindful(s7)
    BY <1>6, BeatDueIsMindful
<1>8. Live(s, ready, beat) = s7
    BY DEF Live, s1, s2, s3, s4, s5, s6
<1> HIDE DEF s7
<1> QED
    BY <1>7, <1>8

(* A connection lost takes what waited with it, and not what is minded.    *)
LEMMA CutIsMindful ==
    ASSUME NEW s, Mindful(s), NEW u, u.pending = {}, u.joining = {}, u.phase # "live",
           u.mine = s.mine, u.topics = s.topics, u.gone = s.gone, u.shut = s.shut,
           u.lost = s.lost, CallsMade, \A r \in Ids : u.answers[r] = 0 => s.answers[r] = 0
    PROVE  Mindful(u)
<1>1. Minded(u) /\ Apart(u) /\ Asking(u)
    BY DEF Mindful, Minded, Apart, Asking
<1>2. \A r \in DOMAIN asked : Awaits(u, r) => Awaits(s, r)
    BY AskedIds DEF Awaits
<1> QED
    BY <1>1, <1>2, MindfulAlone

LEMMA FailPendingMinds ==
    ASSUME NEW s \in Sockets, Accounted(s), NEW r \in Ids, FailPending(s).answers[r] = 0
    PROVE  s.answers[r] = 0
<1> DEFINE n == Cardinality({p \in s.pending : p[2] = r})
<1>1. FailPending(s).answers[r] = s.answers[r] + n
    BY DEF FailPending, Fail, Sockets
<1>2. n \in Nat
    <2>1. n = IF Waits(s, r) THEN 1 ELSE 0
        BY WaitingOnce
    <2> HIDE DEF n
    <2> QED
        BY <2>1
<1>3. s.answers[r] \in Nat
    BY DEF Sockets
<1> HIDE DEF n
<1> QED
    BY <1>1, <1>2, <1>3

LEMMA DroppedIsMindful ==
    ASSUME NEW s, Sound(s), Mindful(s), CallsMade
    PROVE  Mindful(Dropped(s)) /\ Dropped(s).phase # "live"
<1> DEFINE p == FailPending(s)
           due == {}
           f == [p EXCEPT !.due = due, !.rejoining = due]
           n == s.tries + 1
           gives == ~(s.once /\ n <= Tries)
           tries == IF s.once THEN n ELSE s.tries
           life == IF gives THEN Hear(s.life, [kind |-> "error"])
                   ELSE Hear(s.life, [kind |-> "reconnecting", attempt |-> n])
           phase == IF gives THEN "removed" ELSE "waiting"
           u == [f EXCEPT !.tries = tries, !.life = life, !.phase = phase, !.link = Link]
<1>1. s \in Sockets /\ Accounted(s)
    BY DEF Sound
<1>2. /\ p \in Sockets /\ p.pending = {} /\ p.joining = {}
      /\ Alike(s, p, {"pending", "joining", "answers"})
    BY <1>1, FailPendingIs
<1>3. \A r \in Ids : p.answers[r] = 0 => s.answers[r] = 0
    BY <1>1, FailPendingMinds
<1>4. f = [FailPending(s) EXCEPT !.due = {}, !.rejoining = {}]
    OBVIOUS
<1> HIDE DEF p
<1>5. /\ f \in Sockets /\ Alike(p, f, {"due", "rejoining"})
    <2>1. due \in Dues /\ due \in Rejoinings
        BY DEF Dues, Rejoinings
    <2> HIDE DEF due
    <2> QED
        BY <1>2, <2>1, SocketsAre DEF Typed, Alike, Fields
<1> HIDE DEF f
<1>6. f.life = s.life /\ f.once = s.once /\ f.tries = s.tries
    BY <1>2, <1>5 DEF Alike, Fields
<1>7. Dropped(s) = u
    <2>1. CASE gives
        <3>1. Dropped(s) = Ended(Tell([f EXCEPT !.tries = tries], [kind |-> "error"]))
            BY <1>4, <1>6, <2>1 DEF Dropped
        <3>2. [f EXCEPT !.tries = tries].life = s.life
            BY <1>5, <1>6 DEF Sockets
        <3>3. life = Hear(s.life, [kind |-> "error"]) /\ phase = "removed"
            BY <2>1
        <3> HIDE DEF life, phase, tries, gives, n
        <3> QED
            BY <1>5, <3>1, <3>2, <3>3 DEF Ended, Tell, Sockets
    <2>2. CASE ~gives
        <3>1. Dropped(s) = [Tell(f, [kind |-> "reconnecting", attempt |-> n])
                            EXCEPT !.tries = n, !.phase = "waiting", !.link = Link]
            BY <1>4, <2>2 DEF Dropped
        <3>2. /\ life = Hear(s.life, [kind |-> "reconnecting", attempt |-> n])
              /\ phase = "waiting" /\ tries = n
            BY <2>2
        <3> HIDE DEF life, phase, tries, gives
        <3>3. Tell(f, [kind |-> "reconnecting", attempt |-> n]) = [f EXCEPT !.life = life]
            BY <1>5, <1>6, <3>2 DEF Tell, Sockets
        <3> HIDE DEF n
        <3>4. Dropped(s) = [[f EXCEPT !.life = life] EXCEPT !.tries = tries, !.phase = phase,
                                                            !.link = Link]
            BY <3>1, <3>2, <3>3
        <3> QED
            BY <1>5, <3>4 DEF Sockets
    <2> QED
        BY <2>1, <2>2
<1>8. phase # "live"
    OBVIOUS
<1> HIDE DEF gives, tries, life, phase, n
<1>9. Alike(f, u, {"tries", "life", "phase", "link"}) /\ u.phase = phase
    BY <1>5 DEF Sockets, Alike, Fields
<1> HIDE DEF u
<1>10. /\ u.pending = {} /\ u.joining = {} /\ u.mine = s.mine /\ u.topics = s.topics
       /\ u.gone = s.gone /\ u.shut = s.shut /\ u.lost = s.lost /\ u.answers = p.answers
    BY <1>2, <1>5, <1>9 DEF Alike, Fields
<1>11. Mindful(u)
    BY <1>3, <1>8, <1>9, <1>10, CutIsMindful
<1> QED
    BY <1>7, <1>8, <1>9, <1>11

LEMMA ClosedByGameIsMindful ==
    ASSUME NEW s, Sound(s), Mindful(s), CallsMade
    PROVE  Mindful(ClosedByGame(s)) /\ ClosedByGame(s).phase # "live"
<1> DEFINE f == FailPending(s)
           life == Hear(f.life, [kind |-> "closed"])
           phase == "removed"
           u == [f EXCEPT !.life = life, !.phase = phase, !.link = Link]
<1>1. s \in Sockets /\ Accounted(s)
    BY DEF Sound
<1>2. /\ f \in Sockets /\ f.pending = {} /\ f.joining = {}
      /\ Alike(s, f, {"pending", "joining", "answers"})
    BY <1>1, FailPendingIs
<1>3. \A r \in Ids : f.answers[r] = 0 => s.answers[r] = 0
    BY <1>1, FailPendingMinds
<1>4. ClosedByGame(s) = Ended(Tell(f, [kind |-> "closed"]))
    BY DEF ClosedByGame
<1> HIDE DEF f
<1>5. ClosedByGame(s) = u
    <2>1. Tell(f, [kind |-> "closed"]) = [f EXCEPT !.life = life]
        BY <1>2 DEF Tell, Sockets
    <2> HIDE DEF life
    <2> QED
        BY <1>2, <1>4, <2>1 DEF Ended, Sockets
<1>6. phase # "live"
    OBVIOUS
<1> HIDE DEF life, phase
<1>7. Alike(f, u, {"life", "phase", "link"}) /\ u.phase = phase
    BY <1>2 DEF Sockets, Alike, Fields
<1> HIDE DEF u
<1>8. /\ u.pending = {} /\ u.joining = {} /\ u.mine = s.mine /\ u.topics = s.topics
      /\ u.gone = s.gone /\ u.shut = s.shut /\ u.lost = s.lost /\ u.answers = f.answers
    BY <1>2, <1>7 DEF Alike, Fields
<1>9. Mindful(u)
    BY <1>3, <1>6, <1>7, <1>8, CutIsMindful
<1> QED
    BY <1>5, <1>6, <1>7, <1>9

LEMMA RenewIsMindful ==
    ASSUME NEW s, Sound(s), Mindful(s), CallsMade, ~s.link.opened, NEW renewed
    PROVE  LET u == Renew([s EXCEPT !.renewed = renewed]) IN Mindful(u) /\ u.phase # "live"
<1> DEFINE phase == "renewing"
           u == [s EXCEPT !.renewed = renewed, !.phase = phase, !.link = Link]
<1>1. s \in Sockets /\ s.pending = {} /\ s.joining = {}
    BY DEF Sound, Young
<1>2. Renew([s EXCEPT !.renewed = renewed]) = u
    BY <1>1 DEF Renew, Sockets
<1>3. phase # "live"
    OBVIOUS
<1> HIDE DEF phase
<1>4. Alike(s, u, {"renewed", "phase", "link"}) /\ u.phase = phase
    BY <1>1 DEF Sockets, Alike, Fields
<1> HIDE DEF u
<1>5. /\ u.pending = {} /\ u.joining = {} /\ u.mine = s.mine /\ u.topics = s.topics
      /\ u.gone = s.gone /\ u.shut = s.shut /\ u.lost = s.lost /\ u.answers = s.answers
    BY <1>1, <1>4 DEF Alike, Fields
<1>6. Mindful(u)
    BY <1>3, <1>4, <1>5, CutIsMindful
<1> QED
    BY <1>2, <1>3, <1>4, <1>6

LEMMA DialIsMindful ==
    ASSUME NEW s, Sound(s), Mindful(s), CallsMade, s.phase \in {"waiting", "renewing"},
           s.read = Len(commands), NEW token
    PROVE  Mindful(Dial(s, token))
<1> DEFINE phase == "live"
           u == [s EXCEPT !.phase = phase, !.link = Link]
<1>1. s \in Sockets /\ s.pending = {} /\ s.joining = {} /\ s.rejoining = {}
    BY DEF Sound, Young, Link
<1>2. CASE token = "none"
    BY <1>2, DroppedIsMindful DEF Dial
<1>3. CASE token # "none"
    <2>1. Dial(s, token) = u
        BY <1>3 DEF Dial
    <2> HIDE DEF phase
    <2>2. Alike(s, u, {"phase", "link"})
        BY <1>1 DEF Sockets, Alike, Fields
    <2> HIDE DEF u
    <2>3. /\ u.pending = {} /\ u.joining = {} /\ u.mine = s.mine /\ u.topics = s.topics
          /\ u.gone = s.gone /\ u.shut = s.shut /\ u.lost = s.lost
          /\ u.answers = s.answers /\ u.rejoining = {} /\ u.read = Len(commands)
        BY <1>1, <2>2 DEF Alike, Fields
    <2>4. \A i \in DOMAIN commands : ~(i > u.read)
        BY <2>3 DEF CallsMade
    <2>5. Minded(u) /\ Apart(u) /\ Asking(u)
        BY <2>3, <2>4 DEF Mindful, Minded, Apart, Asking
    <2>6. \A r \in DOMAIN asked : Awaits(u, r) => Awaits(s, r)
        BY <2>3 DEF Awaits
    <2> QED
        BY <2>1, <2>3, <2>5, <2>6, MindfulAlone
<1> QED
    BY <1>2, <1>3

LEMMA OutcomeIsMindful ==
    ASSUME NEW s, Sound(s), s.phase = "live", Mindful(s), CallsMade
    PROVE  /\ Mindful(Outcome(s))
           /\ Outcome(s).phase = "live" => Outcome(s) = s /\ s.next = "stay"
<1>1. s.next \in {"stay", "drop", "refused", "closed"}
    BY DEF Sound, Sockets
<1>2. CASE s.next = "stay"
    BY <1>2 DEF Outcome
<1>3. CASE s.next = "drop" \/ (s.next = "refused" /\ s.renewed)
    <2>1. Outcome(s) = Dropped(s)
        BY <1>3 DEF Outcome
    <2> QED
        BY <2>1, DroppedIsMindful
<1>4. CASE s.next = "refused" /\ ~s.renewed
    <2>1. Outcome(s) = Renew([s EXCEPT !.renewed = TRUE])
        BY <1>4 DEF Outcome
    <2>2. ~s.link.opened
        BY <1>4 DEF Sound, Young
    <2>3. LET u == Renew([s EXCEPT !.renewed = TRUE]) IN Mindful(u) /\ u.phase # "live"
        BY <2>2, RenewIsMindful
    <2> QED
        BY <2>1, <2>3
<1>5. CASE s.next = "closed"
    <2>1. Outcome(s) = ClosedByGame(s)
        BY <1>5 DEF Outcome
    <2> QED
        BY <2>1, ClosedByGameIsMindful
<1> QED
    BY <1>1, <1>2, <1>3, <1>4, <1>5

(* A socket that waits answers what it reads, and joins nothing by it.     *)
LEMMA WaitLeaveIsMindful ==
    ASSUME NEW s, CallsMade, NEW c, Holding(s, c.request), s.phase \in {"waiting", "renewing"},
           asked[c.request] = [kind |-> "leave", topic |-> c.topic], c.topic \in Topics, Mindful(s)
    PROVE  LET l == [s EXCEPT !.topics = @ \ {c.topic}, !.left = @ \union {c.topic}]
               u == Answer(l, c.request, "ok")
           IN  Mindful(u) /\ u.next = s.next
<1> DEFINE r == c.request
           t == c.topic
           topics == s.topics \ {t}
           left == s.left \union {t}
           l == [s EXCEPT !.topics = topics, !.left = left]
           u == Answer(l, r, "ok")
<1>1. s \in Sockets /\ Young(s) /\ r \in DOMAIN asked /\ s.answers[r] = 0
    BY HoldingAwaits DEF Holding
<1>2. s.pending = {} /\ s.joining = {}
    BY <1>1 DEF Young, Link
<1>3. asked[r].kind = "leave" /\ asked[r].topic = t
    OBVIOUS
<1>4. t \notin s.mine
    <2>1. Awaits(s, r)
        BY <1>1, <1>3 DEF Awaits
    <2> HIDE DEF r, t
    <2> QED
        BY <1>1, <1>3, <2>1 DEF Mindful, OneTurn
<1>5. /\ topics \in TopicSets /\ left \in TopicSets /\ \A x \in s.topics : x # t => x \in topics
    BY <1>1 DEF Sockets, TopicSets
<1> HIDE DEF topics, left
<1>6. l \in Sockets /\ Alike(s, l, {"topics", "left"}) /\ l.topics = topics
    <2>1. l \in Sockets
        BY <1>1, <1>5, SocketsAre DEF Typed
    <2>2. Alike(s, l, {"topics", "left"}) /\ l.topics = topics
        BY <1>1 DEF Sockets, Alike, Fields
    <2> QED
        BY <2>1, <2>2
<1> HIDE DEF l, r, t
<1>7. /\ l.mine = s.mine /\ l.gone = s.gone /\ l.shut = s.shut /\ l.lost = s.lost
      /\ l.answers = s.answers /\ l.pending = {} /\ l.joining = {}
      /\ l.phase # "live" /\ l.next = s.next
    BY <1>2, <1>6 DEF Alike, Fields
<1>8. Minded(l)
    BY <1>4, <1>5, <1>6, <1>7 DEF Mindful, Minded
<1>9. Mindful(l)
    <2>1. Apart(l) /\ Asking(l)
        BY <1>7 DEF Apart, Asking
    <2>2. \A q \in DOMAIN asked : Awaits(l, q) => Awaits(s, q)
        BY <1>7 DEF Awaits
    <2> QED
        BY <1>7, <1>8, <2>1, <2>2, MindfulAlone
<1>10. Mindful(u)
    BY <1>1, <1>3, <1>6, <1>7, <1>9, AnswerIsMindful
<1>11. Alike(l, u, {"answers", "mine"})
    BY <1>1, <1>6, AnswerIs, Zenon
<1> HIDE DEF u
<1>12. u.next = s.next
    BY <1>7, <1>11 DEF Alike, Fields
<1> QED
    BY <1>10, <1>12 DEF u, l, r, t, topics, left

LEMMA WaitCommandIsMindful ==
    ASSUME NEW s \in Restings, CallsMade, NEW i \in DOMAIN commands,
           s.next = "stay" => s.read = i - 1, s.next \in {"stay", "closed"}, Mindful(s)
    PROVE  LET u == WaitCommand(s, commands[i])
           IN  Mindful(u) /\ u.next \in {"stay", "closed"}
<1> DEFINE c == commands[i]
           u == WaitCommand(s, c)
           r == [s EXCEPT !.read = @ + 1]
<1>1. /\ Sound(s) /\ s.phase \in {"waiting", "renewing"} /\ c \in Requests
    BY DEF Restings, Resting, CallsMade
<1>2. CASE s.next # "stay"
    BY <1>2 DEF WaitCommand
<1>3. CASE s.next = "stay"
    <2>1. /\ r \in Sockets /\ Alike(s, r, {"read"}) /\ r.read = i
          /\ Young(r) /\ Parted(r) /\ Owned(r) /\ Placed(r)
          /\ c.kind \in {"close", "interrupt"} => Accounted(r)
          /\ c.kind \in {"join", "push", "leave"} => Holding(r, c.request)
        BY <1>1, <1>3, ReadIs
    <2>2. u = CASE c.kind \in {"join", "push"} -> Answer(r, c.request, "failed")
                [] c.kind = "leave" -> Answer([r EXCEPT !.topics = @ \ {c.topic},
                                                        !.left = @ \union {c.topic}],
                                              c.request, "ok")
                [] c.kind = "close" -> [r EXCEPT !.next = "closed"]
                [] c.kind = "interrupt" -> r
        BY <1>3 DEF WaitCommand
    <2> HIDE DEF r, u
    <2>3. /\ r.mine = s.mine /\ r.topics = s.topics /\ r.gone = s.gone /\ r.shut = s.shut
          /\ r.lost = s.lost /\ r.answers = s.answers /\ r.link = s.link /\ r.phase = s.phase
          /\ r.pending = s.pending /\ r.joining = s.joining /\ r.next = "stay"
        BY <1>3, <2>1 DEF Alike, Fields
    <2>4. Mindful(r)
        <3>1. Minded(r) /\ OneTurn(r) /\ Listed(r) /\ Coming(r)
            BY <2>3 DEF Mindful, Minded, OneTurn, Awaits, Listed, Coming
        <3>2. Apart(r) /\ Asking(r)
            BY <1>1, <2>3 DEF Apart, Asking
        <3> QED
            BY <3>1, <3>2 DEF Mindful
    <2>5. c.kind \in {"join", "push", "leave"} =>
            /\ c.request \in DOMAIN asked
            /\ asked[c.request] = [kind |-> c.kind, topic |-> c.topic]
            /\ c.kind = "leave" => c.topic \in Topics
        <3>1. c.kind \in {"join", "push", "leave"} =>
                /\ c.request \in DOMAIN asked
                /\ asked[c.request] = [kind |-> c.kind, topic |-> c.topic]
            BY DEF CallsMade
        <3>2. Calls \subseteq [kind : {"join", "push", "leave"}, topic : Topics]
                 \union [kind : {"push"}, topic : {User}]
            BY RtConstants
        <3>3. c.request \in DOMAIN asked => asked[c.request] \in Calls
            BY DEF CallsMade
        <3> HIDE DEF c
        <3> QED
            BY <3>1, <3>2, <3>3
    <2>6. c.kind \in {"join", "push", "leave", "close", "interrupt"}
        BY <1>1 DEF Requests
    <2>7. Mindful(u) /\ u.next \in {"stay", "closed"}
        <3> HIDE DEF c
        <3>1. CASE c.kind \in {"join", "push"}
            <4>1. u = Answer(r, c.request, "failed") /\ Holding(r, c.request)
                BY <2>1, <2>2, <3>1
            <4>2. c.request \in DOMAIN asked /\ r.answers[c.request] = 0
                BY <4>1, HoldingAwaits
            <4>3. Mindful(u)
                BY <2>1, <2>4, <4>1, <4>2, AnswerIsMindful
            <4>4. Alike(r, u, {"answers", "mine"})
                BY <2>1, <4>1, <4>2, AnswerIs, Zenon
            <4> HIDE DEF u
            <4>5. u.next = r.next
                BY <4>4 DEF Alike, Fields
            <4> QED
                BY <2>3, <4>3, <4>5
        <3>2. CASE c.kind = "leave"
            <4>1. /\ Holding(r, c.request) /\ r.phase \in {"waiting", "renewing"}
                  /\ asked[c.request] = [kind |-> "leave", topic |-> c.topic]
                  /\ c.topic \in Topics
                BY <1>1, <2>1, <2>3, <2>5, <3>2
            <4>2. LET l == [r EXCEPT !.topics = @ \ {c.topic}, !.left = @ \union {c.topic}]
                      v == Answer(l, c.request, "ok")
                  IN  Mindful(v) /\ v.next = r.next
                BY <2>4, <4>1, WaitLeaveIsMindful, Zenon
            <4>3. Mindful(u) /\ u.next = r.next
                BY <2>2, <3>2, <4>2
            <4> QED
                BY <2>3, <4>3
        <3>3. CASE c.kind = "close"
            <4>1. u = [r EXCEPT !.next = "closed"] /\ Sound(r)
                BY <2>1, <2>2, <3>3 DEF Sound
            <4>2. Mindful(u)
                BY <2>4, <4>1, StoppingIsMindful
            <4> QED
                BY <2>1, <4>1, <4>2 DEF Sockets
        <3>4. CASE c.kind = "interrupt"
            BY <2>2, <2>3, <2>4, <3>4
        <3> QED
            BY <2>6, <3>1, <3>2, <3>3, <3>4
    <2> QED
        BY <2>7 DEF u
<1> QED
    BY <1>2, <1>3

LEMMA AllWaitedIsMindful ==
    ASSUME NEW s \in Restings, CallsMade, s.read = 0, s.next = "stay", Mindful(s)
    PROVE  LET x == AllWaited(s)
           IN  /\ x \in Restings /\ Mindful(x) /\ x.next \in {"stay", "closed"}
               /\ x.next = "stay" => x.read = Len(commands)
<1> DEFINE n == Len(commands)
<1>1. n \in Nat /\ DOMAIN commands = 1 .. n
    BY DEF CallsMade
<1>2. PICK f : /\ f[0] = s /\ AllWaited(s) = f[n]
               /\ \A i \in 0 .. n : f[i] \in Restings /\ (f[i].next = "stay" => f[i].read = i)
               /\ \A i \in 1 .. n : f[i] = WaitCommand(f[i - 1], commands[i])
    BY WaitSteps
<1> DEFINE P == {i \in 0 .. n : Mindful(f[i]) /\ f[i].next \in {"stay", "closed"}}
<1>3. 0 \in P
    BY <1>1, <1>2
<1>4. ASSUME NEW i \in 0 .. n - 1, i \in P
      PROVE  i + 1 \in P
    <2>1. i \in 0 .. n /\ i + 1 \in 1 .. n /\ i + 1 \in 0 .. n /\ i + 1 - 1 = i
          /\ i + 1 \in DOMAIN commands
        BY <1>1
    <2>2. Mindful(f[i]) /\ f[i].next \in {"stay", "closed"}
        BY <1>4
    <2>3. f[i] \in Restings /\ (f[i].next = "stay" => f[i].read = i + 1 - 1)
        BY <1>2, <2>1
    <2>4. f[i + 1] = WaitCommand(f[i], commands[i + 1])
        BY <1>2, <2>1
    <2>5. Mindful(f[i + 1]) /\ f[i + 1].next \in {"stay", "closed"}
        BY <2>1, <2>2, <2>3, <2>4, WaitCommandIsMindful
    <2> QED
        BY <2>1, <2>5
<1> HIDE DEF P
<1>5. 0 .. n \subseteq P
    BY <1>1, <1>3, <1>4, StepByStep
<1>6. n \in P /\ n \in 0 .. n
    BY <1>1, <1>5
<1> QED
    BY <1>2, <1>6 DEF P

LEMMA WaitedIsMindful ==
    ASSUME NEW s \in Restings, CallsMade, s.read = 0, s.next = "stay", Mindful(s),
           NEW due \in BOOLEAN, NEW token
    PROVE  Mindful(Waited(s, due, token))
<1> DEFINE x == AllWaited(s)
           u == WaitOver(x, due, token)
<1>1. /\ x \in Restings /\ Mindful(x) /\ x.next \in {"stay", "closed"}
      /\ x.next = "stay" => x.read = Len(commands)
    BY AllWaitedIsMindful
<1>2. Waited(s, due, token) = u
    BY DEF Waited, AllWaited
<1> HIDE DEF x
<1>3. Sound(x) /\ x.phase \in {"waiting", "renewing"} /\ x \in Sockets
    BY <1>1 DEF Restings, Resting
<1>4. CASE x.next = "closed"
    <2>1. u = ClosedByGame(x)
        BY <1>4 DEF WaitOver
    <2> QED
        BY <1>1, <1>2, <1>3, <2>1, ClosedByGameIsMindful
<1>5. CASE x.next # "closed" /\ ~due
    <2>1. u = x
        BY <1>5 DEF WaitOver
    <2> QED
        BY <1>1, <1>2, <2>1
<1>6. CASE x.next # "closed" /\ due /\ token = "stale"
    <2>1. u = Renew(x)
        BY <1>6 DEF WaitOver
    <2>2. ~x.link.opened
        BY <1>3 DEF Sound, Young, Link
    <2>3. [x EXCEPT !.renewed = x.renewed] = x
        BY <1>3 DEF Sockets
    <2>4. LET v == Renew([x EXCEPT !.renewed = x.renewed]) IN Mindful(v) /\ v.phase # "live"
        BY <1>1, <1>3, <2>2, RenewIsMindful
    <2> QED
        BY <1>2, <2>1, <2>3, <2>4
<1>7. CASE x.next # "closed" /\ due /\ token = "refused"
    <2>1. u = Dropped(x)
        BY <1>7 DEF WaitOver
    <2> QED
        BY <1>1, <1>2, <1>3, <2>1, DroppedIsMindful
<1>8. CASE x.next # "closed" /\ due /\ token \notin {"stale", "refused"}
    <2>1. u = Dial(x, token)
        BY <1>8 DEF WaitOver
    <2>2. x.read = Len(commands)
        BY <1>1, <1>8
    <2> QED
        BY <1>1, <1>2, <1>3, <2>1, <2>2, DialIsMindful
<1> QED
    BY <1>4, <1>5, <1>6, <1>7, <1>8

(* What holds between the steps.                                           *)
Tended == Mindful(sock)

LEMMA SteppedIsMindful ==
    ASSUME Inv, Tended, sock.phase # "removed", NEW takes \in BOOLEAN, NEW ready, NEW beat,
           NEW due \in BOOLEAN, NEW token
    PROVE  Mindful(Stepped(takes, ready, beat, due, token))
<1> DEFINE s == [sock EXCEPT !.takes = takes]
           u == Stepped(takes, ready, beat, due, token)
<1>1. /\ sock \in Sockets /\ Young(sock) /\ Parted(sock) /\ Owned(sock) /\ Accounted(sock)
      /\ Placed(sock) /\ CallsMade /\ Wired /\ AtRest /\ Mindful(sock)
    BY DEF Inv, Sound, Tended
<1>2. s \in Sockets
    BY <1>1, TakesIsTyped, Zenon
<1>3. Alike(sock, s, {"takes"})
    BY <1>1 DEF Sockets, Alike, Fields
<1>4. u = IF s.phase = "live" THEN Outcome(Live(s, ready, beat)) ELSE Waited(s, due, token)
    BY DEF Stepped
<1> HIDE DEF s, u
<1>5. Sound(s)
    <2>1. Young(s)
        BY <1>1, <1>3 DEF Young, Alike, Fields
    <2>2. Parted(s)
        BY <1>1, <1>3 DEF Parted, Alike, Fields
    <2>3. Owned(s)
        BY <1>1, <1>3 DEF Owned, Its, Alike, Fields
    <2>4. Accounted(s)
        BY <1>1, <1>3 DEF Accounted, Queued, Waits, Alike, Fields
    <2>5. Placed(s)
        BY <1>1, <1>3 DEF Placed, Ready, Alike, Fields
    <2> QED
        BY <1>2, <2>1, <2>2, <2>3, <2>4, <2>5 DEF Sound
<1>6. /\ s.phase = sock.phase /\ s.link = sock.link /\ s.read = 0 /\ s.next = "stay"
      /\ s.sent = <<>> /\ sock.sent = <<>> /\ s.pending = sock.pending
    BY <1>1, <1>3 DEF AtRest, Alike, Fields
<1>7. Mindful(s)
    <2>1. Alike(sock, s, {"link", "sent", "next", "due", "renewed", "life", "once", "takes",
                          "tries", "amiss", "left"})
        BY <1>3 DEF Alike
    <2>2. s.link.nextRef \in Nat
        BY <1>2 DEF Sockets, Connections
    <2> QED
        BY <1>1, <1>6, <2>1, <2>2, MindfulStill
<1>9. CASE sock.phase = "live"
    <2> DEFINE opening == IF Opening THEN TRUE ELSE FALSE
               v == Live(s, ready, beat)
    <2>1. opening \in BOOLEAN /\ (opening <=> Opening)
        OBVIOUS
    <2> HIDE DEF opening
    <2>2. wire \in Seq(Events)
        BY <1>1 DEF Wired
    <2>3. opening <=> s.link.opened \/ \E i \in DOMAIN wire : wire[i].kind = "opened"
        BY <1>6, <2>1 DEF Opening
    <2>4. \A i \in DOMAIN wire : /\ wire[i].kind = "reply" => wire[i].ref # NoRef
                                 /\ wire[i].kind \in {"reply", "message"} => opening
                                 /\ wire[i].kind = "refused" => ~opening
        BY <1>1, <2>1 DEF Wired
    <2>5. Sound(v) /\ v.phase = "live"
        BY <1>1, <1>5, <1>6, <1>9, <2>1, <2>2, <2>3, <2>4, LiveIsSound
    <2>6. Mindful(v)
        BY <1>1, <1>5, <1>6, <1>7, <1>9, <2>1, <2>2, <2>3, <2>4, LiveIsMindful
    <2> HIDE DEF v
    <2>7. Mindful(Outcome(v))
        BY <1>1, <2>5, <2>6, OutcomeIsMindful
    <2>8. u = Outcome(v)
        BY <1>4, <1>6, <1>9 DEF v
    <2> QED
        BY <2>7, <2>8 DEF u
<1>10. CASE sock.phase # "live"
    <2>1. sock.phase \in {"waiting", "renewing"}
        BY <1>1, <1>10 DEF Sockets
    <2>2. s \in Restings
        BY <1>2, <1>5, <1>6, <2>1 DEF Restings, Resting
    <2>3. u = Waited(s, due, token)
        BY <1>4, <1>6, <1>10
    <2>4. Mindful(Waited(s, due, token))
        BY <1>1, <1>6, <1>7, <2>2, WaitedIsMindful
    <2> QED
        BY <2>3, <2>4 DEF u
<1> QED
    BY <1>9, <1>10

LEMMA DismissIsMindful ==
    ASSUME CallsMade, NEW s, Sound(s), Mindful(s)
    PROVE  Mindful(Dismiss(s))
<1> DEFINE v == Dismiss(s)
<1>1. /\ Alike(s, v, {"answers"})
      /\ \A r \in Ids : v.answers[r] = IF s.phase = "removed" /\ Queued(s, r)
                                       THEN 1 ELSE s.answers[r]
    BY DismissIs
<1> HIDE DEF v
<1>2. /\ v.mine = s.mine /\ v.topics = s.topics /\ v.gone = s.gone /\ v.shut = s.shut
      /\ v.lost = s.lost /\ v.pending = s.pending /\ v.joining = s.joining /\ v.link = s.link
      /\ v.rejoining = s.rejoining /\ v.read = s.read /\ v.phase = s.phase
    BY <1>1 DEF Alike, Fields
<1>3. \A r \in DOMAIN asked : Awaits(v, r) => Awaits(s, r)
    BY <1>1, AskedIds DEF Awaits
<1>4. Minded(v) /\ Listed(v) /\ Coming(v)
    BY <1>2 DEF Mindful, Minded, Listed, Coming
<1>5. OneTurn(v)
    BY <1>2, <1>3 DEF Mindful, OneTurn
<1>6. Apart(v) /\ Asking(v)
    BY <1>2 DEF Mindful, Apart, Asking, Ready
<1>7. Mindful(v)
    BY <1>4, <1>5, <1>6 DEF Mindful
<1> QED
    BY <1>7 DEF v

(* A step of the socket, from what its stages left.                        *)
LEMMA LeaveKeepsTended ==
    ASSUME Inv, NEW u, Sound(u), Mindful(u), NEW takes, Leave(Dismiss(u), takes),
           UNCHANGED asked
    PROVE  Tended'
<1>0. PICK v : v = Dismiss(u)
    OBVIOUS
<1>1. CallsMade /\ u \in Sockets /\ Young(u)
    BY DEF Inv, Sound
<1>2. v \in Sockets /\ Alike(u, v, {"answers"}) /\ Mindful(v)
    BY <1>0, <1>1, DismissIs, DismissIsMindful
<1>3. Leave(v, takes)
    BY <1>0
<1>4. v.read = u.read /\ v.phase = u.phase /\ v.sent = u.sent /\ v.pending = u.pending
    BY <1>2 DEF Alike, Fields
<1>5. v.read \in Nat /\ v.read <= Len(commands)
    BY <1>1, <1>4 DEF Young, Sockets
<1>6. /\ sock'.mine = v.mine /\ sock'.topics = v.topics
      /\ sock'.gone = v.gone /\ sock'.shut = v.shut
      /\ sock'.lost = v.lost /\ sock'.answers = v.answers /\ sock'.pending = v.pending
      /\ sock'.joining = v.joining /\ sock'.link = v.link /\ sock'.rejoining = v.rejoining
      /\ sock'.phase = v.phase /\ sock'.read = 0 /\ asked' = asked
    <2> DEFINE none == <<>>
               z == 0
               rest == FALSE
               stay == "stay"
               w == [v EXCEPT !.sent = none, !.read = z, !.next = stay, !.takes = rest]
    <2>1. sock' = w
        BY <1>3 DEF Leave
    <2>2. z = 0
        OBVIOUS
    <2> HIDE DEF none, z, rest, stay
    <2>3. Alike(v, w, {"sent", "read", "next", "takes"}) /\ w.read = z
        BY <1>2 DEF Sockets, Alike, Fields
    <2> HIDE DEF w
    <2>4. /\ w.mine = v.mine /\ w.topics = v.topics /\ w.gone = v.gone /\ w.shut = v.shut
          /\ w.lost = v.lost /\ w.answers = v.answers /\ w.pending = v.pending
          /\ w.joining = v.joining /\ w.link = v.link /\ w.rejoining = v.rejoining
          /\ w.phase = v.phase /\ w.read = 0
        BY <2>2, <2>3 DEF Alike, Fields
    <2> QED
        BY <2>1, <2>4
<1>7. (Minded(sock) /\ OneTurn(sock) /\ Listed(sock) /\ Coming(sock) /\ Apart(sock))'
    <2>1. Minded(v) /\ OneTurn(v) /\ Listed(v) /\ Coming(v) /\ Apart(v)
        BY <1>2 DEF Mindful
    <2>2. Minded(sock)' /\ Apart(sock)'
        BY <1>6, <2>1 DEF Minded, Apart
    <2>3. OneTurn(sock)'
        BY <1>6, <2>1 DEF OneTurn, Awaits
    <2>4. Listed(sock)'
        BY <1>6, <2>1 DEF Listed, Joins, On
    <2>5. Coming(sock)'
        BY <1>6, <2>1 DEF Coming, Joins, On
    <2> QED
        BY <2>2, <2>3, <2>4, <2>5
<1>8. Asking(sock)'
    <2>1. SUFFICES ASSUME v.phase = "live", ~Ready(v), NEW i \in DOMAIN commands'
                   PROVE  commands'[i].kind # "join"
        BY <1>6 DEF Asking, Ready
    <2>2. commands' = Unread(v)
        BY <1>3, <2>1 DEF Leave
    <2>3. /\ Unread(v) \in Seq(Requests)
          /\ \A j \in 1 .. Len(Unread(v)) : /\ j + v.read \in DOMAIN commands
                                            /\ Unread(v)[j] = commands[j + v.read]
        BY <1>1, <1>5, UnreadIs
    <2>4. i \in Nat /\ i > 0 /\ i + v.read \in DOMAIN commands
          /\ commands'[i] = commands[i + v.read]
        BY <2>1, <2>2, <2>3
    <2>5. i + v.read > v.read
        BY <1>5, <2>4
    <2> QED
        BY <1>2, <2>1, <2>4, <2>5 DEF Mindful, Asking
<1> QED
    BY <1>7, <1>8 DEF Tended, Mindful

LEMMA StepKeepsTended ==
    ASSUME Inv, Tended, NEW takes \in BOOLEAN, NEW ready, NEW beat, NEW due \in BOOLEAN,
           NEW token, Step(takes, ready, beat, due, token)
    PROVE  Tended'
<1> DEFINE closing == \E e \in Received : e.kind \in {"refused", "closed"}
           u == Stepped(takes /\ ~closing, ready, beat, due, token)
<1>1. /\ Leave(Dismiss(u), takes) /\ UNCHANGED asked /\ sock.phase # "removed"
    BY DEF Step
<1>2. PICK open \in BOOLEAN : open = (takes /\ ~closing)
    OBVIOUS
<1> HIDE DEF closing
<1>3. PICK w : w = u
    OBVIOUS
<1>4. Sound(w) /\ Mindful(w)
    <2>1. w = Stepped(open, ready, beat, due, token)
        BY <1>2, <1>3
    <2> HIDE DEF u
    <2>2. Sound(w)
        BY <1>1, <2>1, SteppedIsSound
    <2> QED
        BY <1>1, <2>1, <2>2, SteppedIsMindful
<1>5. Leave(Dismiss(w), takes)
    BY <1>1, <1>3
<1> HIDE DEF u
<1> QED
    BY <1>1, <1>4, <1>5, LeaveKeepsTended

(* Nothing the server or the network does changes what the game minds: a   *)
(* channel ended at any point, before the answer to the join too, a call   *)
(* never answered, a connection gone.                                      *)
LEMMA OthersKeepTended ==
    ASSUME Tended, UNCHANGED <<sock, commands, asked>>
    PROVE  Tended'
BY DEF Tended, Mindful, Minded, OneTurn, Awaits, Listed, Coming, Apart, Asking, Ready, Joins, On

-----------------------------------------------------------------------------
(* The game's calls.                                                       *)

(* A call of a topic, while no join or leave of it awaits its answer.      *)
LEMMA CallKeepsTurns ==
    ASSUME Inv, Tended, Patient, NEW c \in Calls, Call(c.kind, c.topic),
           NEW n, n \notin DOMAIN asked, DOMAIN asked' = DOMAIN asked \union {n},
           \A i \in DOMAIN asked : asked'[i] = asked[i], asked'[n] = c,
           sock'.answers = sock.answers, sock'.mine \subseteq sock.mine,
           c.kind = "leave" => c.topic \notin sock'.mine
    PROVE  OneTurn(sock)'
<1> DEFINE t == c.topic
<1>1. asked \in Seq(Calls) /\ OneTurn(sock)
    BY DEF Inv, CallsMade, Tended, Mindful
<1>2. \A r \in DOMAIN asked : asked[r].kind \in {"join", "push", "leave"}
    <2>1. \A r \in DOMAIN asked : asked[r] \in Calls
        BY <1>1
    <2>2. \A x \in Calls : x.kind \in {"join", "push", "leave"}
        BY RtConstants
    <2> QED
        BY <2>1, <2>2
<1>3. c.kind \in {"join", "push", "leave"}
    BY RtConstants
<1>4. /\ c.kind # "push" => ~Unanswered(t)
      /\ c.kind = "join" => t \notin sock.mine
    BY DEF Call
<1>5. ASSUME NEW r \in DOMAIN asked, Awaits(sock, r)', c.kind # "push"
      PROVE  asked[r].topic # t
    <2>1. sock.answers[r] = 0 /\ asked[r].kind \in {"join", "leave"}
        BY <1>2, <1>5 DEF Awaits
    <2> QED
        BY <1>4, <1>5, <2>1 DEF Unanswered
<1>6. Awaits(sock, n)' => c.kind # "push" /\ t \notin sock'.mine
    BY <1>3, <1>4 DEF Awaits
<1>7. \A r \in DOMAIN asked : Awaits(sock, r)' => Awaits(sock, r)
    BY DEF Awaits
<1>8. asked'[n].topic = t
    OBVIOUS
<1> HIDE DEF t
<1>9. ASSUME NEW r \in DOMAIN asked', Awaits(sock, r)'
      PROVE  asked'[r].topic \notin sock'.mine
    <2>1. CASE r = n
        BY <1>6, <1>8, <1>9, <2>1
    <2>2. CASE r \in DOMAIN asked
        BY <1>1, <1>7, <1>9, <2>2 DEF OneTurn
    <2> QED
        BY <2>1, <2>2
<1>10. ASSUME NEW r \in DOMAIN asked', NEW q \in DOMAIN asked', Awaits(sock, r)', Awaits(sock, q)',
              asked'[r].topic = asked'[q].topic
       PROVE  r = q
    <2>1. CASE r \in DOMAIN asked /\ q \in DOMAIN asked
        BY <1>1, <1>7, <1>10, <2>1 DEF OneTurn
    <2>2. CASE r \in DOMAIN asked /\ q = n
        BY <1>5, <1>6, <1>8, <1>10, <2>2
    <2>3. CASE q \in DOMAIN asked /\ r = n
        BY <1>5, <1>6, <1>8, <1>10, <2>3
    <2> QED
        BY <2>1, <2>2, <2>3
<1> QED
    BY <1>9, <1>10 DEF OneTurn

(* The queue grows by what is no join, unless the socket is open.          *)
LEMMA QueueingIsMindful ==
    ASSUME Asking(sock), sock'.phase = sock.phase, sock'.link = sock.link, sock'.read = sock.read,
           \A i \in DOMAIN commands' :
                \/ i \in DOMAIN commands /\ commands'[i] = commands[i]
                \/ commands'[i].kind # "join" \/ Ready(sock)
    PROVE  Asking(sock)'
BY DEF Asking, Ready

LEMMA CallKeepsTended ==
    ASSUME Inv, Tended, Patient, NEW c \in Calls, Call(c.kind, c.topic)
    PROVE  Tended'
<1>0. PICK n : n = Len(asked) + 1
    OBVIOUS
<1> DEFINE m == Len(commands) + 1
           e == [kind |-> c.kind, topic |-> c.topic]
           q == [kind |-> c.kind, topic |-> c.topic, request |-> n]
           mine == IF c.kind = "leave" THEN sock.mine \ {c.topic} ELSE sock.mine
<1>1. /\ sock \in Sockets /\ Accounted(sock) /\ Placed(sock) /\ Mindful(sock)
      /\ asked \in Seq(Calls) /\ commands \in Seq(Requests)
    BY DEF Inv, Sound, CallsMade, Tended
<1>2. /\ asked' = Append(asked, e) /\ commands' = Append(commands, q) /\ UNCHANGED <<wire, server>>
      /\ Len(asked) < MaxRequests /\ (c.kind = "join" => sock.life.at = "open")
      /\ sock' = [sock EXCEPT !.mine = mine]
    <2>1. sock' = IF c.kind = "leave" THEN [sock EXCEPT !.mine = @ \ {c.topic}] ELSE sock
        BY DEF Call
    <2>2. sock' = [sock EXCEPT !.mine = mine]
        BY <1>1, <2>1 DEF Sockets
    <2> QED
        BY <1>0, <2>2 DEF Call
<1>3. /\ e = c /\ c.kind \in {"join", "push", "leave"} /\ c.topic \in Channels
    BY RtConstants DEF Channels
<1>4. n \in Nat /\ n \notin DOMAIN asked /\ Len(asked) \in Nat
    BY <1>0, <1>1
<1>5. q \in Requests /\ q.kind = c.kind
    BY <1>3, <1>4 DEF Requests
<1> HIDE DEF e, q
<1>6. /\ DOMAIN asked' = DOMAIN asked \union {n} /\ asked'[n] = c
      /\ \A i \in DOMAIN asked : asked'[i] = asked[i]
    <2>1. Append(asked, e) \in Seq(Calls) /\ Grown(asked, Append(asked, e), e, n)
        BY <1>0, <1>1, <1>3, Added, Zenon
    <2>2. Grown(asked, asked', c, n)
        BY <1>2, <1>3, <2>1, Zenon
    <2> QED
        BY <2>2 DEF Grown
<1>7. \A i \in DOMAIN commands' :
        \/ i \in DOMAIN commands /\ commands'[i] = commands[i]
        \/ commands'[i] = q
    <2>1. Append(commands, q) \in Seq(Requests) /\ Grown(commands, Append(commands, q), q, m)
        BY <1>1, <1>5, Added, Zenon
    <2>2. Grown(commands, commands', q, m)
        BY <1>2, <2>1, Zenon
    <2> HIDE DEF m
    <2> QED
        BY <2>2 DEF Grown
<1>8. /\ mine \in SUBSET Topics /\ mine \subseteq sock.mine
      /\ c.kind = "leave" => c.topic \notin mine
    BY <1>1 DEF Sockets
<1> HIDE DEF mine
<1>9. Alike(sock, sock', {"mine"}) /\ sock'.mine = mine
    <2>1. [sock EXCEPT !.mine = mine].mine = mine
        BY <1>1 DEF Sockets
    <2> QED
        BY <1>1, <1>2, <1>8, <2>1, MinedIs
<1>10. /\ sock'.topics = sock.topics /\ sock'.gone = sock.gone /\ sock'.shut = sock.shut
       /\ sock'.lost = sock.lost
       /\ sock'.answers = sock.answers /\ sock'.pending = sock.pending
       /\ sock'.joining = sock.joining /\ sock'.link = sock.link /\ sock'.sent = sock.sent
       /\ sock'.rejoining = sock.rejoining /\ sock'.phase = sock.phase /\ sock'.read = sock.read
    BY <1>9 DEF Alike, Fields
<1>11. OneTurn(sock)'
    BY <1>4, <1>6, <1>8, <1>9, <1>10, CallKeepsTurns
<1>12. \A p \in sock.pending : /\ Joins(p)' <=> Joins(p)
                               /\ On(p)' = On(p)
    BY <1>1, <1>6 DEF Accounted, Joins, On
<1>13. Minded(sock)' /\ Apart(sock)'
    BY <1>1, <1>8, <1>9, <1>10 DEF Mindful, Minded, Apart
<1>14. Listed(sock)'
    BY <1>1, <1>10, <1>12 DEF Mindful, Listed
<1>15. Coming(sock)'
    BY <1>1, <1>10, <1>12 DEF Mindful, Coming
<1>16. Asking(sock)'
    <2>1. c.kind = "join" => Ready(sock)
        BY <1>1, <1>2 DEF Placed
    <2>2. \A i \in DOMAIN commands' :
            \/ i \in DOMAIN commands /\ commands'[i] = commands[i]
            \/ commands'[i].kind # "join" \/ Ready(sock)
        BY <1>5, <1>7, <2>1
    <2> QED
        BY <1>1, <1>10, <2>2, QueueingIsMindful DEF Mindful
<1> QED
    BY <1>11, <1>13, <1>14, <1>15, <1>16 DEF Tended, Mindful

LEMMA OrderKeepsTended ==
    ASSUME Inv, Tended, NEW kind \in {"close", "interrupt"}, Order(kind)
    PROVE  Tended'
<1> DEFINE q == [kind |-> kind, topic |-> User, request |-> 0]
           m == Len(commands) + 1
<1>1. commands \in Seq(Requests) /\ Mindful(sock)
    BY DEF Inv, CallsMade, Tended
<1>2. commands' = Append(commands, q) /\ UNCHANGED <<sock, wire, server, asked>>
    BY DEF Order
<1>3. q \in Requests /\ q.kind # "join"
    BY DEF Requests, Channels
<1> HIDE DEF q
<1>4. \A i \in DOMAIN commands' :
        \/ i \in DOMAIN commands /\ commands'[i] = commands[i]
        \/ commands'[i] = q
    <2>1. Append(commands, q) \in Seq(Requests) /\ Grown(commands, Append(commands, q), q, m)
        BY <1>1, <1>3, Added, Zenon
    <2>2. Grown(commands, commands', q, m)
        BY <1>2, <2>1, Zenon
    <2> HIDE DEF m
    <2> QED
        BY <2>2 DEF Grown
<1>5. Asking(sock)'
    <2>1. \A i \in DOMAIN commands' :
            \/ i \in DOMAIN commands /\ commands'[i] = commands[i]
            \/ commands'[i].kind # "join" \/ Ready(sock)
        BY <1>3, <1>4
    <2> QED
        BY <1>1, <1>2, <2>1, QueueingIsMindful DEF Mindful
<1>6. (Minded(sock) /\ OneTurn(sock) /\ Listed(sock) /\ Coming(sock) /\ Apart(sock))'
    BY <1>1, <1>2 DEF Mindful, Minded, OneTurn, Awaits, Listed, Coming, Apart, Joins, On
<1> QED
    BY <1>5, <1>6 DEF Tended, Mindful

-----------------------------------------------------------------------------
(* What the game minds is kept all along.                                  *)
LEMMA InitIsTended == Init => Tended
<1> SUFFICES ASSUME Init PROVE Tended
    OBVIOUS
<1>1. /\ sock = NewSocket /\ commands = <<>> /\ wire = <<>> /\ server = NoServer /\ asked = <<>>
    BY DEF Init
<1>2. /\ sock.mine = {} /\ sock.pending = {} /\ sock.joining = {} /\ sock.phase = "waiting"
      /\ DOMAIN asked = {}
    BY <1>1 DEF NewSocket
<1>3. Mindful(sock)
    BY <1>2 DEF Mindful, Minded, OneTurn, Listed, Coming, Apart, Asking
<1> QED
    BY <1>3 DEF Tended

LEMMA NextKeepsTended == Patient /\ Inv /\ Tended /\ [Next]_vars => Tended'
<1> SUFFICES ASSUME Patient, Inv, Tended, [Next]_vars PROVE Tended'
    OBVIOUS
<1>1. ASSUME NEW ready, NEW takes \in BOOLEAN, NEW beat \in BOOLEAN, NEW due \in BOOLEAN,
             NEW token, Step(takes, ready, beat, due, token)
      PROVE  Tended'
    BY <1>1, StepKeepsTended
<1>2. ASSUME NEW c \in Calls, Call(c.kind, c.topic) PROVE Tended'
    BY <1>2, CallKeepsTended
<1>3. ASSUME Close \/ Interrupt PROVE Tended'
    BY <1>3, OrderKeepsTended DEF Close, Interrupt
<1>4. ASSUME Accept \/ Refuse401 \/ Vanish PROVE Tended'
    BY <1>4, OthersKeepTended DEF Accept, Refuse401, Vanish, Says
<1>5. ASSUME NEW ok \in BOOLEAN, Serve(ok) PROVE Tended'
    BY <1>5, OthersKeepTended DEF Serve, Says
<1>6. ASSUME Ignore PROVE Tended'
    BY <1>6, OthersKeepTended DEF Ignore
<1>7. ASSUME NEW t \in Channels, NEW event \in {"error", "close"}, EndChannel(t, event)
      PROVE  Tended'
    BY <1>7, OthersKeepTended DEF EndChannel, Says
<1>8. ASSUME UNCHANGED vars PROVE Tended'
    BY <1>8, OthersKeepTended DEF vars
<1> QED
    BY <1>1, <1>2, <1>3, <1>4, <1>5, <1>6, <1>7, <1>8 DEF Next

(* MineIsRejoined: with a game that waits for its answers, every topic it  *)
(* was told it joined and has not left since is among those the next       *)
(* reconnect joins again, or was refused for good, or is to be told lost,  *)
(* or was closed by the server after the join was sent. The server does as *)
(* it likes: it may end a channel before it answers the join of it.        *)
THEOREM KeptTopicsAreRejoined ==
    ASSUME Patient
    PROVE  Spec => []MineIsRejoined
<1>1. Init => Inv /\ Tended
    BY InitIsSound, InitIsTended
<1>2. Inv /\ Tended /\ [Next]_vars => (Inv /\ Tended)'
    BY NextKeepsInv, NextKeepsTended
<1>3. Tended => MineIsRejoined
    BY DEF Tended, Mindful, Minded, MineIsRejoined
<1> QED
    BY <1>1, <1>2, <1>3, PTL DEF Spec
=============================================================================
