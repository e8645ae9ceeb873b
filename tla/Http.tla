-------------------------------- MODULE Http --------------------------------
(* HTTP requests (balaur_http) over what carries them: the worker pool      *)
(* (Pool), the channel a worker reports on and the wake-up that follows     *)
(* (replay.rs, wake.rs), the loop that sleeps while nothing is owed         *)
(* (kiss3d_backend.rs), and the recording a second process plays back.      *)
EXTENDS Pool, SequencesExt

CONSTANTS
    Main,        \* the thread of the loop, the one that submits
    Downloads,   \* the requests that report progress, once each
    MaxFrames,   \* bound: frames of a run that is recorded
    MaxRecorded  \* bound: requests in one

(* A request is named by its token, counted up from 1.                      *)
ASSUME HttpConstants ==
    /\ Callers = {Main} /\ Jobs = 1..Cardinality(Jobs) /\ Downloads \subseteq Jobs
    /\ MaxFrames \in Nat /\ MaxRecorded \in Nat

VARIABLES
    inFlight,   \* HttpState.in_flight
    flagged,    \* requests whose cancel flag is set
    cancelled,  \* HttpState.cancelled
    justNow,    \* HttpState.cancelled_now
    channel,    \* reports not drained: [of, last]
    stage,      \* how far each thread is with its job
    woken,      \* WOKEN
    posted,     \* whether the hook posted an event the loop has not read
    loop,       \* where the loop is
    asked,      \* requests made: the next token
    frame,      \* this frame: [arrivals, did, told]
    recording,  \* Recording: whether frames go to a file
    file,       \* the frames recorded
    mode,       \* "live", or "replay" in the process that plays the file
    cursor,     \* frames fed
    feed,       \* the frame ReplayFeed holds, or 0
    paused,     \* whether the player is
    heard,      \* history: what the scripts of the last fed frame woke to
    held,       \* history: what was told in frames held since
    panicked,   \* history: requests whose job panicked, and never reports
    answers     \* history: how often each request was answered for good

httpVars == <<inFlight, flagged, cancelled, justNow, channel, stage, woken, posted, loop,
              asked, frame, panicked>>
replayVars == <<recording, mode, cursor, feed, paused, heard, held>>
vars == <<poolVars, httpVars, replayVars, file, answers>>

NoFrame == [arrivals |-> <<>>, did |-> <<>>, told |-> <<>>]

(* A thread is with no job, at its work, past it with the outcome to        *)
(* report, or between the report and what comes next.                       *)
Stages == {"out", "going", "over", "sent", "calling", "progressed", "hooking", "done"}

HttpInit ==
    /\ inFlight = {} /\ flagged = {} /\ cancelled = {} /\ justNow = <<>>
    /\ channel = <<>> /\ stage = [t \in Threads |-> "out"]
    /\ woken = FALSE /\ posted = FALSE /\ loop = "scripts"
    /\ asked = 0 /\ frame = NoFrame
    /\ panicked = {} /\ answers = [r \in Jobs |-> 0]

Init ==
    /\ PoolInit /\ HttpInit /\ recording \in BOOLEAN /\ file = <<>>
    /\ mode = "live" /\ cursor = 0 /\ feed = 0 /\ paused = FALSE /\ heard = {} /\ held = {}

-----------------------------------------------------------------------------
(* The workers (run in request.rs, report, wake).                           *)

(* A cancelled request never goes out; it is only reported.                 *)
Start(t) ==
    /\ Take(t)
    /\ stage' = [stage EXCEPT ![t] = IF Head(waiting) \in flagged THEN "over" ELSE "going"]
    /\ UNCHANGED <<inFlight, flagged, cancelled, justNow, channel, woken, posted, loop, asked,
                   frame, replayVars, file, answers, panicked>>

(* Part of a download landed.                                               *)
Progress(t) ==
    /\ stage[t] = "going" /\ job[t] \in Downloads
    /\ channel' = Append(channel, [of |-> job[t], last |-> FALSE])
    /\ stage' = [stage EXCEPT ![t] = "progressed"]
    /\ UNCHANGED <<poolVars, inFlight, flagged, cancelled, justNow, woken, posted, loop, asked,
                   frame, replayVars, file, answers, panicked>>

(* The outcome, an answer or an error.                                      *)
Outcome(t) ==
    /\ \/ stage[t] = "over"
       \/ stage[t] = "going" /\ job[t] \notin Downloads
    /\ channel' = Append(channel, [of |-> job[t], last |-> TRUE])
    /\ stage' = [stage EXCEPT ![t] = "sent"]
    /\ UNCHANGED <<poolVars, inFlight, flagged, cancelled, justNow, woken, posted, loop, asked,
                   frame, replayVars, file, answers, panicked>>

(* The job panics with nothing reported; its worker lives on.               *)
Panics(t) ==
    /\ stage[t] \in {"going", "over"}
    /\ panicked' = panicked \union {job[t]}
    /\ stage' = [stage EXCEPT ![t] = "done"]
    /\ UNCHANGED <<poolVars, inFlight, flagged, cancelled, justNow, channel, woken, posted, loop,
                   asked, frame, replayVars, file, answers>>

After == [sent |-> "done", calling |-> "done", progressed |-> "over", hooking |-> "over"]

(* A mutant: the loop is woken only when it was not woken before.           *)
WakeOnce(t) ==
    /\ stage[t] \in {"sent", "progressed"}
    /\ woken' = TRUE
    /\ stage' = [stage EXCEPT ![t] = After[@]]
    /\ UNCHANGED <<poolVars, inFlight, flagged, cancelled, justNow, channel, posted, loop, asked,
                   frame, replayVars, file, answers, panicked>>

(* wake: the first to set the flag calls the hook.                          *)
Wake(t) ==
    /\ stage[t] \in {"sent", "progressed"}
    /\ woken' = TRUE
    /\ stage' = [stage EXCEPT ![t] = IF woken THEN After[@]
                                     ELSE IF @ = "sent" THEN "calling" ELSE "hooking"]
    /\ UNCHANGED <<poolVars, inFlight, flagged, cancelled, justNow, channel, posted, loop, asked,
                   frame, replayVars, file, answers, panicked>>

Hook(t) ==
    /\ stage[t] \in {"calling", "hooking"}
    /\ posted' = TRUE /\ stage' = [stage EXCEPT ![t] = After[@]]
    /\ UNCHANGED <<poolVars, inFlight, flagged, cancelled, justNow, channel, woken, loop, asked,
                   frame, replayVars, file, answers, panicked>>

JobEnds(t) ==
    /\ stage[t] = "done" /\ Finish(t) /\ stage' = [stage EXCEPT ![t] = "out"]
    /\ UNCHANGED <<inFlight, flagged, cancelled, justNow, channel, woken, posted, loop, asked,
                   frame, replayVars, file, answers, panicked>>

(* What the pool does by itself.                                            *)
PoolStep ==
    /\ mode = "live"
    /\ \/ \E t \in Threads : End(t) \/ Sleep(t) \/ Stir(t) \/ Spawn(Main, t)
       \/ SpawnFails(Main) \/ NotifyOne(Main) \/ NotifyAll(Main)
    /\ UNCHANGED <<httpVars, replayVars, file, answers>>

-----------------------------------------------------------------------------
(* The loop (sleep_until_owed) and the pump of a frame.                     *)

(* take: something was reported since the last frame.                       *)
Owed ==
    /\ mode = "live" /\ loop = "top" /\ woken
    /\ woken' = FALSE /\ loop' = "frame"
    /\ UNCHANGED <<poolVars, inFlight, flagged, cancelled, justNow, channel, stage, posted, asked,
                   frame, replayVars, file, answers, panicked>>

Waits ==
    /\ mode = "live" /\ loop = "top" /\ ~woken
    /\ loop' = "asleep"
    /\ UNCHANGED <<poolVars, inFlight, flagged, cancelled, justNow, channel, stage, woken, posted,
                   asked, frame, replayVars, file, answers, panicked>>

(* The wait ends with what the hook posted, and the loop looks again.       *)
Roused ==
    /\ mode = "live" /\ loop = "asleep" /\ posted
    /\ posted' = FALSE /\ loop' = "top"
    /\ UNCHANGED <<poolVars, inFlight, flagged, cancelled, justNow, channel, stage, woken, asked,
                   frame, replayVars, file, answers, panicked>>

(* Or with input, whose frame serves a wake that came with it.              *)
Input ==
    /\ mode = "live" /\ loop \in {"top", "asleep"}
    /\ woken' = FALSE /\ loop' = "frame"
    /\ UNCHANGED <<poolVars, inFlight, flagged, cancelled, justNow, channel, stage, posted, asked,
                   frame, replayVars, file, answers, panicked>>

Told(r, kind) == [of |-> r, kind |-> kind]

(* One report drained: a cancelled request's is dropped, and its last one   *)
(* clears the note of it; progress wakes nothing.                           *)
Arrived(w, event) ==
    IF event.of \in w.cancelled
    THEN IF event.last THEN [w EXCEPT !.cancelled = @ \ {event.of}] ELSE w
    ELSE IF event.last THEN [w EXCEPT !.told = Append(@, Told(event.of, "reply")),
                                      !.inFlight = @ \ {event.of},
                                      !.answers[event.of] = @ + 1]
    ELSE [w EXCEPT !.told = Append(@, Told(event.of, "progress"))]

(* Who was cancelled since the last frame is told so first.                 *)
Opened(w) ==
    [w EXCEPT !.now = <<>>,
              !.told = [i \in DOMAIN w.now |-> Told(w.now[i], "cancelled")],
              !.answers = [r \in Jobs |->
                              @[r] + Cardinality({i \in DOMAIN w.now : w.now[i] = r})]]

Drained(w, events) ==
    LET after[i \in 0..Len(events)] ==
            IF i = 0 THEN w ELSE Arrived(after[i - 1], events[i])
    IN  after[Len(events)]

(* pump_http_system: the cancelled, then what was drained in the order it   *)
(* came.                                                                    *)
Pumped(w, events) == Drained(Opened(w), events)

(* Only a recorded frame is kept.                                           *)
Noted(f) == IF recording THEN f ELSE NoFrame

State == [inFlight |-> inFlight, cancelled |-> cancelled, now |-> justNow,
          answers |-> answers, told |-> <<>>]

Pump ==
    /\ loop = "frame"
    /\ LET w == Pumped(State, channel)
       IN  /\ inFlight' = w.inFlight /\ cancelled' = w.cancelled /\ justNow' = w.now
           /\ frame' = Noted([arrivals |-> channel, did |-> <<>>, told |-> w.told])
           /\ answers' = w.answers
    /\ channel' = <<>> /\ loop' = "scripts"
    /\ UNCHANGED <<poolVars, flagged, stage, woken, posted, asked, replayVars, file, panicked>>

(* request, the start of one that is not suppressed.                        *)
Request ==
    /\ mode = "live" /\ loop = "scripts" /\ asked + 1 \in Jobs
    /\ recording => asked < MaxRecorded
    /\ Submit(Main, asked + 1)
    /\ asked' = asked + 1 /\ inFlight' = inFlight \union {asked + 1}
    /\ frame' = Noted([frame EXCEPT !.did = Append(@, [op |-> "request", of |-> asked + 1])])
    /\ UNCHANGED <<flagged, cancelled, justNow, channel, stage, woken, posted, loop, replayVars,
                   file, answers, panicked>>

(* A mutant: a request cancelled is not noted, only told.                   *)
CancelledUnnoted(w, r) ==
    [w EXCEPT !.inFlight = @ \ {r}, !.now = Append(@, r)]

(* cancel, of a request in flight.                                          *)
Cancelled(w, r) ==
    [w EXCEPT !.inFlight = @ \ {r}, !.cancelled = @ \union {r}, !.now = Append(@, r)]

Cancel(r) ==
    /\ mode = "live" /\ loop = "scripts" /\ caller[Main] = "rest" /\ r \in inFlight
    /\ LET w == Cancelled(State, r)
       IN  inFlight' = w.inFlight /\ cancelled' = w.cancelled /\ justNow' = w.now
    /\ flagged' = flagged \union {r}
    /\ frame' = Noted([frame EXCEPT !.did = Append(@, [op |-> "cancel", of |-> r])])
    /\ UNCHANGED <<poolVars, channel, stage, woken, posted, loop, asked, replayVars, file,
                   answers, panicked>>

(* record_frame_system: the frame goes to the file as it ends.              *)
EndFrame ==
    /\ mode = "live" /\ loop = "scripts" /\ caller[Main] = "rest"
    /\ recording => Len(file) < MaxFrames
    /\ file' = IF recording THEN Append(file, frame) ELSE file
    /\ frame' = NoFrame /\ loop' = "top"
    /\ UNCHANGED <<poolVars, inFlight, flagged, cancelled, justNow, channel, stage, woken, posted,
                   asked, replayVars, answers, panicked>>

(* The engine is dropped, and the pool with it.                             *)
Quit ==
    /\ mode = "live" /\ loop = "top" /\ Close(Main) /\ loop' = "gone"
    /\ UNCHANGED <<inFlight, flagged, cancelled, justNow, channel, stage, woken, posted, asked,
                   frame, replayVars, file, answers, panicked>>

-----------------------------------------------------------------------------
(* The recording played, whenever and however the process that wrote it     *)
(* ended. Nothing goes out: start is suppressed.                            *)
Replay ==
    /\ mode = "live" /\ file # <<>> /\ mode' = "replay"
    /\ waiting' = <<>> /\ workers' = 0 /\ idle' = 0 /\ closed' = FALSE
    /\ thread' = [t \in Threads |-> "none"] /\ job' = [t \in Threads |-> NoJob]
    /\ caller' = [c \in Callers |-> "rest"] /\ taken' = {} /\ failures' = 0
    /\ inFlight' = {} /\ flagged' = {} /\ cancelled' = {} /\ justNow' = <<>>
    /\ channel' = <<>> /\ stage' = [t \in Threads |-> "out"]
    /\ woken' = FALSE /\ posted' = FALSE /\ loop' = "player" /\ asked' = 0 /\ frame' = NoFrame
    /\ panicked' = {} /\ answers' = [r \in Jobs |-> 0]
    /\ recording' = FALSE
    /\ UNCHANGED <<cursor, feed, paused, heard, held, file>>

(* What the scripts of the recorded frame did, done again.                  *)
Again(w, command) ==
    IF command.op = "request" THEN [w EXCEPT !.inFlight = @ \union {command.of}]
    ELSE Cancelled(w, command.of)

Redone(w, commands) ==
    LET after[i \in 0..Len(commands)] ==
            IF i = 0 THEN w ELSE Again(after[i - 1], commands[i])
    IN  after[Len(commands)]

(* A mutant: the feed outlives the frame it was for.                        *)
FedKept(k, pauses) == k

(* after_frame: nothing is fed while the player is paused.                  *)
Fed(k, pauses) == IF pauses \/ k = Len(file) THEN 0 ELSE k

(* A recorded frame is fed and run; the frame may pause the player, and the *)
(* last one does.                                                           *)
Feed(pauses) ==
    /\ mode = "replay" /\ ~paused /\ cursor < Len(file)
    /\ LET k == cursor + 1
           w == Pumped(State, file[k].arrivals)
           d == Redone(w, file[k].did)
       IN  /\ cursor' = k /\ feed' = Fed(k, pauses)
           /\ inFlight' = d.inFlight /\ cancelled' = d.cancelled /\ justNow' = d.now
           /\ heard' = held \union ToSet(w.told) /\ held' = {}
           /\ answers' = w.answers
           /\ paused' = (pauses \/ k = Len(file))
    /\ UNCHANGED <<poolVars, flagged, channel, stage, woken, posted, loop, asked, frame, file,
                   recording, mode, panicked>>

(* A frame drawn while the player is paused. The pump runs; the scripts it  *)
(* wakes go on with the next frame that is fed.                             *)
Hold ==
    /\ mode = "replay" /\ paused
    /\ LET w == Pumped(State, IF feed = 0 THEN <<>> ELSE file[feed].arrivals)
       IN  /\ inFlight' = w.inFlight /\ cancelled' = w.cancelled /\ justNow' = w.now
           /\ held' = held \union ToSet(w.told)
           /\ answers' = w.answers
    /\ UNCHANGED <<poolVars, flagged, channel, stage, woken, posted, loop, asked, frame,
                   recording, mode, cursor, feed, paused, heard, file, panicked>>

Resume ==
    /\ mode = "replay" /\ paused /\ cursor < Len(file)
    /\ paused' = FALSE
    /\ UNCHANGED <<poolVars, httpVars, recording, mode, cursor, feed, heard, held, file, answers>>

-----------------------------------------------------------------------------
Next ==
    \/ \E t \in Threads : Start(t) \/ Progress(t) \/ Outcome(t) \/ Panics(t)
                         \/ Wake(t) \/ Hook(t) \/ JobEnds(t)
    \/ PoolStep
    \/ Owed \/ Waits \/ Roused \/ Input \/ Pump \/ Request \/ EndFrame \/ Quit
    \/ \E r \in Jobs : Cancel(r)
    \/ Replay \/ Hold \/ Resume \/ \E pauses \in BOOLEAN : Feed(pauses)

(* The threads run, the loop too, and a request ends: its timeout sees to   *)
(* it. No input is counted on.                                              *)
Fairness ==
    /\ WF_vars(Owed) /\ WF_vars(Waits) /\ WF_vars(Roused) /\ WF_vars(Pump) /\ WF_vars(EndFrame)
    /\ WF_vars(PoolStep /\ caller' # caller)
    /\ \A t \in Threads : /\ WF_vars(Start(t)) /\ WF_vars(Progress(t) \/ Outcome(t))
                          /\ WF_vars(Wake(t)) /\ WF_vars(Hook(t)) /\ WF_vars(JobEnds(t))

Spec == Init /\ [][Next]_vars /\ Fairness

-----------------------------------------------------------------------------
(* A request is answered once: with its reply, or with its cancelling and   *)
(* never with both, though the reply may be on its way as it is cancelled.  *)
AnsweredOnce == \A r \in Jobs : answers[r] <= 1 /\ (answers[r] = 1 => r \notin inFlight)

(* A frame played back tells the scripts what the recorded one told them,   *)
(* wherever the player was paused between two frames.                       *)
ReplayTellsTheSame ==
    mode = "replay" /\ cursor > 0 => heard = ToSet(file[cursor].told)

(* A request is answered in the end, with the loop asleep whenever nothing  *)
(* is owed it: a report is never left lying in the channel. The exceptions  *)
(* are the process that ends, the system that starts no thread, and the     *)
(* request whose job panicked, which nothing ever answers.                  *)
EveryRequestIsAnswered ==
    \A r \in Jobs :
        r \in inFlight /\ ~recording ~> \/ r \notin inFlight \/ mode = "replay" \/ closed
                                        \/ failures > 0 /\ workers = 0
                                        \/ r \in panicked
=============================================================================
