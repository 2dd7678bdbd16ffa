---------------------------- MODULE DeviceWorker ----------------------------
(***************************************************************************)
(* The worker thread that owns the device (worker.rs): callers on other    *)
(* threads send a request into one bounded channel and block for a reply   *)
(* on a channel of their own, while the worker takes requests in batches,  *)
(* waits for an event between batches, and makes a health check when three *)
(* seconds have passed.  What a request does to the device is the business *)
(* of Service.tla; here it is done (once) and answered.                    *)
(***************************************************************************)
EXTENDS Naturals, Sequences, SequencesExt

CONSTANTS
    Nobody,       \* no caller
    Callers,      \* threads that hold a reference to the DeviceWorker
    QueueLimit,   \* capacity of the request channel (QUEUE_LIMIT)
    BatchLimit    \* requests taken before events are waited for (REQUEST_BATCH_LIMIT)

ASSUME WorkerAssumption ==
    /\ Nobody \notin Callers
    /\ QueueLimit \in Nat \ {0}
    /\ BatchLimit \in Nat \ {0}

VARIABLES
    (* Callers. *)
    call,         \* "idle", "sending", "waiting" for the reply, or "joining"
    kind,         \* what is called: "request" or "stop"
    result,       \* what the last call answered: "ok" or "stopped"
    held,         \* the DeviceWorker has not been dropped
    (* Channels. *)
    queue,        \* senders of the requests in the channel, oldest first
    reply,        \* callers whose reply channel holds an answer
    (* The worker thread. *)
    worker,       \* where it is in run()
    hand,         \* the sender of the request being handled
    processed,    \* requests taken in this batch
    online,       \* what the service believes
    due,          \* HEALTH_CHECK_INTERVAL has elapsed since the last check
    (* History. *)
    done          \* how often the call in progress, or the last, was carried out

callerVars == <<call, kind, result, held>>
workerVars == <<worker, hand, processed, online, due>>
vars == <<callerVars, queue, reply, workerVars, done>>

(* The receiver lives until run returns. *)
Receiving == worker \in {"batch", "handling", "poll", "check", "closing"}

-----------------------------------------------------------------------------
(* The methods of DeviceWorker: send, then wait for the reply. *)

Call(c) ==
    /\ held
    /\ call[c] = "idle"
    /\ \E k \in {"request", "stop"} : kind' = [kind EXCEPT ![c] = k]
    /\ call' = [call EXCEPT ![c] = "sending"]
    /\ result' = [result EXCEPT ![c] = "none"]
    /\ done' = [done EXCEPT ![c] = 0]
    /\ UNCHANGED <<held, queue, reply, workerVars>>

(* Mutant of HasRoom: the channel is not bounded. *)
HasRoomAlways == TRUE

HasRoom == Len(queue) < QueueLimit

(* send blocks while the channel is full. *)
Send(c) ==
    /\ call[c] = "sending"
    /\ Receiving
    /\ HasRoom
    /\ queue' = Append(queue, c)
    /\ call' = [call EXCEPT ![c] = "waiting"]
    /\ UNCHANGED <<kind, result, held, reply, workerVars, done>>

Return(c, answer) ==
    /\ call' = [call EXCEPT ![c] = "idle"]
    /\ result' = [result EXCEPT ![c] = answer]

SendFails(c) ==
    /\ call[c] = "sending"
    /\ ~Receiving
    /\ Return(c, "stopped")
    /\ UNCHANGED <<kind, held, queue, reply, workerVars, done>>

(* Mutant of AfterReply: stop does not join the thread. *)
AfterReplyAtOnce(c) == Return(c, "ok")

(* stop() goes on to join the thread. *)
AfterReply(c) ==
    IF kind[c] = "stop"
    THEN call' = [call EXCEPT ![c] = "joining"] /\ UNCHANGED result
    ELSE Return(c, "ok")

Receive(c) ==
    /\ call[c] = "waiting"
    /\ c \in reply
    /\ reply' = reply \ {c}
    /\ AfterReply(c)
    /\ UNCHANGED <<kind, held, queue, workerVars, done>>

(* The request, and the sending half of the reply channel in it, is gone.  *)
HungUp(c) ==
    /\ call[c] = "waiting"
    /\ c \notin reply
    /\ hand # c
    /\ ~Contains(queue, c)
    /\ Return(c, "stopped")
    /\ UNCHANGED <<kind, held, queue, reply, workerVars, done>>

Join(c) ==
    /\ call[c] = "joining"
    /\ worker = "ended"
    /\ Return(c, "ok")
    /\ UNCHANGED <<kind, held, queue, reply, workerVars, done>>

(* The last owner lets go of the DeviceWorker, and the thread is detached. *)
Drop ==
    /\ held
    /\ \A c \in Callers : call[c] = "idle"
    /\ held' = FALSE
    /\ UNCHANGED <<call, kind, result, queue, reply, workerVars, done>>

-----------------------------------------------------------------------------
(* run: a batch of requests, one wait for an event, the health check. *)

Take ==
    /\ worker = "batch"
    /\ processed < BatchLimit
    /\ queue # << >>
    /\ hand' = Head(queue)
    /\ queue' = Tail(queue)
    /\ processed' = processed + 1
    /\ worker' = "handling"
    /\ UNCHANGED <<callerVars, reply, online, due, done>>

(* Any call into the service may find the interface there or gone. *)
Handle ==
    /\ worker = "handling"
    /\ done' = [done EXCEPT ![hand] = @ + 1]
    /\ reply' = reply \cup {hand}
    /\ hand' = Nobody
    /\ IF kind[hand] = "stop"
       THEN worker' = "closing" /\ UNCHANGED online
       ELSE worker' = "batch" /\ online' \in BOOLEAN
    /\ UNCHANGED <<callerVars, queue, processed, due>>

(* Mutants of EndBatch: a full batch is followed by another; a full batch  *)
(* skips the wait for an event.                                            *)
EndBatchWhenEmpty ==
    /\ worker = "batch"
    /\ queue = << >> \/ processed = BatchLimit
    /\ worker' = IF queue = << >> THEN "poll" ELSE "batch"
    /\ processed' = 0
    /\ UNCHANGED <<callerVars, queue, reply, hand, online, due, done>>

EndBatchSkipsPoll ==
    /\ worker = "batch"
    /\ queue = << >> \/ processed = BatchLimit
    /\ worker' = IF processed = BatchLimit THEN "check" ELSE "poll"
    /\ UNCHANGED <<callerVars, queue, reply, hand, processed, online, due, done>>

EndBatch ==
    /\ worker = "batch"
    /\ processed = BatchLimit \/ (queue = << >> /\ held)
    /\ worker' = "poll"
    /\ UNCHANGED <<callerVars, queue, reply, hand, processed, online, due, done>>

(* try_recv finds every sender gone. *)
Disconnected ==
    /\ worker = "batch"
    /\ processed < BatchLimit
    /\ queue = << >> /\ ~held
    /\ worker' = "closing"
    /\ UNCHANGED <<callerVars, queue, reply, hand, processed, online, due, done>>

(* Online the worker waits for an event, offline it only sleeps. *)
Poll ==
    /\ worker = "poll"
    /\ IF online THEN online' \in BOOLEAN ELSE UNCHANGED online
    /\ worker' = "check"
    /\ UNCHANGED <<callerVars, queue, reply, hand, processed, due, done>>

NextBatch ==
    /\ worker' = "batch"
    /\ processed' = 0
    /\ UNCHANGED <<callerVars, queue, reply, hand, done>>

HealthCheck ==
    /\ worker = "check"
    /\ due
    /\ due' = FALSE
    /\ online' \in BOOLEAN
    /\ NextBatch

NoCheckDue ==
    /\ worker = "check"
    /\ ~due
    /\ UNCHANGED <<online, due>>
    /\ NextBatch

(* Three seconds pass. *)
Elapse ==
    /\ Receiving
    /\ ~due
    /\ due' = TRUE
    /\ UNCHANGED <<callerVars, queue, reply, worker, hand, processed, online, done>>

(* Mutants of Close: requests left in the channel are carried out with     *)
(* nobody to answer; they are kept, with the reply channels in them.       *)
CloseDrains ==
    /\ worker = "closing"
    /\ worker' = "releasing"
    /\ queue' = << >>
    /\ done' = [c \in Callers |-> IF Contains(queue, c) THEN done[c] + 1 ELSE done[c]]
    /\ UNCHANGED <<callerVars, reply, hand, processed, online, due>>

CloseKeepsQueue ==
    /\ worker = "closing"
    /\ worker' = "releasing"
    /\ UNCHANGED <<callerVars, queue, reply, hand, processed, online, due, done>>

(* run returns: its receiver goes first, with the requests left in the     *)
(* channel, and then the service with the device.                          *)
Close ==
    /\ worker = "closing"
    /\ worker' = "releasing"
    /\ queue' = << >>
    /\ UNCHANGED <<callerVars, reply, hand, processed, online, due, done>>

Release ==
    /\ worker = "releasing"
    /\ worker' = "ended"
    /\ UNCHANGED <<callerVars, queue, reply, hand, processed, online, due, done>>

-----------------------------------------------------------------------------
Init ==
    /\ call = [c \in Callers |-> "idle"]
    /\ kind = [c \in Callers |-> "request"]
    /\ result = [c \in Callers |-> "none"]
    /\ held = TRUE
    /\ queue = << >>
    /\ reply = {}
    /\ worker = "batch"
    /\ hand = Nobody
    /\ processed = 0
    /\ online = TRUE
    /\ due = FALSE
    /\ done = [c \in Callers |-> 0]

Worker == Take \/ Handle \/ EndBatch \/ Disconnected \/ Poll \/ HealthCheck \/ NoCheckDue
          \/ Close \/ Release

Blocked(c) == SendFails(c) \/ Receive(c) \/ HungUp(c) \/ Join(c)

Next ==
    \/ \E c \in Callers : Call(c) \/ Send(c) \/ SendFails(c) \/ Receive(c) \/ HungUp(c) \/ Join(c)
    \/ Drop
    \/ Take \/ Handle \/ EndBatch \/ Disconnected \/ Poll \/ HealthCheck \/ NoCheckDue
    \/ Elapse \/ Close \/ Release

(* The threads run and time passes.  A caller blocked on a full channel is *)
(* not promised the next free place: others may take it first.             *)
Fairness ==
    /\ WF_vars(Worker)
    /\ WF_vars(Elapse)
    /\ \A c \in Callers : WF_vars(Blocked(c))

Spec == Init /\ [][Next]_vars /\ Fairness

-----------------------------------------------------------------------------
(* Every variable holds a value of its kind, and the channel its limit.    *)
TypeOK ==
    /\ call \in [Callers -> {"idle", "sending", "waiting", "joining"}]
    /\ kind \in [Callers -> {"request", "stop"}]
    /\ result \in [Callers -> {"none", "ok", "stopped"}]
    /\ held \in BOOLEAN
    /\ queue \in Seq(Callers) /\ Len(queue) <= QueueLimit
    /\ reply \subseteq Callers
    /\ worker \in {"batch", "handling", "poll", "check", "closing", "releasing", "ended"}
    /\ hand \in Callers \cup {Nobody}
    /\ processed \in 0..BatchLimit
    /\ online \in BOOLEAN
    /\ due \in BOOLEAN
    /\ done \in [Callers -> Nat]

(* The answer tells what happened: a call that succeeds was carried out    *)
(* exactly once, and one that answers Stopped not at all, however sends,   *)
(* a stop and the end of the thread are interleaved.                       *)
AnswerTellsWhatHappened ==
    \A c \in Callers : /\ result[c] = "ok" => done[c] = 1
                       /\ result[c] = "stopped" => done[c] = 0

(* When stop() has returned successfully the thread is over and the device *)
(* is released: whoever stopped it may open the device again.              *)
StopReleasesDevice ==
    \A c \in Callers : (kind[c] = "stop" /\ result[c] = "ok") => worker = "ended"

(* A request that entered the channel is answered, or its caller learns    *)
(* that the worker has stopped: nobody waits for ever.                     *)
SentCallsReturn == \A c \in Callers : call[c] = "waiting" ~> call[c] = "idle"

(* Health checks go on while the worker lives, whatever the traffic: this  *)
(* is the fairness Service.tla assumes of its HealthCheck.                 *)
HealthChecksGoOn == []<><<HealthCheck>>_vars \/ <>(worker = "ended")

(* So does the wait for events.                                            *)
EventsAreAwaited == []<><<Poll>>_vars \/ <>(worker = "ended")
=============================================================================
