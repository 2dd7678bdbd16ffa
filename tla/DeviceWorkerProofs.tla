------------------------- MODULE DeviceWorkerProofs -------------------------
(***************************************************************************)
(* The device worker of DeviceWorker.tla, proved for any callers, any      *)
(* capacity of the channel and any length of a batch: what a call answers  *)
(* is what happened, and a stop that answers has released the device.      *)
(***************************************************************************)
EXTENDS DeviceWorker, TLAPS

(* The channel, as a set of its senders. *)
Queued(c) == \E i \in 1..Len(queue) : queue[i] = c

(* A caller that is queued once, once handled, is not queued any more.     *)
LEMMA TailDequeues ==
    ASSUME NEW q \in Seq(Callers), q # << >>,
           \A i, j \in 1..Len(q) : q[i] = q[j] => i = j
    PROVE  /\ Head(q) \in Callers /\ Tail(q) \in Seq(Callers)
           /\ Len(Tail(q)) = Len(q) - 1
           /\ \A i, j \in 1..Len(Tail(q)) : Tail(q)[i] = Tail(q)[j] => i = j
           /\ \A c \in Callers :
                (\E i \in 1..Len(Tail(q)) : Tail(q)[i] = c)
                  <=> (c # Head(q) /\ \E i \in 1..Len(q) : q[i] = c)
<1>1. /\ Len(q) \in Nat /\ Len(q) > 0
      /\ Head(q) = q[1] /\ Head(q) \in Callers
      /\ Tail(q) \in Seq(Callers) /\ Len(Tail(q)) = Len(q) - 1
      /\ \A i \in 1..Len(Tail(q)) : Tail(q)[i] = q[i + 1]
  OBVIOUS
<1>2. \A i, j \in 1..Len(Tail(q)) : Tail(q)[i] = Tail(q)[j] => i = j
  BY <1>1
<1>3. ASSUME NEW c \in Callers, NEW i \in 1..Len(Tail(q)), Tail(q)[i] = c
      PROVE  c # Head(q) /\ \E j \in 1..Len(q) : q[j] = c
  <2>1. i + 1 \in 1..Len(q) /\ i + 1 # 1 /\ q[i + 1] = c /\ 1 \in 1..Len(q)
    BY <1>1, <1>3
  <2> QED
    BY <1>1, <2>1
<1>4. ASSUME NEW c \in Callers, c # Head(q), NEW i \in 1..Len(q), q[i] = c
      PROVE  \E j \in 1..Len(Tail(q)) : Tail(q)[j] = c
  <2>1. i - 1 \in 1..Len(Tail(q)) /\ (i - 1) + 1 = i
    BY <1>1, <1>4
  <2> QED
    BY <1>1, <1>4, <2>1
<1> QED
  BY <1>1, <1>2, <1>3, <1>4

(* Sending puts a caller that was not queued behind the others.            *)
LEMMA AppendQueues ==
    ASSUME NEW q \in Seq(Callers), NEW c \in Callers,
           \A i, j \in 1..Len(q) : q[i] = q[j] => i = j,
           ~ \E i \in 1..Len(q) : q[i] = c
    PROVE  /\ Append(q, c) \in Seq(Callers)
           /\ Len(Append(q, c)) = Len(q) + 1
           /\ \A i, j \in 1..Len(Append(q, c)) : Append(q, c)[i] = Append(q, c)[j] => i = j
           /\ \A d \in Callers :
                (\E i \in 1..Len(Append(q, c)) : Append(q, c)[i] = d)
                  <=> (d = c \/ \E i \in 1..Len(q) : q[i] = d)
<1>1. /\ Len(q) \in Nat
      /\ Append(q, c) \in Seq(Callers) /\ Len(Append(q, c)) = Len(q) + 1
      /\ \A i \in 1..Len(q) : Append(q, c)[i] = q[i]
      /\ Append(q, c)[Len(q) + 1] = c
  OBVIOUS
<1>2. \A i \in 1..Len(Append(q, c)) : i \in 1..Len(q) \/ i = Len(q) + 1
  BY <1>1
<1>3. \A i \in 1..Len(q) : i \in 1..Len(Append(q, c))
  BY <1>1
<1>4. Len(q) + 1 \in 1..Len(Append(q, c))
  BY <1>1
<1> QED
  BY <1>1, <1>2, <1>3, <1>4

-----------------------------------------------------------------------------
(* The inductive invariant.  A call in progress is at exactly one place:   *)
(* at its sender, in the channel, in the worker's hand, in the reply       *)
(* channel, or lost with the channel; `done` and `result` follow from it.  *)
QueuedOnce == \A i, j \in 1..Len(queue) : queue[i] = queue[j] => i = j

Handed == (hand # Nobody) <=> (worker = "handling")

Place(c) ==
    /\ Queued(c) => call[c] = "waiting" /\ c \notin reply /\ hand # c
    /\ hand = c => call[c] = "waiting" /\ c \notin reply
    /\ c \in reply => call[c] = "waiting"

Tally(c) ==
    /\ call[c] # "idle" => result[c] = "none"
    /\ call[c] = "sending" => done[c] = 0
    /\ call[c] = "waiting" => done[c] = (IF c \in reply THEN 1 ELSE 0)
    /\ call[c] = "joining" => done[c] = 1 /\ kind[c] = "stop"
    /\ result[c] = "ok" => done[c] = 1
    /\ result[c] = "stopped" => done[c] = 0

(* run has handled a stop, or found every sender gone. *)
Ending == worker \in {"closing", "releasing", "ended"}

Stopped(c) ==
    kind[c] = "stop" =>
      /\ c \in reply \/ call[c] = "joining" => Ending
      /\ result[c] = "ok" => worker = "ended"

WorkerInv ==
    /\ TypeOK
    /\ QueuedOnce
    /\ Handed
    /\ \A c \in Callers : Place(c) /\ Tally(c) /\ Stopped(c)

(* The invariant holds when the worker has started.                        *)
LEMMA InitWorker ==
    ASSUME Init
    PROVE  WorkerInv
<1>1. TypeOK
  <2>1. queue \in Seq(Callers) /\ Len(queue) <= QueueLimit /\ processed \in 0..BatchLimit
    BY WorkerAssumption DEF Init
  <2>2. /\ call \in [Callers -> {"idle", "sending", "waiting", "joining"}]
        /\ kind \in [Callers -> {"request", "stop"}]
        /\ result \in [Callers -> {"none", "ok", "stopped"}]
        /\ done \in [Callers -> Nat]
    BY DEF Init
  <2> QED
    BY <2>1, <2>2 DEF Init, TypeOK
<1>2. QueuedOnce /\ Handed /\ Len(queue) = 0
  BY DEF Init, QueuedOnce, Handed
<1>3. ASSUME NEW c \in Callers PROVE Place(c) /\ Tally(c) /\ Stopped(c)
  <2>1. /\ call[c] = "idle" /\ kind[c] = "request" /\ result[c] = "none" /\ done[c] = 0
        /\ hand # c /\ c \notin reply
    BY WorkerAssumption DEF Init
  <2>2. ~Queued(c)
    BY <1>2 DEF Queued
  <2> QED
    BY <2>1, <2>2 DEF Place, Tally, Stopped
<1> QED
  BY <1>1, <1>2, <1>3 DEF WorkerInv

(* A step of one caller that leaves the worker and the channel alone keeps *)
(* the invariant if it keeps that caller's part of it.                     *)
LEMMA CallerStep ==
    ASSUME WorkerInv, NEW c \in Callers,
           UNCHANGED <<queue, workerVars>>,
           TypeOK', reply' \in {reply, reply \ {c}},
           \A d \in Callers \ {c} :
             /\ call'[d] = call[d] /\ kind'[d] = kind[d]
             /\ result'[d] = result[d] /\ done'[d] = done[d],
           Place(c)', Tally(c)', Stopped(c)'
    PROVE  WorkerInv'
<1>1. /\ queue' = queue /\ worker' = worker /\ hand' = hand
  BY DEF workerVars
<1>2. QueuedOnce' /\ Handed'
  BY <1>1 DEF WorkerInv, QueuedOnce, Handed
<1>3. ASSUME NEW d \in Callers PROVE Place(d)' /\ Tally(d)' /\ Stopped(d)'
  <2>1. CASE d = c
    BY <2>1
  <2>2. CASE d # c
    <3>1. /\ call'[d] = call[d] /\ kind'[d] = kind[d]
          /\ result'[d] = result[d] /\ done'[d] = done[d]
          /\ d \in reply' <=> d \in reply
      BY <2>2
    <3>2. Place(d) /\ Tally(d) /\ Stopped(d)
      BY DEF WorkerInv
    <3> QED
      BY <1>1, <3>1, <3>2 DEF Place, Tally, Stopped, Queued, Ending
  <2> QED
    BY <2>1, <2>2
<1> QED
  BY <1>2, <1>3 DEF WorkerInv

(* A step of the worker that moves no call keeps the invariant.            *)
LEMMA LoopStep ==
    ASSUME WorkerInv, UNCHANGED <<callerVars, queue, reply, hand, done>>,
           TypeOK', hand = Nobody, worker' # "handling",
           Ending => Ending', worker = "ended" => worker' = "ended"
    PROVE  WorkerInv'
<1>1. UNCHANGED <<call, kind, result, held, queue, reply, hand, done>>
  BY DEF callerVars
<1>2. QueuedOnce' /\ Handed'
  BY <1>1 DEF WorkerInv, QueuedOnce, Handed
<1>3. ASSUME NEW d \in Callers PROVE Place(d)' /\ Tally(d)' /\ Stopped(d)'
  <2>1. Place(d) /\ Tally(d) /\ Stopped(d)
    BY DEF WorkerInv
  <2> QED
    BY <1>1, <2>1 DEF Place, Tally, Stopped, Queued
<1> QED
  BY <1>2, <1>3 DEF WorkerInv

-----------------------------------------------------------------------------
(* The callers' steps. *)

(* A call that begins forgets what the one before it answered.             *)
LEMMA CallKeeps ==
    ASSUME WorkerInv, NEW c \in Callers, Call(c)
    PROVE  WorkerInv'
<1>1. /\ call[c] = "idle" /\ held
      /\ call' = [call EXCEPT ![c] = "sending"]
      /\ result' = [result EXCEPT ![c] = "none"]
      /\ done' = [done EXCEPT ![c] = 0]
      /\ UNCHANGED <<held, queue, reply, worker, hand, processed, online, due>>
  BY DEF Call, workerVars
<1>2. PICK k \in {"request", "stop"} : kind' = [kind EXCEPT ![c] = k]
  BY DEF Call
<1>3. TypeOK'
  BY <1>1, <1>2 DEF WorkerInv, TypeOK
<1>4. /\ call'[c] = "sending" /\ result'[c] = "none" /\ done'[c] = 0
      /\ \A d \in Callers \ {c} :
           /\ call'[d] = call[d] /\ kind'[d] = kind[d]
           /\ result'[d] = result[d] /\ done'[d] = done[d]
  BY <1>1, <1>2 DEF WorkerInv, TypeOK
<1>5. ~Queued(c) /\ hand # c /\ c \notin reply
  BY <1>1 DEF WorkerInv, Place
<1>6. Place(c)' /\ Tally(c)' /\ Stopped(c)'
  BY <1>1, <1>4, <1>5 DEF Place, Tally, Stopped, Queued
<1> QED
  BY <1>1, <1>3, <1>4, <1>6, CallerStep DEF workerVars

(* A call that returns tells whether it was carried out.                   *)
LEMMA ReturnKeeps ==
    ASSUME WorkerInv, NEW c \in Callers, NEW answer \in {"ok", "stopped"},
           Return(c, answer), UNCHANGED <<kind, held, queue, workerVars, done>>,
           reply' \in {reply, reply \ {c}}, c \notin reply',
           ~Queued(c), hand # c,
           done[c] = (IF answer = "ok" THEN 1 ELSE 0),
           kind[c] = "stop" /\ answer = "ok" => worker = "ended"
    PROVE  WorkerInv'
<1>1. /\ call' = [call EXCEPT ![c] = "idle"]
      /\ result' = [result EXCEPT ![c] = answer]
      /\ UNCHANGED <<kind, held, queue, worker, hand, processed, online, due, done>>
  BY DEF Return, workerVars
<1>2. TypeOK'
  BY <1>1 DEF WorkerInv, TypeOK
<1>3. /\ call'[c] = "idle" /\ result'[c] = answer
      /\ \A d \in Callers \ {c} : call'[d] = call[d] /\ result'[d] = result[d]
  BY <1>1 DEF WorkerInv, TypeOK
<1>4. Place(c)' /\ Tally(c)' /\ Stopped(c)'
  BY <1>1, <1>3 DEF Place, Tally, Stopped, Queued
<1> QED
  BY <1>1, <1>2, <1>3, <1>4, CallerStep DEF workerVars

(* A stop that was answered goes on to wait for the thread.                *)
LEMMA ReceiveKeeps ==
    ASSUME WorkerInv, NEW c \in Callers, Receive(c)
    PROVE  WorkerInv'
<1>1. /\ call[c] = "waiting" /\ c \in reply /\ reply' = reply \ {c}
      /\ AfterReply(c)
      /\ UNCHANGED <<kind, held, queue, workerVars, done>>
  BY DEF Receive
<1>2. done[c] = 1 /\ ~Queued(c) /\ hand # c /\ result[c] = "none"
  BY <1>1 DEF WorkerInv, Place, Tally
<1>3. CASE kind[c] = "stop"
  <2>1. /\ call' = [call EXCEPT ![c] = "joining"]
        /\ UNCHANGED <<kind, result, held, queue, worker, hand, processed, online, due, done>>
    BY <1>1, <1>3 DEF AfterReply, workerVars
  <2>2. TypeOK'
    BY <1>1, <2>1 DEF WorkerInv, TypeOK
  <2>3. /\ call'[c] = "joining" /\ c \notin reply'
        /\ \A d \in Callers \ {c} : call'[d] = call[d]
    BY <1>1, <2>1 DEF WorkerInv, TypeOK
  <2>4. Ending
    BY <1>1, <1>3 DEF WorkerInv, Stopped
  <2>5. Place(c)' /\ Tally(c)' /\ Stopped(c)'
    BY <1>2, <1>3, <2>1, <2>3, <2>4 DEF Place, Tally, Stopped, Queued, Ending
  <2> QED
    BY <1>1, <2>1, <2>2, <2>3, <2>5, CallerStep DEF workerVars
<1>4. CASE kind[c] # "stop"
  <2>1. Return(c, "ok")
    BY <1>1, <1>4 DEF AfterReply
  <2> QED
    BY <1>1, <1>2, <1>4, <2>1, ReturnKeeps
<1> QED
  BY <1>3, <1>4

(* A call that finds no receiver, or whose request was lost with the       *)
(* channel, was not carried out.                                           *)
LEMMA StoppedKeeps ==
    ASSUME WorkerInv, NEW c \in Callers, SendFails(c) \/ HungUp(c)
    PROVE  WorkerInv'
<1>1. /\ call[c] \in {"sending", "waiting"} /\ Return(c, "stopped")
      /\ UNCHANGED <<kind, held, queue, reply, workerVars, done>>
  BY DEF SendFails, HungUp
<1>2. ~Queued(c) /\ hand # c /\ c \notin reply
  <2>1. CASE SendFails(c)
    BY <2>1 DEF SendFails, WorkerInv, Place
  <2>2. CASE HungUp(c)
    BY <2>2 DEF HungUp, Contains, Queued
  <2> QED
    BY <2>1, <2>2
<1>3. done[c] = 0
  BY <1>1, <1>2 DEF WorkerInv, Tally
<1> QED
  BY <1>1, <1>2, <1>3, ReturnKeeps

(* A stop that has joined the thread answers when it has ended.            *)
LEMMA JoinKeeps ==
    ASSUME WorkerInv, NEW c \in Callers, Join(c)
    PROVE  WorkerInv'
<1>1. /\ call[c] = "joining" /\ worker = "ended" /\ Return(c, "ok")
      /\ UNCHANGED <<kind, held, queue, reply, workerVars, done>>
  BY DEF Join
<1>2. done[c] = 1 /\ ~Queued(c) /\ hand # c /\ c \notin reply
  BY <1>1 DEF WorkerInv, Tally, Place
<1> QED
  BY <1>1, <1>2, ReturnKeeps

(* A request enters the channel once.                                      *)
LEMMA SendKeeps ==
    ASSUME WorkerInv, NEW c \in Callers, Send(c)
    PROVE  WorkerInv'
<1>1. /\ call[c] = "sending" /\ Receiving /\ Len(queue) < QueueLimit
      /\ queue' = Append(queue, c)
      /\ call' = [call EXCEPT ![c] = "waiting"]
      /\ UNCHANGED <<kind, result, held, reply, worker, hand, processed, online, due, done>>
  BY DEF Send, HasRoom, workerVars
<1>2. queue \in Seq(Callers) /\ QueuedOnce /\ ~Queued(c) /\ hand # c /\ c \notin reply
  BY <1>1 DEF WorkerInv, TypeOK, Place
<1>3. /\ queue' \in Seq(Callers) /\ Len(queue') = Len(queue) + 1
      /\ QueuedOnce'
      /\ \A d \in Callers : Queued(d)' <=> (d = c \/ Queued(d))
  BY <1>1, <1>2, AppendQueues DEF QueuedOnce, Queued
<1>4. Len(queue') <= QueueLimit
  BY <1>1, <1>2, <1>3, WorkerAssumption
<1>5. TypeOK'
  BY <1>1, <1>3, <1>4 DEF WorkerInv, TypeOK
<1>6. Handed'
  BY <1>1 DEF WorkerInv, Handed
<1>7. ASSUME NEW d \in Callers PROVE Place(d)' /\ Tally(d)' /\ Stopped(d)'
  <2>1. /\ Place(d) /\ Tally(d) /\ Stopped(d)
        /\ call'[d] = IF d = c THEN "waiting" ELSE call[d]
    BY <1>1 DEF WorkerInv, TypeOK
  <2>2. Queued(d)' <=> (d = c \/ Queued(d))
    BY <1>3
  <2>3. Place(d)'
    BY <1>1, <1>2, <2>1, <2>2 DEF Place
  <2>4. Tally(d)'
    BY <1>1, <1>2, <2>1 DEF Tally
  <2>5. Stopped(d)'
    BY <1>1, <1>2, <2>1 DEF Stopped, Ending
  <2> QED
    BY <2>3, <2>4, <2>5
<1> QED
  BY <1>3, <1>5, <1>6, <1>7 DEF WorkerInv

-----------------------------------------------------------------------------
(* The worker's steps. *)

(* A request taken from the channel is in the worker's hand.               *)
LEMMA TakeKeeps ==
    ASSUME WorkerInv, Take
    PROVE  WorkerInv'
<1>1. /\ worker = "batch" /\ processed < BatchLimit /\ queue # << >>
      /\ hand' = Head(queue) /\ queue' = Tail(queue)
      /\ processed' = processed + 1 /\ worker' = "handling"
      /\ UNCHANGED <<call, kind, result, held, reply, online, due, done>>
  BY DEF Take, callerVars
<1>2. queue \in Seq(Callers) /\ QueuedOnce /\ hand = Nobody
  BY <1>1 DEF WorkerInv, TypeOK, Handed
<1>3. /\ hand' \in Callers /\ queue' \in Seq(Callers) /\ Len(queue') = Len(queue) - 1
      /\ QueuedOnce'
      /\ \A d \in Callers : Queued(d)' <=> (d # hand' /\ Queued(d))
  BY <1>1, <1>2, TailDequeues DEF QueuedOnce, Queued
<1>4. Queued(hand')
  <2>1. 1 \in 1..Len(queue) /\ queue[1] = Head(queue)
    BY <1>1, <1>2
  <2> QED
    BY <1>1, <2>1 DEF Queued
<1>5. TypeOK'
  <2>1. Len(queue') <= QueueLimit
    BY <1>2, <1>3, WorkerAssumption DEF WorkerInv, TypeOK
  <2>2. processed' \in 0..BatchLimit
    BY <1>1, WorkerAssumption DEF WorkerInv, TypeOK
  <2> QED
    BY <1>1, <1>3, <2>1, <2>2 DEF WorkerInv, TypeOK
<1>6. Handed'
  BY <1>1, <1>3, WorkerAssumption DEF Handed
<1>7. ASSUME NEW d \in Callers PROVE Place(d)' /\ Tally(d)' /\ Stopped(d)'
  <2>1. Place(d) /\ Tally(d) /\ Stopped(d) /\ Place(hand')
    BY <1>3 DEF WorkerInv
  <2>2. Queued(d)' <=> (d # hand' /\ Queued(d))
    BY <1>3
  <2>3. hand' = d => Queued(d)
    BY <1>4
  <2>4. Place(d)'
    BY <1>1, <2>1, <2>2, <2>3 DEF Place
  <2>5. Tally(d)' /\ Stopped(d)'
    BY <1>1, <2>1 DEF Tally, Stopped, Ending
  <2> QED
    BY <2>4, <2>5
<1> QED
  BY <1>3, <1>5, <1>6, <1>7 DEF WorkerInv

(* A request is carried out when it is answered, and a stop ends the loop. *)
LEMMA HandleKeeps ==
    ASSUME WorkerInv, Handle
    PROVE  WorkerInv'
<1>1. /\ worker = "handling"
      /\ done' = [done EXCEPT ![hand] = @ + 1]
      /\ reply' = reply \cup {hand} /\ hand' = Nobody
      /\ UNCHANGED <<call, kind, result, held, queue, processed, due>>
      /\ \/ kind[hand] = "stop" /\ worker' = "closing" /\ online' = online
         \/ kind[hand] # "stop" /\ worker' = "batch" /\ online' \in BOOLEAN
  BY DEF Handle, callerVars
<1>2. hand \in Callers /\ Place(hand) /\ Tally(hand)
  BY <1>1 DEF WorkerInv, TypeOK, Handed
<1>3. call[hand] = "waiting" /\ hand \notin reply /\ done[hand] = 0 /\ ~Queued(hand)
  BY <1>2 DEF Place, Tally
<1>4. /\ \A d \in Callers : done'[d] = IF d = hand THEN 1 ELSE done[d]
      /\ done' \in [Callers -> Nat]
  BY <1>1, <1>2, <1>3 DEF WorkerInv, TypeOK
<1>5. online' \in BOOLEAN
  BY <1>1 DEF WorkerInv, TypeOK
<1>6. TypeOK'
  BY <1>1, <1>2, <1>4, <1>5 DEF WorkerInv, TypeOK
<1>7. QueuedOnce' /\ Handed'
  BY <1>1 DEF WorkerInv, QueuedOnce, Handed
<1>8. ASSUME NEW d \in Callers PROVE Place(d)' /\ Tally(d)' /\ Stopped(d)'
  <2>1. Place(d) /\ Tally(d) /\ Stopped(d) /\ hand' # d
    BY <1>1, WorkerAssumption DEF WorkerInv
  <2>2. (Queued(d)' <=> Queued(d)) /\ (d \in reply' <=> d = hand \/ d \in reply)
    BY <1>1 DEF Queued
  <2>3. Place(d)'
    BY <1>1, <1>3, <2>1, <2>2 DEF Place
  <2>4. Tally(d)'
    BY <1>1, <1>3, <1>4, <2>1, <2>2 DEF Tally
  <2>5. Stopped(d)'
    BY <1>1, <1>3, <2>1, <2>2 DEF Stopped, Ending
  <2> QED
    BY <2>3, <2>4, <2>5
<1> QED
  BY <1>6, <1>7, <1>8 DEF WorkerInv

(* What is left in the channel is lost with it.                            *)
LEMMA CloseKeeps ==
    ASSUME WorkerInv, Close
    PROVE  WorkerInv'
<1>1. /\ worker = "closing" /\ worker' = "releasing" /\ queue' = << >>
      /\ UNCHANGED <<call, kind, result, held, reply, hand, processed, online, due, done>>
  BY DEF Close, callerVars
<1>2. TypeOK'
  BY <1>1, WorkerAssumption DEF WorkerInv, TypeOK
<1>3. Len(queue') = 0
  BY <1>1
<1>4. QueuedOnce' /\ Handed'
  BY <1>1, <1>3 DEF WorkerInv, QueuedOnce, Handed
<1>5. ASSUME NEW d \in Callers PROVE Place(d)' /\ Tally(d)' /\ Stopped(d)'
  <2>1. Place(d) /\ Tally(d) /\ Stopped(d)
    BY DEF WorkerInv
  <2>2. ~Queued(d)'
    BY <1>3 DEF Queued
  <2> QED
    BY <1>1, <2>1, <2>2 DEF Place, Tally, Stopped, Ending
<1> QED
  BY <1>2, <1>4, <1>5 DEF WorkerInv

(* Between requests the loop moves no call.                                *)
LEMMA LoopKeeps ==
    ASSUME WorkerInv,
           EndBatch \/ Disconnected \/ Poll \/ HealthCheck \/ NoCheckDue \/ Release
    PROVE  WorkerInv'
<1>1. /\ UNCHANGED <<callerVars, queue, reply, hand, done>>
      /\ worker \in {"batch", "poll", "check", "releasing"}
      /\ worker' \in {"poll", "closing", "check", "batch", "ended"}
      /\ worker = "releasing" => worker' = "ended"
  BY DEF EndBatch, Disconnected, Poll, HealthCheck, NoCheckDue, NextBatch, Release
<1>2. processed' \in 0..BatchLimit
  BY WorkerAssumption DEF WorkerInv, TypeOK, EndBatch, Disconnected, Poll, HealthCheck,
     NoCheckDue, NextBatch, Release
<1>3. online' \in BOOLEAN
  BY Zenon DEF WorkerInv, TypeOK, EndBatch, Disconnected, Poll, HealthCheck,
     NoCheckDue, NextBatch, Release
<1>4. due' \in BOOLEAN
  BY Zenon DEF WorkerInv, TypeOK, EndBatch, Disconnected, Poll, HealthCheck,
     NoCheckDue, NextBatch, Release
<1>5. TypeOK'
  BY <1>1, <1>2, <1>3, <1>4 DEF WorkerInv, TypeOK, callerVars
<1>6. hand = Nobody
  BY <1>1 DEF WorkerInv, Handed
<1>7. (Ending => Ending') /\ (worker = "ended" => worker' = "ended")
  BY <1>1 DEF Ending
<1> QED
  BY <1>1, <1>5, <1>6, <1>7, LoopStep

(* The clock and the owner that lets go move no call either.               *)
LEMMA OthersKeep ==
    ASSUME WorkerInv, Elapse \/ Drop \/ UNCHANGED vars
    PROVE  WorkerInv'
<1>1. /\ UNCHANGED <<call, kind, result, queue, reply, worker, hand, processed, online, done>>
      /\ held' \in BOOLEAN /\ due' \in BOOLEAN
  <2>1. CASE Elapse
    BY <2>1 DEF Elapse, callerVars, WorkerInv, TypeOK
  <2>2. CASE Drop
    BY <2>2 DEF Drop, workerVars, WorkerInv, TypeOK
  <2>3. CASE UNCHANGED vars
    BY <2>3 DEF vars, callerVars, workerVars, WorkerInv, TypeOK
  <2> QED
    BY <2>1, <2>2, <2>3
<1>2. TypeOK'
  BY <1>1 DEF WorkerInv, TypeOK
<1>3. QueuedOnce' /\ Handed'
  BY <1>1 DEF WorkerInv, QueuedOnce, Handed
<1>4. ASSUME NEW d \in Callers PROVE Place(d)' /\ Tally(d)' /\ Stopped(d)'
  <2>1. Place(d) /\ Tally(d) /\ Stopped(d)
    BY DEF WorkerInv
  <2> QED
    BY <1>1, <2>1 DEF Place, Tally, Stopped, Queued, Ending
<1> QED
  BY <1>2, <1>3, <1>4 DEF WorkerInv

-----------------------------------------------------------------------------
(* Every step of callers and worker keeps the invariant.                   *)
LEMMA NextWorker ==
    ASSUME WorkerInv, [Next]_vars
    PROVE  WorkerInv'
<1>1. CASE \E c \in Callers : Call(c) \/ Send(c) \/ SendFails(c) \/ Receive(c) \/ HungUp(c)
                               \/ Join(c)
  <2>1. PICK c \in Callers : Call(c) \/ Send(c) \/ SendFails(c) \/ Receive(c) \/ HungUp(c)
                             \/ Join(c)
    BY <1>1
  <2> QED
    BY <2>1, CallKeeps, SendKeeps, StoppedKeeps, ReceiveKeeps, JoinKeeps
<1>2. CASE Take
  BY <1>2, TakeKeeps
<1>3. CASE Handle
  BY <1>3, HandleKeeps
<1>4. CASE Close
  BY <1>4, CloseKeeps
<1>5. CASE EndBatch \/ Disconnected \/ Poll \/ HealthCheck \/ NoCheckDue \/ Release
  BY <1>5, LoopKeeps
<1>6. CASE Elapse \/ Drop \/ UNCHANGED vars
  BY <1>6, OthersKeep
<1> QED
  BY <1>1, <1>2, <1>3, <1>4, <1>5, <1>6 DEF Next

(* Every call in progress is at exactly one place, in every state.         *)
THEOREM CallsAreTracked == Spec => []WorkerInv
  BY InitWorker, NextWorker, PTL DEF Spec

(* The worker's variables are well typed and its channel within its limit. *)
THEOREM WorkerTyped == Spec => []TypeOK
  BY CallsAreTracked, PTL DEF WorkerInv

(* A call that succeeds was carried out exactly once, and one that answers *)
(* Stopped not at all.                                                     *)
THEOREM AnswersTellWhatHappened == Spec => []AnswerTellsWhatHappened
<1>1. WorkerInv => AnswerTellsWhatHappened
  BY DEF WorkerInv, Tally, AnswerTellsWhatHappened
<1> QED
  BY <1>1, CallsAreTracked, PTL

(* When a stop has answered, the thread is over and the device released.   *)
THEOREM StopsReleaseDevice == Spec => []StopReleasesDevice
<1>1. WorkerInv => StopReleasesDevice
  BY DEF WorkerInv, Stopped, StopReleasesDevice
<1> QED
  BY <1>1, CallsAreTracked, PTL
=============================================================================
