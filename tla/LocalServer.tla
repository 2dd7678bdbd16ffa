---------------------------- MODULE LocalServer ----------------------------
(***************************************************************************)
(* The local IPC server (ipc.rs): one thread that accepts clients, polls   *)
(* the worker's state and broadcasts it when its revision has changed,     *)
(* answers a few requests of each client in turn, and writes what each     *)
(* client's bounded queue holds as far as its socket takes it.  The device *)
(* worker changes its revision at any time.  How lines are cut and parsed  *)
(* is left out; that a line may be refused is not.                         *)
(***************************************************************************)
EXTENDS Naturals, Sequences, SequencesExt

CONSTANTS
    Nobody,       \* no client
    Clients,      \* connections, each made at most once
    Readers,      \* those whose peer keeps reading
    QueueLimit,   \* bytes a client's queue may hold (MAX_OUTBOUND_BYTES)
    BatchLimit,   \* requests of one client served in a turn (REQUEST_BATCH_LIMIT)
    MaxRevision,  \* bound: revisions of the worker
    StateSize,    \* bytes of a message with the state of each revision
    PlainSize,    \* bytes of a message without state
    MaxRequests   \* bound: requests of each client

(* Every message fits into an empty queue: a state too large to be a       *)
(* message shuts every client out, and is not modelled.                    *)
ASSUME ServerAssumption ==
    /\ Nobody \notin Clients
    /\ Readers \subseteq Clients
    /\ QueueLimit \in Nat
    /\ BatchLimit \in Nat \ {0}
    /\ MaxRevision \in Nat \ {0}
    /\ StateSize \in [1..MaxRevision -> 1..QueueLimit]
    /\ PlainSize \in 1..QueueLimit
    /\ MaxRequests \in [Clients -> Nat]

(* A message carries the state of a revision, or none (0); a reply says    *)
(* which request of its client it answers (the first snapshot answers 0);  *)
(* `begun` is the revision of the message whose first bytes were written.  *)
NotBegun == MaxRevision + 1

Numbers == UNION { 0..MaxRequests[c] : c \in Clients }

Message == [event : BOOLEAN, revision : 0..MaxRevision, no : Numbers, begun : 0..NotBegun]

Event(r) == [event |-> TRUE, revision |-> r, no |-> 0, begun |-> NotBegun]
Reply(r, no) == [event |-> FALSE, revision |-> r, no |-> no, begun |-> NotBegun]

Size(message) == IF message.revision = 0 THEN PlainSize ELSE StateSize[message.revision]

Total(queue) ==
    LET sum[i \in 0..Len(queue)] == IF i = 0 THEN 0 ELSE sum[i - 1] + Size(queue[i])
    IN  sum[Len(queue)]

VARIABLES
    revision,     \* of the worker's state
    (* The server thread. *)
    stage,        \* "accept", "poll" or "serve"
    polled,       \* last_revision, 0 for none
    todo,         \* clients still to be served in this turn
    serving,      \* the client being served
    part,         \* "first" or "second" process_requests, or "flush"
    stopped,      \* this process_requests has returned
    budget,       \* remaining: requests it may still make in this turn
    lost,         \* "input", "output" or neither: nothing more can be read or written
    (* Clients, as the server keeps them. *)
    backlog,      \* connected, not accepted
    open,         \* the list of clients
    lines,        \* whether a whole request waits in each one's input
    outbound,     \* the queue of each
    bytes,        \* outbound_bytes of each
    closing,
    rejection,    \* the refused request whose error is to be sent last, or 0
    (* History. *)
    met,          \* clients that have connected
    first,        \* the revision polled first
    asked,        \* requests of each client taken up
    refused,      \* the last of them that was refused
    answered,     \* the last reply each client has received
    best          \* the highest revision each client has received

loopVars == <<stage, polled, todo, serving, first>>
turnVars == <<part, stopped, budget, lost>>
listVars == <<backlog, open, met>>
queueVars == <<outbound, bytes, closing, rejection>>
receivedVars == <<refused, answered, best>>
vars == <<revision, loopVars, turnVars, listVars, lines, queueVars, asked, receivedVars>>

-----------------------------------------------------------------------------
(* Client::queue. *)

(* Mutant of Coalesces: an event gives way of which the client has         *)
(* received a part.                                                        *)
CoalescesBegun(old) == old.event

Coalesces(old) == old.event /\ old.begun = NotBegun

(* Mutant of Replaced: the older event stays. *)
ReplacedByNone(old, message) == old

Replaced(old, message) == [message EXCEPT !.begun = old.begun]

(* Mutant of BytesAfter: what the older event took is not given back. *)
BytesAfterBoth(old, message, c) == bytes[c] + Size(message)

BytesAfter(old, message, c) == (bytes[c] - Size(old)) + Size(message)

Waiting(c) == { i \in DOMAIN outbound[c] : Coalesces(outbound[c][i]) }

(* The queue of c, the bytes in it, and whether the message was taken. *)
Queued(c, message) ==
    IF message.event /\ Waiting(c) # {}
    THEN LET i     == CHOOSE i \in Waiting(c) : \A j \in Waiting(c) : i <= j
             old   == outbound[c][i]
             total == BytesAfter(old, message, c)
         IN  [queue |-> [outbound[c] EXCEPT ![i] = Replaced(old, message)],
              bytes |-> total, ok |-> total <= QueueLimit]
    ELSE LET total == bytes[c] + Size(message)
         IN  IF total > QueueLimit
             THEN [queue |-> outbound[c], bytes |-> bytes[c], ok |-> FALSE]
             ELSE [queue |-> Append(outbound[c], message), bytes |-> total, ok |-> TRUE]

(* Queue for one client, which is to be closed if its queue overflows. *)
Queue(c, message) ==
    LET after == Queued(c, message)
    IN  /\ outbound' = [outbound EXCEPT ![c] = after.queue]
        /\ bytes' = [bytes EXCEPT ![c] = after.bytes]
        /\ closing' = [closing EXCEPT ![c] = @ \/ ~after.ok]

-----------------------------------------------------------------------------
(* accept_clients: every connection gets the state first. *)

Connect ==
    \E c \in Clients \ met :
      /\ met' = met \cup {c}
      /\ backlog' = backlog \cup {c}
      /\ UNCHANGED <<revision, loopVars, turnVars, open, lines, queueVars, asked, receivedVars>>

Accept ==
    \E c \in backlog :
      /\ stage = "accept"
      /\ backlog' = backlog \ {c}
      /\ open' = open \cup {c}
      /\ Queue(c, Reply(revision, 0))
      /\ UNCHANGED <<revision, loopVars, turnVars, met, lines, rejection, asked, receivedVars>>

(* Nobody waits, or accepting fails: whoever waits is left for later.      *)
NoMoreToAccept ==
    /\ stage = "accept"
    /\ stage' = "poll"
    /\ UNCHANGED <<revision, polled, todo, serving, first, turnVars, listVars, lines, queueVars,
                   asked, receivedVars>>

Broadcast == Event(revision)

(* The state is broadcast when its revision is not the one polled last.    *)
Poll ==
    /\ stage = "poll"
    /\ polled' = revision
    /\ IF polled \notin {0, revision}
       THEN LET told     == { c \in open : ~closing[c] }
                after(c) == Queued(c, Broadcast)
            IN  /\ outbound' = [c \in Clients |->
                                  IF c \in told THEN after(c).queue ELSE outbound[c]]
                /\ bytes' = [c \in Clients |->
                               IF c \in told THEN after(c).bytes ELSE bytes[c]]
                /\ closing' = [c \in Clients |->
                                 closing[c] \/ (c \in told /\ ~after(c).ok)]
       ELSE UNCHANGED <<outbound, bytes, closing>>
    /\ todo' = open
    /\ stage' = "serve"
    /\ first' = IF first = 0 THEN revision ELSE first
    /\ UNCHANGED <<revision, serving, turnVars, listVars, lines, rejection, asked, receivedVars>>

-----------------------------------------------------------------------------
(* read_client: what an earlier turn has left in the input, then, unless   *)
(* more of that is left, one read and what it brought; a client that is    *)
(* closing is only written to.  Each process_requests returns when a line  *)
(* is refused or a reply overflows the queue.                              *)

Turn ==
    \E c \in todo :
      /\ stage = "serve" /\ serving = Nobody
      /\ serving' = c
      /\ todo' = todo \ {c}
      /\ part' = IF closing[c] THEN "flush" ELSE "first"
      /\ budget' = BatchLimit
      /\ UNCHANGED <<revision, stage, polled, first, stopped, lost, listVars, lines, queueVars,
                     asked, receivedVars>>

(* A request is taken from the input; another may follow.                  *)
Asks ==
    /\ part # "flush" /\ ~stopped
    /\ lines[serving]
    /\ budget > 0
    /\ asked' = [asked EXCEPT ![serving] = @ + 1]
    /\ \E more \in BOOLEAN :
         /\ more => asked'[serving] < MaxRequests[serving]
         /\ lines' = [lines EXCEPT ![serving] = more]
    /\ UNCHANGED <<loopVars, part, lost, listVars, answered, best>>

Answer(message) ==
    /\ Queue(serving, message)
    /\ stopped' = closing'[serving]
    /\ budget' = budget - 1
    /\ UNCHANGED <<rejection, refused>>

(* A request whose reply carries state: a snapshot, or a command, which    *)
(* may have changed it.                                                    *)
AnswerWithState ==
    /\ Asks
    /\ revision' \in {revision, revision + 1} \cap 1..MaxRevision
    /\ Answer(Reply(revision', asked'[serving]))

(* A request whose reply carries none: a list, a review, or an error.      *)
AnswerPlainly ==
    /\ Asks
    /\ Answer(Reply(0, asked'[serving]))
    /\ UNCHANGED revision

(* A line that is too long, malformed or of another version.               *)
Reject ==
    /\ Asks
    /\ closing' = [closing EXCEPT ![serving] = TRUE]
    /\ rejection' = [rejection EXCEPT ![serving] = asked'[serving]]
    /\ refused' = [refused EXCEPT ![serving] = asked'[serving]]
    /\ stopped' = TRUE
    /\ UNCHANGED <<revision, budget, outbound, bytes>>

MayRead ==
    /\ part = "first"
    /\ ~lines[serving]

(* The read brings a request, or not yet a whole one.                      *)
Read ==
    /\ MayRead
    /\ part' = "second"
    /\ stopped' = FALSE
    /\ \E more \in BOOLEAN :
         /\ more => asked[serving] < MaxRequests[serving]
         /\ lines' = [lines EXCEPT ![serving] = more]
    /\ UNCHANGED <<revision, loopVars, budget, lost, listVars, queueVars, asked, receivedVars>>

(* The client's end is closed, or reading from it fails. *)
HangUp ==
    /\ MayRead
    /\ part' = "flush"
    /\ lost' = "input"
    /\ UNCHANGED <<revision, loopVars, stopped, budget, listVars, lines, queueVars, asked,
                   receivedVars>>

ReadIsOver ==
    /\ part \in {"first", "second"}
    /\ \/ lines[serving] /\ (stopped \/ budget = 0)
       \/ part = "second" /\ ~lines[serving]
    /\ part' = "flush"
    /\ UNCHANGED <<revision, loopVars, stopped, budget, lost, listVars, lines, queueVars,
                   asked, receivedVars>>

-----------------------------------------------------------------------------
(* flush_client: write until the queue is empty or the socket is full. *)

Flushing(c) == serving = c /\ part = "flush" /\ lost # "output"

Write(c) ==
    /\ Flushing(c)
    /\ outbound[c] # << >>
    /\ LET message == Head(outbound[c])
       IN  /\ outbound' = [outbound EXCEPT ![c] = Tail(@)]
           /\ bytes' = [bytes EXCEPT ![c] = @ - Size(message)]
           /\ answered' = [answered EXCEPT ![c] = IF message.event THEN @ ELSE message.no]
           /\ best' = [best EXCEPT ![c] = IF message.revision > @ THEN message.revision ELSE @]
    /\ UNCHANGED <<revision, loopVars, turnVars, listVars, lines, closing, rejection, asked,
                   refused>>

(* The rejection is queued behind everything else; it answers the line     *)
(* that was refused.                                                       *)
TakeRejection ==
    \E c \in open :
      /\ Flushing(c)
      /\ outbound[c] = << >>
      /\ rejection[c] # 0
      /\ rejection' = [rejection EXCEPT ![c] = 0]
      /\ Queue(c, Reply(0, rejection[c]))
      /\ UNCHANGED <<revision, loopVars, turnVars, listVars, lines, asked, receivedVars>>

(* Mutant of Leaves: a client to be closed is dropped with its output. *)
LeavesAtOnce(c) == lost # "none" \/ closing[c]

Leaves(c) == lost # "none" \/ (closing[c] /\ outbound[c] = << >> /\ rejection[c] = 0)

(* The client is kept, with its queue as given, or dropped with all that   *)
(* was kept for it.                                                        *)
EndTurn(c, queue) ==
    /\ serving' = Nobody
    /\ part' = "flush" /\ stopped' = FALSE /\ budget' = 0 /\ lost' = "none"
    /\ UNCHANGED <<revision, stage, polled, todo, first, backlog, met>>
    /\ IF Leaves(c)
       THEN /\ open' = open \ {c}
            /\ lines' = [lines EXCEPT ![c] = FALSE]
            /\ outbound' = [outbound EXCEPT ![c] = << >>]
            /\ bytes' = [bytes EXCEPT ![c] = 0]
            /\ closing' = [closing EXCEPT ![c] = FALSE]
            /\ rejection' = [rejection EXCEPT ![c] = 0]
            /\ asked' = [asked EXCEPT ![c] = 0]
            /\ refused' = [refused EXCEPT ![c] = 0]
            /\ answered' = [answered EXCEPT ![c] = 0]
            /\ best' = [best EXCEPT ![c] = 0]
       ELSE /\ outbound' = [outbound EXCEPT ![c] = queue]
            /\ UNCHANGED <<open, lines, bytes, closing, rejection, asked, receivedVars>>

WriteFails ==
    \E c \in open :
      /\ Flushing(c)
      /\ outbound[c] # << >>
      /\ lost' = "output"
      /\ UNCHANGED <<revision, loopVars, part, stopped, budget, listVars, lines, queueVars,
                     asked, receivedVars>>

(* All is written, or the socket takes no more, or writing has failed.     *)
Flushed ==
    \E c \in open :
      /\ serving = c /\ part = "flush"
      /\ outbound[c] # << >> \/ rejection[c] = 0
      /\ EndTurn(c, outbound[c])

(* The socket takes a part of the first message. *)
WritePart ==
    \E c \in open :
      /\ Flushing(c)
      /\ outbound[c] # << >>
      /\ Head(outbound[c]).begun = NotBegun
      /\ EndTurn(c, [outbound[c] EXCEPT ![1].begun = outbound[c][1].revision])

NextRound ==
    /\ stage = "serve" /\ serving = Nobody /\ todo = {}
    /\ stage' = "accept"
    /\ UNCHANGED <<revision, polled, todo, serving, first, turnVars, listVars, lines, queueVars,
                   asked, receivedVars>>

(* The worker's state changes on its own. *)
Change ==
    /\ revision < MaxRevision
    /\ revision' = revision + 1
    /\ UNCHANGED <<loopVars, turnVars, listVars, lines, queueVars, asked, receivedVars>>

-----------------------------------------------------------------------------
Init ==
    /\ revision = 1
    /\ stage = "accept" /\ polled = 0 /\ first = 0
    /\ todo = {} /\ serving = Nobody
    /\ part = "flush" /\ stopped = FALSE /\ budget = 0 /\ lost = "none"
    /\ backlog = {} /\ open = {} /\ met = {}
    /\ lines = [c \in Clients |-> FALSE]
    /\ outbound = [c \in Clients |-> << >>]
    /\ bytes = [c \in Clients |-> 0]
    /\ closing = [c \in Clients |-> FALSE]
    /\ rejection = [c \in Clients |-> 0]
    /\ asked = [c \in Clients |-> 0]
    /\ refused = [c \in Clients |-> 0]
    /\ answered = [c \in Clients |-> 0]
    /\ best = [c \in Clients |-> 0]

Server ==
    \/ Accept \/ NoMoreToAccept \/ Poll \/ Turn
    \/ AnswerWithState \/ AnswerPlainly \/ Reject \/ Read \/ HangUp \/ ReadIsOver
    \/ (\E c \in Clients : Write(c)) \/ TakeRejection \/ Flushed \/ WritePart \/ WriteFails
    \/ NextRound

Next == Connect \/ Change \/ Server

(* The thread runs, and a peer that keeps reading lets its client's socket *)
(* take a message again and again.                                         *)
Fairness ==
    /\ WF_vars(Server)
    /\ \A c \in Readers : SF_vars(Write(c))

Spec == Init /\ [][Next]_vars

FairSpec == Spec /\ Fairness

-----------------------------------------------------------------------------
(* Every variable holds a value of its kind, the counted bytes are those   *)
(* in the queue, and a queue beyond its limit is being closed.             *)
TypeOK ==
    /\ revision \in 1..MaxRevision
    /\ stage \in {"accept", "poll", "serve"}
    /\ polled \in 0..MaxRevision /\ first \in 0..MaxRevision
    /\ todo \subseteq open /\ serving \in open \cup {Nobody}
    /\ part \in {"first", "second", "flush"}
    /\ stopped \in BOOLEAN /\ lost \in {"none", "input", "output"}
    /\ budget \in 0..BatchLimit
    /\ open \subseteq met /\ backlog \subseteq met \ open /\ met \subseteq Clients
    /\ lines \in [Clients -> BOOLEAN] /\ closing \in [Clients -> BOOLEAN]
    /\ outbound \in [Clients -> Seq(Message)]
    /\ \A c \in Clients :
         /\ bytes[c] = Total(outbound[c])
         /\ bytes[c] > QueueLimit => closing[c]
         /\ {asked[c], refused[c], answered[c], rejection[c]} \subseteq 0..MaxRequests[c]
    /\ best \in [Clients -> 0..MaxRevision]

(* A client that was refused or overflowed its queue gets what was queued, *)
(* a refusal last of all, before it is dropped; only a client that hangs up *)
(* or breaks leaves anything behind.                                       *)
ClosedAfterOutput ==
    [][\A c \in open \ open' :
         lost = "none" => outbound[c] = << >> /\ refused[c] \in {0, answered[c]}]_vars

(* A client that keeps reading receives the worker's current state, however *)
(* many events were replaced and whatever other clients do.  Nobody is told *)
(* of the state the loop has polled first: a client that got an older one   *)
(* before that poll learns of it with the next change.                      *)
Informed(c) == c \notin open \/ closing[c] \/ best[c] = revision \/ revision = first
ReadersAreInformed == \A c \in Readers : []<>Informed(c)

(* Once a request has been refused, or a reply has overflowed the queue,   *)
(* no further request of that client is carried out.                       *)
RefusalIsLast ==
    [][\A c \in open : closing[c] => asked'[c] = asked[c] \/ c \notin open']_vars
-----------------------------------------------------------------------------
(* The server implements the feed its clients rely on: seen from a client, *)
(* turns, budgets, partial writes and byte counts only decide when things  *)
(* happen, never what is sent or in which order; and under the fairness of *)
(* its one thread, clients that read get everything (flush_client, queue). *)
Sent(m) == [event |-> m.event, revision |-> m.revision, tag |-> m.no]

Feed == INSTANCE StateFeed WITH
    Connections <- Clients,
    Tags <- Numbers,
    FirstTag <- 0,
    FeedRevisions <- 1..MaxRevision,
    announced <- polled,
    connected <- open,
    outbox <- [c \in Clients |-> [i \in DOMAIN outbound[c] |-> Sent(outbound[c][i])]],
    begun <- { c \in open : outbound[c] # << >> /\ outbound[c][1].begun # NotBegun },
    closing <- { c \in open : closing[c] },
    refused <- { c \in open : rejection[c] # 0 }

ServesFeed == Feed!FeedSpec /\ Feed!FeedFairness(Readers)
=============================================================================
