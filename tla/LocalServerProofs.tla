------------------------- MODULE LocalServerProofs -------------------------
(***************************************************************************)
(* The local IPC server, for any clients, sizes of messages, limits and    *)
(* revisions: its queues hold what it counts, a client that is closed has  *)
(* got everything, and it serves the feed its clients rely on.             *)
(***************************************************************************)
EXTENDS LocalServer, SequenceTheorems, WellFoundedInduction, TLAPS

-----------------------------------------------------------------------------
(* The bytes of a queue.  Total is a recursive function: that there is one *)
(* for each queue, and only one, is shown by a least counterexample.       *)

LEMMA Least ==
    ASSUME NEW T \in SUBSET Nat, T # {}
    PROVE  \E n \in T : \A k \in T : n <= k
<1>1. IsWellFoundedOn(OpToRel(<, Nat), Nat)
  BY NatLessThanWellFounded
<1>2. PICK n \in T : \A k \in T : ~(<<k, n>> \in OpToRel(<, Nat))
  BY <1>1, WFMin
<1>3. \A k \in T : ~(k < n)
  BY <1>2 DEF OpToRel
<1> QED
  BY <1>3

LEMMA SizeTyped == ASSUME NEW m \in Message PROVE Size(m) \in 1..QueueLimit
  BY ServerAssumption DEF Size, Message

(* The totals of the queue's first messages. *)
Sums(s, f) == f = [i \in 0..Len(s) |-> IF i = 0 THEN 0 ELSE f[i - 1] + Size(s[i])]

LEMMA SumsAt ==
    ASSUME NEW s \in Seq(Message), NEW f, Sums(s, f)
    PROVE  /\ DOMAIN f = 0..Len(s) /\ f[0] = 0
           /\ \A i \in DOMAIN s : f[i] = f[i - 1] + Size(s[i])
  BY DEF Sums

LEMMA SumsTyped ==
    ASSUME NEW s \in Seq(Message), NEW f, Sums(s, f)
    PROVE  f \in [0..Len(s) -> Nat]
<1> DEFINE T == { i \in 0..Len(s) : f[i] \notin Nat }
<1>1. DOMAIN f = 0..Len(s) /\ f[0] = 0 /\ f = [i \in 0..Len(s) |-> f[i]]
  BY DEF Sums
<1>2. ASSUME T # {} PROVE FALSE
  <2>1. T \in SUBSET Nat
    OBVIOUS
  <2> HIDE DEF T
  <2>2. PICK n \in T : \A k \in T : n <= k
    BY <1>2, <2>1, Least
  <2> USE DEF T
  <2>3. n # 0 /\ n - 1 \in 0..Len(s) /\ n \in DOMAIN s
    BY <1>1, <2>2
  <2>4. f[n - 1] \in Nat
    BY <2>2, <2>3
  <2>5. Size(s[n]) \in Nat
    BY <2>3, SizeTyped, ServerAssumption
  <2> QED
    BY <2>2, <2>3, <2>4, <2>5, SumsAt
<1> QED
  BY <1>1, <1>2

(* Sums of two queues agree as far as the queues do. *)
LEMMA SumsAgree ==
    ASSUME NEW s \in Seq(Message), NEW t \in Seq(Message), NEW f, NEW g, Sums(s, f), Sums(t, g),
           NEW n \in 0..Len(s), n <= Len(t), \A i \in 1..n : s[i] = t[i]
    PROVE  f[n] = g[n]
<1> DEFINE T == { i \in 0..n : f[i] # g[i] }
<1>1. ASSUME T # {} PROVE FALSE
  <2>1. T \in SUBSET Nat
    OBVIOUS
  <2> HIDE DEF T
  <2>2. PICK k \in T : \A i \in T : k <= i
    BY <1>1, <2>1, Least
  <2> USE DEF T
  <2>3. k # 0 /\ k - 1 \in 0..n /\ k \in DOMAIN s /\ k \in DOMAIN t
    BY <2>2, SumsAt
  <2>4. f[k - 1] = g[k - 1]
    BY <2>2, <2>3
  <2>5. f[k] = f[k - 1] + Size(s[k]) /\ g[k] = g[k - 1] + Size(t[k])
    BY <2>3, SumsAt
  <2> QED
    BY <2>2, <2>3, <2>4, <2>5
<1> QED
  BY <1>1

LEMMA SumsExist ==
    ASSUME NEW s \in Seq(Message)
    PROVE  \E f : Sums(s, f)
<1> DEFINE Exist(n) == \A t \in Seq(Message) : Len(t) = n => \E f : Sums(t, f)
           T == { n \in Nat : ~Exist(n) }
<1>1. ASSUME T # {} PROVE FALSE
  <2>1. PICK n \in T : \A k \in T : n <= k
    BY <1>1, Least
  <2>2. PICK t \in Seq(Message) : Len(t) = n /\ ~\E f : Sums(t, f)
    BY <2>1
  <2>3. CASE n = 0
    <3>1. Sums(t, [i \in 0..0 |-> 0])
      BY <2>2, <2>3 DEF Sums
    <3> QED
      BY <2>2, <3>1
  <2>4. CASE n # 0
    <3>1. n - 1 \in Nat /\ n - 1 \notin T
      BY <2>1, <2>4
    <3>2. Front(t) \in Seq(Message) /\ Len(Front(t)) = n - 1
          /\ \A i \in 1..(n - 1) : Front(t)[i] = t[i]
      BY <2>2, <2>4 DEF Front
    <3>3. PICK f : Sums(Front(t), f)
      BY <3>1, <3>2
    <3> DEFINE g == [i \in 0..n |-> IF i = n THEN f[n - 1] + Size(t[n]) ELSE f[i]]
    <3>4. /\ DOMAIN f = 0..(n - 1) /\ f[0] = 0
          /\ \A i \in 1..(n - 1) : f[i] = f[i - 1] + Size(t[i])
      <4>1. Front(t) \in Seq(Message) /\ Len(Front(t)) = n - 1
            /\ \A i \in DOMAIN Front(t) : Front(t)[i] = t[i]
        BY <3>2
      <4> HIDE DEF T, Exist
      <4>2. /\ DOMAIN f = 0..Len(Front(t)) /\ f[0] = 0
            /\ \A i \in DOMAIN Front(t) : f[i] = f[i - 1] + Size(Front(t)[i])
        BY ONLY <4>1, <3>3, SumsAt
      <4>3. DOMAIN Front(t) = 1..(n - 1)
        BY <3>1, <4>1
      <4> QED
        BY <4>1, <4>2, <4>3
    <3>5. ASSUME NEW i \in 0..n PROVE g[i] = IF i = 0 THEN 0 ELSE g[i - 1] + Size(t[i])
      <4>1. CASE i = 0
        BY <2>4, <3>4, <4>1
      <4>2. CASE i = n
        BY <2>4, <3>1, <4>2
      <4>3. CASE i \in 1..(n - 1)
        BY <3>1, <3>4, <4>3
      <4> QED
        BY <4>1, <4>2, <4>3, <2>1
    <3>6. g = [i \in 0..n |-> g[i]]
      OBVIOUS
    <3> HIDE DEF g
    <3>7. g = [i \in 0..n |-> IF i = 0 THEN 0 ELSE g[i - 1] + Size(t[i])]
      BY <3>5, <3>6
    <3>8. Sums(t, g)
      BY <2>2, <3>7 DEF Sums
    <3> QED
      BY <2>2, <3>8
  <2> QED
    BY <2>3, <2>4
<1> QED
  BY <1>1

LEMMA TotalIsSum ==
    ASSUME NEW s \in Seq(Message), NEW f, Sums(s, f)
    PROVE  Total(s) = f[Len(s)] /\ Total(s) \in Nat
<1> DEFINE g == CHOOSE g : Sums(s, g)
<1>1. Total(s) = g[Len(s)]
  BY DEF Total, Sums
<1>2. Sums(s, g)
  BY SumsExist
<1> HIDE DEF g
<1>3. Len(s) \in 0..Len(s)
  OBVIOUS
<1>4. f[Len(s)] = g[Len(s)]
  BY <1>2, <1>3, SumsAgree
<1>5. f[Len(s)] \in Nat
  BY <1>3, SumsTyped
<1> QED
  BY <1>1, <1>4, <1>5

LEMMA TotalTyped == ASSUME NEW s \in Seq(Message) PROVE Total(s) \in Nat
  BY SumsExist, TotalIsSum

LEMMA TotalOfNone ==
    ASSUME NEW s \in Seq(Message), s = << >>
    PROVE  Total(s) = 0
<1>1. PICK f : Sums(s, f)
  BY SumsExist
<1>2. Len(s) = 0
  OBVIOUS
<1> QED
  BY <1>1, <1>2, TotalIsSum, SumsAt

LEMMA TotalAppend ==
    ASSUME NEW s \in Seq(Message), NEW m \in Message
    PROVE  Total(Append(s, m)) = Total(s) + Size(m)
<1> DEFINE t == Append(s, m)
<1>1. t \in Seq(Message) /\ Len(t) = Len(s) + 1 /\ Len(s) \in Nat /\ DOMAIN t = 1..Len(t)
  OBVIOUS
<1>2. t[Len(s) + 1] = m /\ \A i \in 1..Len(s) : s[i] = t[i]
  OBVIOUS
<1> HIDE DEF t
<1>3. PICK f : Sums(s, f)
  BY SumsExist
<1>4. PICK g : Sums(t, g)
  BY <1>1, SumsExist
<1>5. f[Len(s)] = g[Len(s)]
  BY <1>1, <1>2, <1>3, <1>4, SumsAgree
<1>6. g[Len(s) + 1] = g[Len(s)] + Size(m)
  BY <1>1, <1>2, <1>4, SumsAt
<1>7. Total(s) = f[Len(s)] /\ Total(t) = g[Len(t)]
  BY <1>1, <1>3, <1>4, TotalIsSum
<1> QED
  BY <1>1, <1>5, <1>6, <1>7 DEF t

LEMMA TotalTail ==
    ASSUME NEW s \in Seq(Message), s # << >>
    PROVE  /\ Tail(s) \in Seq(Message)
           /\ Total(s) = Size(Head(s)) + Total(Tail(s))
<1> DEFINE t == Tail(s)
<1>1. t \in Seq(Message) /\ Len(s) = Len(t) + 1 /\ Len(t) \in Nat /\ Head(s) = s[1]
      /\ DOMAIN s = 1..Len(s)
  OBVIOUS
<1>2. \A i \in 1..Len(t) : t[i] = s[i + 1]
  OBVIOUS
<1> HIDE DEF t
<1>3. PICK f : Sums(s, f)
  BY SumsExist
<1>4. f \in [0..Len(s) -> Nat] /\ f[0] = 0 /\ \A i \in 1..Len(s) : f[i] = f[i - 1] + Size(s[i])
  BY <1>1, <1>3, SumsTyped, SumsAt
<1>5. Size(s[1]) \in Nat /\ f[1] = Size(s[1])
  BY <1>1, <1>4, SizeTyped, ServerAssumption
<1> DEFINE g == [i \in 0..Len(t) |-> f[i + 1] - Size(s[1])]
<1>6. \A i \in 0..Len(t) : g[i] = IF i = 0 THEN 0 ELSE g[i - 1] + Size(t[i])
  <2> TAKE i \in 0..Len(t)
  <2>1. CASE i = 0
    BY <1>5, <2>1, <1>1
  <2>2. CASE i # 0
    <3>1. i - 1 \in 0..Len(t) /\ (i - 1) + 1 = i /\ i + 1 \in 1..Len(s) /\ (i + 1) - 1 = i
          /\ i \in 1..Len(t) /\ i \in 0..Len(s)
      BY <1>1, <2>2
    <3>2. g[i] = f[i + 1] - Size(s[1]) /\ g[i - 1] = f[i] - Size(s[1])
      BY <3>1
    <3>3. f[i + 1] = f[i] + Size(t[i])
      BY <1>2, <1>4, <3>1
    <3>4. f[i] \in Nat /\ Size(t[i]) \in Nat
      <4>1. t[i] \in Message
        BY <1>1, <3>1
      <4>2. Size(t[i]) \in Nat
        BY <4>1, SizeTyped, ServerAssumption
      <4> QED
        BY <1>4, <3>1, <4>2
    <3> HIDE DEF g
    <3> QED
      BY <1>5, <2>2, <3>2, <3>3, <3>4
  <2> QED
    BY <2>1, <2>2
<1>7. g = [i \in 0..Len(t) |-> g[i]] /\ g[Len(t)] = f[Len(t) + 1] - Size(s[1])
  BY <1>1
<1> HIDE DEF g
<1>8. Sums(t, g)
  BY <1>6, <1>7 DEF Sums
<1>9. Total(t) = g[Len(t)] /\ Total(s) = f[Len(s)] /\ Total(s) \in Nat
  BY <1>1, <1>3, <1>8, TotalIsSum
<1> QED
  BY <1>1, <1>5, <1>7, <1>9 DEF t

LEMMA TotalReplace ==
    ASSUME NEW s \in Seq(Message), NEW k \in DOMAIN s, NEW m \in Message
    PROVE  /\ [s EXCEPT ![k] = m] \in Seq(Message)
           /\ Total([s EXCEPT ![k] = m]) = (Total(s) - Size(s[k])) + Size(m)
<1> DEFINE t == [s EXCEPT ![k] = m]
<1>1. t \in Seq(Message) /\ Len(t) = Len(s) /\ Len(s) \in Nat /\ DOMAIN s = 1..Len(s)
  OBVIOUS
<1>2. \A i \in 1..Len(s) : t[i] = IF i = k THEN m ELSE s[i]
  OBVIOUS
<1> HIDE DEF t
<1>3. PICK f : Sums(s, f)
  BY SumsExist
<1>4. f \in [0..Len(s) -> Nat] /\ f[0] = 0 /\ \A i \in 1..Len(s) : f[i] = f[i - 1] + Size(s[i])
  BY <1>1, <1>3, SumsTyped, SumsAt
<1> DEFINE d == Size(m) - Size(s[k])
<1>5. Size(m) \in Nat /\ Size(s[k]) \in Nat /\ d \in Int /\ k \in 1..Len(s)
      /\ \A i \in 1..Len(s) : Size(s[i]) \in Nat
  BY <1>1, SizeTyped, ServerAssumption
<1> DEFINE g == [i \in 0..Len(s) |-> IF i < k THEN f[i] ELSE f[i] + d]
<1>6. \A i \in 0..Len(s) : g[i] = IF i = 0 THEN 0 ELSE g[i - 1] + Size(t[i])
  <2> TAKE i \in 0..Len(s)
  <2>1. CASE i = 0
    BY <1>4, <1>5, <2>1
  <2>2. CASE i # 0
    <3>1. i - 1 \in 0..Len(s) /\ i \in 1..Len(s)
      BY <1>1, <2>2
    <3>2. f[i] = f[i - 1] + Size(s[i]) /\ f[i - 1] \in Nat /\ Size(s[i]) \in Nat
      BY <1>4, <1>5, <3>1
    <3>3. g[i] = (IF i < k THEN f[i] ELSE f[i] + d)
          /\ g[i - 1] = (IF i - 1 < k THEN f[i - 1] ELSE f[i - 1] + d)
      BY <3>1
    <3>4. Size(t[i]) = IF i = k THEN Size(m) ELSE Size(s[i])
      BY <1>2, <3>1
    <3> HIDE DEF g
    <3> QED
      BY <1>5, <2>2, <3>1, <3>2, <3>3, <3>4
  <2> QED
    BY <2>1, <2>2
<1>7. g = [i \in 0..Len(s) |-> g[i]] /\ g[Len(s)] = f[Len(s)] + d
  BY <1>1, <1>5
<1> HIDE DEF g
<1>8. Sums(t, g)
  BY <1>1, <1>6, <1>7 DEF Sums
<1>9. Total(t) = g[Len(t)] /\ Total(s) = f[Len(s)] /\ Total(s) \in Nat
  BY <1>1, <1>3, <1>8, TotalIsSum
<1>10. Total(t) = (Total(s) - Size(s[k])) + Size(m)
  BY <1>1, <1>5, <1>7, <1>9
<1> QED
  BY <1>1, <1>10 DEF t

-----------------------------------------------------------------------------
(* Messages and queues. *)

LEMMA Bounds ==
    /\ Nobody \notin Clients /\ QueueLimit \in Nat /\ BatchLimit \in Nat \ {0}
    /\ MaxRevision \in Nat \ {0} /\ NotBegun \in Nat /\ NotBegun # 0 /\ NotBegun \notin 0..MaxRevision
    /\ \A c \in Clients : MaxRequests[c] \in Nat /\ 0..MaxRequests[c] \subseteq Numbers
  BY ServerAssumption DEF NotBegun, Numbers

LEMMA MessageTypes ==
    ASSUME NEW c \in Clients, NEW r \in 0..MaxRevision, NEW no \in 0..MaxRequests[c]
    PROVE  /\ Event(r) \in Message /\ Reply(r, no) \in Message
           /\ Event(r).event /\ ~Reply(r, no).event
           /\ Event(r).begun = NotBegun /\ Reply(r, no).begun = NotBegun
           /\ Event(r).revision = r /\ Reply(r, no).revision = r
           /\ Event(r).no = 0 /\ Reply(r, no).no = no
<1>1. 0 \in Numbers /\ no \in Numbers /\ NotBegun \in 0..NotBegun
  BY Bounds
<1> QED
  BY <1>1 DEF Event, Reply, Message

(* Of a queue only the first message can have begun. *)
OthersWait(queue) == \A i \in DOMAIN queue : i # 1 => queue[i].begun = NotBegun

(* What queueing makes of a queue: a message more, or one replaced, or,    *)
(* when it is full, nothing.                                               *)
QueuedAs(c, message) ==
    \/ /\ ~message.event \/ Waiting(c) = {}
       /\ \/ /\ Queued(c, message).ok
             /\ Queued(c, message).queue = Append(outbound[c], message)
             /\ Queued(c, message).bytes = bytes[c] + Size(message)
          \/ /\ ~Queued(c, message).ok
             /\ bytes[c] + Size(message) > QueueLimit
             /\ Queued(c, message).queue = outbound[c]
             /\ Queued(c, message).bytes = bytes[c]
    \/ /\ message.event
       /\ \E i \in Waiting(c) :
            /\ \A j \in Waiting(c) : i <= j
            /\ i = CHOOSE k \in Waiting(c) : \A j \in Waiting(c) : k <= j
            /\ Queued(c, message).queue = [outbound[c] EXCEPT ![i] = message]
            /\ Queued(c, message).bytes = (bytes[c] - Size(outbound[c][i])) + Size(message)

LEMMA ReplacedIsMessage ==
    ASSUME NEW message \in Message, message.begun = NotBegun, NEW old \in Message, Coalesces(old)
    PROVE  Replaced(old, message) = message
  BY DEF Replaced, Coalesces, Message

LEMMA QueueingIsAs ==
    ASSUME NEW c \in Clients, outbound[c] \in Seq(Message), bytes[c] \in Nat,
           NEW message \in Message, message.begun = NotBegun
    PROVE  /\ QueuedAs(c, message)
           /\ Queued(c, message).ok \in BOOLEAN
           /\ Queued(c, message).bytes > QueueLimit => ~Queued(c, message).ok \/ bytes[c] > QueueLimit
<1>1. CASE message.event /\ Waiting(c) # {}
  <2> DEFINE i == CHOOSE i \in Waiting(c) : \A j \in Waiting(c) : i <= j
             old == outbound[c][i]
             total == BytesAfter(old, message, c)
  <2>1. Waiting(c) \in SUBSET Nat
    BY DEF Waiting
  <2>2. i \in Waiting(c) /\ \A j \in Waiting(c) : i <= j
    BY <1>1, <2>1, Least
  <2>3. Queued(c, message) =
          [queue |-> [outbound[c] EXCEPT ![i] = Replaced(old, message)],
           bytes |-> total, ok |-> total <= QueueLimit]
    BY <1>1 DEF Queued
  <2> HIDE DEF i
  <2>4. old \in Message /\ Coalesces(old)
    BY <2>2 DEF Waiting
  <2>5. Replaced(old, message) = message
    BY <2>4, ReplacedIsMessage
  <2>6. /\ Queued(c, message).queue = [outbound[c] EXCEPT ![i] = message]
        /\ Queued(c, message).bytes = total
        /\ Queued(c, message).ok = (total <= QueueLimit)
    BY <2>3, <2>5
  <2>7. total = (bytes[c] - Size(old)) + Size(message) /\ total \in Int
    BY <2>4, SizeTyped, ServerAssumption DEF BytesAfter
  <2>8. QueuedAs(c, message)
    BY <1>1, <2>2, <2>6, <2>7 DEF QueuedAs, i
  <2> HIDE DEF total
  <2>9. (total <= QueueLimit) \in BOOLEAN
    OBVIOUS
  <2>10. Queued(c, message).ok \in BOOLEAN
    BY <2>6, <2>9, Zenon
  <2>11. ASSUME Queued(c, message).bytes > QueueLimit PROVE ~Queued(c, message).ok
    <3>1. ~(total <= QueueLimit)
      BY <2>6, <2>7, <2>11, Bounds
    <3> QED
      BY <2>6, <3>1, Zenon
  <2> QED
    BY <2>8, <2>10, <2>11
<1>2. CASE ~(message.event /\ Waiting(c) # {})
  <2>1. Size(message) \in Nat
    BY SizeTyped, ServerAssumption
  <2>2. CASE bytes[c] + Size(message) > QueueLimit
    <3>1. Queued(c, message) = [queue |-> outbound[c], bytes |-> bytes[c], ok |-> FALSE]
      BY <1>2, <2>2 DEF Queued
    <3> QED
      BY <1>2, <2>2, <3>1 DEF QueuedAs
  <2>3. CASE ~(bytes[c] + Size(message) > QueueLimit)
    <3>1. Queued(c, message) = [queue |-> Append(outbound[c], message),
                                bytes |-> bytes[c] + Size(message), ok |-> TRUE]
      BY <1>2, <2>3 DEF Queued
    <3> QED
      BY <1>2, <2>1, <2>3, <3>1, Bounds DEF QueuedAs
  <2> QED
    BY <2>2, <2>3
<1> QED
  BY <1>1, <1>2

-----------------------------------------------------------------------------
(* The invariant, a part at a time. *)

(* The loop: what it knows of its clients and where in a turn it is. *)
LoopOK ==
    /\ revision \in 1..MaxRevision
    /\ stage \in {"accept", "poll", "serve"}
    /\ polled \in 0..MaxRevision /\ first \in 0..MaxRevision
    /\ stage = "serve" => polled # 0
    /\ todo \subseteq open /\ serving \in open \cup {Nobody}
    /\ serving \notin todo
    /\ serving # Nobody => stage = "serve"
    /\ part \in {"first", "second", "flush"}
    /\ part # "flush" => serving # Nobody
    /\ lost \in {"none", "input", "output"}
    /\ budget \in 0..BatchLimit
    /\ open \subseteq met /\ backlog \subseteq met \ open /\ met \subseteq Clients

(* Each client's requests: what the input holds is still to be asked. *)
RequestsOfOK(c) ==
    /\ {asked[c], refused[c], answered[c], rejection[c]} \subseteq 0..MaxRequests[c]
    /\ lines[c] => asked[c] < MaxRequests[c]
    /\ c \notin open => {asked[c], refused[c], answered[c], rejection[c]} = {0} /\ ~lines[c]

RequestsTyped ==
    /\ lines \in [Clients -> BOOLEAN]
    /\ asked \in [Clients -> Nat] /\ refused \in [Clients -> Nat]
    /\ answered \in [Clients -> Nat] /\ rejection \in [Clients -> Nat]
    /\ best \in [Clients -> 0..MaxRevision]

RequestsOK == RequestsTyped /\ \A c \in Clients : RequestsOfOK(c)

(* Each client's queue. *)
QueueOfOK(c) ==
    /\ OthersWait(outbound[c])
    /\ bytes[c] = Total(outbound[c])
    /\ bytes[c] > QueueLimit => closing[c]
    /\ \A i \in DOMAIN outbound[c] : outbound[c][i].no \in 0..MaxRequests[c]
    /\ c \notin open => outbound[c] = << >> /\ ~closing[c]

QueuesTyped ==
    /\ outbound \in [Clients -> Seq(Message)] /\ bytes \in [Clients -> Nat]
    /\ closing \in [Clients -> BOOLEAN]

QueuesOK == QueuesTyped /\ \A c \in Clients : QueueOfOK(c)

Kinds == LoopOK /\ stopped \in BOOLEAN /\ RequestsOK /\ QueuesOK

LEMMA KindsAreTypes == Kinds => TypeOK
<1>1. ASSUME Kinds, NEW c \in Clients
      PROVE  /\ bytes[c] = Total(outbound[c])
             /\ bytes[c] > QueueLimit => closing[c]
             /\ {asked[c], refused[c], answered[c], rejection[c]} \subseteq 0..MaxRequests[c]
  BY <1>1 DEF Kinds, RequestsOK, RequestsOfOK, QueuesOK, QueueOfOK
<1> QED
  BY <1>1 DEF Kinds, LoopOK, RequestsOK, RequestsTyped, QueuesOK, QueuesTyped, TypeOK

LEMMA KindsAtStart == Init => Kinds
<1> SUFFICES ASSUME Init PROVE Kinds
  OBVIOUS
<1>1. LoopOK
  <2>1. /\ revision = 1 /\ stage = "accept" /\ polled = 0 /\ first = 0 /\ todo = {}
        /\ serving = Nobody /\ part = "flush" /\ budget = 0 /\ lost = "none"
        /\ backlog = {} /\ open = {} /\ met = {}
    BY DEF Init
  <2> QED
    BY <2>1, Bounds DEF LoopOK
<1>7. stopped \in BOOLEAN
  BY DEF Init
<1>2. RequestsTyped
  BY Bounds DEF Init, RequestsTyped
<1>3. ASSUME NEW c \in Clients PROVE RequestsOfOK(c)
  BY Bounds DEF Init, RequestsOfOK
<1>4. << >> \in Seq(Message)
  OBVIOUS
<1>5. QueuesTyped
  BY <1>4 DEF Init, QueuesTyped
<1>6. ASSUME NEW c \in Clients PROVE QueueOfOK(c)
  <2>1. outbound[c] = << >> /\ bytes[c] = 0 /\ ~closing[c]
    BY DEF Init
  <2>2. Total(outbound[c]) = 0
    BY <1>4, <2>1, TotalOfNone
  <2>3. OthersWait(outbound[c]) /\ DOMAIN outbound[c] = {}
    BY <2>1 DEF OthersWait
  <2> QED
    BY <2>1, <2>2, <2>3, Bounds DEF QueueOfOK
<1> QED
  BY <1>1, <1>2, <1>3, <1>5, <1>6, <1>7 DEF Kinds, RequestsOK, QueuesOK

-----------------------------------------------------------------------------
LEMMA LoopStays == LoopOK /\ [Next]_vars => LoopOK'
<1> SUFFICES ASSUME LoopOK, [Next]_vars PROVE LoopOK'
  OBVIOUS
<1> USE Bounds
<1>1. CASE UNCHANGED vars
  BY <1>1 DEF LoopOK, vars, loopVars, turnVars, listVars
<1>2. CASE Connect
  BY <1>2 DEF LoopOK, Connect, loopVars, turnVars
<1>3. CASE Change
  BY <1>3 DEF LoopOK, Change, loopVars, turnVars, listVars
<1>4. CASE Accept
  BY <1>4 DEF LoopOK, Accept, loopVars, turnVars
<1>5. CASE NoMoreToAccept
  BY <1>5 DEF LoopOK, NoMoreToAccept, turnVars, listVars
<1>6. CASE Poll
  BY <1>6 DEF LoopOK, Poll, turnVars, listVars
<1>7. CASE Turn
  <2>1. PICK c \in todo :
          /\ stage = "serve" /\ serving = Nobody /\ serving' = c /\ todo' = todo \ {c}
          /\ part' \in {"first", "flush"}
          /\ budget' = BatchLimit
          /\ UNCHANGED <<revision, stage, polled, first, stopped, lost, listVars>>
    BY <1>7 DEF Turn
  <2> QED
    BY <2>1 DEF LoopOK, listVars
<1>8. ASSUME Asks, UNCHANGED revision \/ revision' \in {revision, revision + 1} \cap 1..MaxRevision,
             budget' \in {budget, budget - 1}
      PROVE  LoopOK'
  BY <1>8 DEF LoopOK, Asks, loopVars, listVars
<1>9. CASE AnswerWithState
  BY <1>8, <1>9 DEF AnswerWithState, Answer, LoopOK
<1>10. CASE AnswerPlainly
  BY <1>8, <1>10 DEF AnswerPlainly, Answer, LoopOK
<1>11. CASE Reject
  BY <1>8, <1>11 DEF Reject
<1>12. CASE Read
  BY <1>12 DEF LoopOK, Read, MayRead, loopVars, listVars
<1>13. CASE HangUp
  BY <1>13 DEF LoopOK, HangUp, loopVars, listVars
<1>14. CASE ReadIsOver
  BY <1>14 DEF LoopOK, ReadIsOver, loopVars, listVars
<1>15. ASSUME NEW c \in Clients, Write(c) PROVE LoopOK'
  BY <1>15 DEF LoopOK, Write, loopVars, turnVars, listVars
<1>16. CASE TakeRejection
  BY <1>16 DEF LoopOK, TakeRejection, loopVars, turnVars, listVars
<1>17. ASSUME NEW c \in open, NEW queue, serving = c, EndTurn(c, queue) PROVE LoopOK'
  <2>1. open' \in {open, open \ {c}}
    BY <1>17 DEF EndTurn
  <2>2. /\ serving' = Nobody /\ part' = "flush" /\ budget' = 0 /\ lost' = "none"
        /\ UNCHANGED <<revision, stage, polled, todo, first, backlog, met>>
    BY <1>17 DEF EndTurn
  <2> QED
    BY <1>17, <2>1, <2>2 DEF LoopOK
<1>18. CASE Flushed
  BY <1>17, <1>18 DEF Flushed
<1>19. CASE WritePart
  BY <1>17, <1>19 DEF WritePart, Flushing
<1>20. CASE WriteFails
  BY <1>20 DEF LoopOK, WriteFails, Flushing, loopVars, listVars
<1>21. CASE NextRound
  BY <1>21 DEF LoopOK, NextRound, turnVars, listVars
<1> QED
  BY <1>1, <1>2, <1>3, <1>4, <1>5, <1>6, <1>7, <1>9, <1>10, <1>11, <1>12, <1>13, <1>14, <1>15,
     <1>16, <1>18, <1>19, <1>20, <1>21 DEF Next, Server

LEMMA StoppedStays == LoopOK /\ closing \in [Clients -> BOOLEAN] /\ stopped \in BOOLEAN /\ [Next]_vars
                        => stopped' \in BOOLEAN
<1> SUFFICES ASSUME LoopOK, closing \in [Clients -> BOOLEAN], stopped \in BOOLEAN, [Next]_vars
             PROVE  stopped' \in BOOLEAN
  OBVIOUS
<1>1. ASSUME Asks, NEW message, Answer(message) PROVE stopped' \in BOOLEAN
  <2>1. serving \in Clients
    BY <1>1 DEF LoopOK, Asks
  <2>2. closing' = [closing EXCEPT ![serving] = @ \/ ~Queued(serving, message).ok]
        /\ stopped' = closing'[serving]
    BY <1>1 DEF Answer, Queue
  <2>3. stopped' = (closing[serving] \/ ~Queued(serving, message).ok)
    BY <2>1, <2>2
  <2> QED
    BY <2>3, Zenon
<1>2. \/ stopped' = stopped \/ stopped' = FALSE \/ stopped' = TRUE
      \/ Asks /\ \E message : Answer(message)
  BY Zenon DEF Next, Server, Connect, Change, Accept, NoMoreToAccept, Poll, Turn, AnswerWithState,
     AnswerPlainly, Reject, Read, HangUp, ReadIsOver, Write, TakeRejection, Flushed, WritePart,
     WriteFails, EndTurn, NextRound, vars, turnVars
<1> QED
  BY <1>1, <1>2, Zenon

(* Requests. *)
LEMMA RequestsStay == LoopOK /\ RequestsOK /\ QueuesOK /\ [Next]_vars => RequestsOK'
<1> SUFFICES ASSUME LoopOK, RequestsOK, QueuesOK, [Next]_vars PROVE RequestsOK'
  OBVIOUS
<1> USE Bounds
<1>1. ASSUME UNCHANGED <<open, lines, rejection, asked, receivedVars>> PROVE RequestsOK'
  BY <1>1 DEF RequestsOK, RequestsTyped, RequestsOfOK, receivedVars
<1>2. CASE \/ UNCHANGED vars \/ Connect \/ Change \/ NoMoreToAccept \/ Poll \/ Turn \/ HangUp
           \/ ReadIsOver \/ WriteFails \/ NextRound
  <2>1. UNCHANGED <<open, lines, rejection, asked, receivedVars>>
    BY <1>2 DEF vars, Connect, Change, NoMoreToAccept, Poll, Turn, HangUp, ReadIsOver, WriteFails,
       NextRound, queueVars, listVars
  <2> QED
    BY <1>1, <2>1
<1>3. CASE Accept
  <2>1. open \subseteq open' /\ UNCHANGED <<lines, rejection, asked, refused, answered, best>>
    BY <1>3 DEF Accept, receivedVars
  <2> QED
    BY <2>1 DEF RequestsOK, RequestsTyped, RequestsOfOK
<1>4. ASSUME Asks, UNCHANGED <<rejection, refused>> \/
                   (/\ rejection' = [rejection EXCEPT ![serving] = asked'[serving]]
                    /\ refused' = [refused EXCEPT ![serving] = asked'[serving]])
      PROVE  RequestsOK'
  <2>1. serving \in Clients /\ serving \in open
    BY <1>4 DEF LoopOK, Asks
  <2>2. PICK more \in BOOLEAN :
          /\ more => asked'[serving] < MaxRequests[serving]
          /\ lines' = [lines EXCEPT ![serving] = more]
    BY <1>4 DEF Asks
  <2>3. /\ lines[serving] /\ asked' = [asked EXCEPT ![serving] = @ + 1]
        /\ UNCHANGED <<open, answered, best>>
    BY <1>4 DEF Asks, listVars
  <2>4. asked[serving] \in Nat /\ asked[serving] < MaxRequests[serving]
        /\ asked'[serving] = asked[serving] + 1
    BY <2>1, <2>3 DEF RequestsOK, RequestsTyped, RequestsOfOK
  <2>5. RequestsTyped'
    BY <1>4, <2>1, <2>2, <2>3, <2>4 DEF RequestsOK, RequestsTyped
  <2>6. ASSUME NEW d \in Clients, d = serving PROVE RequestsOfOK(d)'
    <3>1. lines'[d] = more
      BY <2>1, <2>2, <2>6 DEF RequestsOK, RequestsTyped
    <3>2. {asked'[d], refused'[d], answered'[d], rejection'[d]} \subseteq 0..MaxRequests[d]
      BY <1>4, <2>1, <2>3, <2>4, <2>6 DEF RequestsOK, RequestsTyped, RequestsOfOK
    <3>3. lines'[d] => asked'[d] < MaxRequests[d]
      BY <2>2, <2>6, <3>1
    <3>4. d \in open'
      BY <2>1, <2>3, <2>6
    <3> QED
      BY <3>2, <3>3, <3>4 DEF RequestsOfOK
  <2>7. ASSUME NEW d \in Clients, d # serving PROVE RequestsOfOK(d)'
    <3>1. /\ lines'[d] = lines[d] /\ asked'[d] = asked[d] /\ refused'[d] = refused[d]
          /\ answered'[d] = answered[d] /\ rejection'[d] = rejection[d] /\ open' = open
      BY <1>4, <2>2, <2>3, <2>7 DEF RequestsOK, RequestsTyped
    <3> QED
      BY <2>7, <3>1 DEF RequestsOK, RequestsOfOK
  <2> QED
    BY <2>5, <2>6, <2>7 DEF RequestsOK
<1>5. CASE AnswerWithState \/ AnswerPlainly \/ Reject
  BY <1>4, <1>5 DEF AnswerWithState, AnswerPlainly, Reject, Answer
<1>6. CASE Read
  <2>1. serving \in Clients /\ serving \in open
    BY <1>6 DEF LoopOK, Read, MayRead
  <2>2. PICK more \in BOOLEAN :
          /\ more => asked[serving] < MaxRequests[serving]
          /\ lines' = [lines EXCEPT ![serving] = more]
    BY <1>6 DEF Read
  <2>3. UNCHANGED <<open, rejection, asked, refused, answered, best>>
    BY <1>6 DEF Read, listVars, queueVars, receivedVars
  <2>4. RequestsTyped'
    BY <2>2, <2>3 DEF RequestsOK, RequestsTyped
  <2>5. ASSUME NEW d \in Clients PROVE RequestsOfOK(d)'
    <3>1. lines'[d] = IF d = serving THEN more ELSE lines[d]
      BY <2>2 DEF RequestsOK, RequestsTyped
    <3>2. lines'[d] => asked[d] < MaxRequests[d]
      BY <2>2, <3>1 DEF RequestsOK, RequestsOfOK
    <3>3. d \notin open => ~lines'[d]
      BY <2>1, <3>1 DEF RequestsOK, RequestsOfOK
    <3> QED
      BY <2>3, <3>2, <3>3 DEF RequestsOK, RequestsOfOK
  <2> QED
    BY <2>4, <2>5 DEF RequestsOK
<1>7. ASSUME NEW c \in Clients, Write(c) PROVE RequestsOK'
  <2>1. c \in open /\ outbound[c] # << >> /\ outbound[c] \in Seq(Message)
    BY <1>7 DEF Write, Flushing, LoopOK, QueuesOK, QueuesTyped
  <2>2. 1 \in DOMAIN outbound[c] /\ Head(outbound[c]) = outbound[c][1]
    BY <2>1
  <2>3. Head(outbound[c]).no \in 0..MaxRequests[c] /\ Head(outbound[c]).revision \in 0..MaxRevision
    <3>1. Head(outbound[c]).no \in 0..MaxRequests[c]
      BY <2>1, <2>2 DEF QueuesOK, QueueOfOK
    <3>2. Head(outbound[c]) \in Message
      BY <2>1
    <3> QED
      BY <3>1, <3>2 DEF Message
  <2>4. /\ answered' = [answered EXCEPT ![c] = IF Head(outbound[c]).event THEN @
                                               ELSE Head(outbound[c]).no]
        /\ best' = [best EXCEPT ![c] = IF Head(outbound[c]).revision > @
                                       THEN Head(outbound[c]).revision ELSE @]
        /\ UNCHANGED <<open, lines, rejection, asked, refused>>
    BY <1>7 DEF Write, listVars
  <2>5. answered'[c] \in {answered[c], Head(outbound[c]).no}
        /\ \A d \in Clients \ {c} : answered'[d] = answered[d]
    BY <2>4 DEF RequestsOK, RequestsTyped
  <2>6. RequestsTyped'
    <3>1. best' \in [Clients -> 0..MaxRevision]
      BY <2>3, <2>4 DEF RequestsOK, RequestsTyped
    <3>2. answered' \in [Clients -> Nat]
      BY <2>3, <2>4, <2>5 DEF RequestsOK, RequestsTyped
    <3> QED
      BY <2>4, <3>1, <3>2 DEF RequestsOK, RequestsTyped
  <2>7. ASSUME NEW d \in Clients PROVE RequestsOfOK(d)'
    BY <2>1, <2>3, <2>4, <2>5 DEF RequestsOK, RequestsOfOK
  <2> QED
    BY <2>6, <2>7 DEF RequestsOK
<1>8. CASE TakeRejection
  <2>1. PICK c \in open : rejection' = [rejection EXCEPT ![c] = 0]
    BY <1>8 DEF TakeRejection
  <2>2. UNCHANGED <<open, lines, asked, refused, answered, best>>
    BY <1>8 DEF TakeRejection, listVars, receivedVars
  <2>3. \A d \in Clients : rejection'[d] \in {rejection[d], 0} /\ (d \notin open => rejection'[d] = rejection[d])
    BY <2>1 DEF RequestsOK, RequestsTyped
  <2>4. RequestsTyped'
    BY <2>1, <2>2 DEF RequestsOK, RequestsTyped
  <2>5. ASSUME NEW d \in Clients PROVE RequestsOfOK(d)'
    BY <2>2, <2>3 DEF RequestsOK, RequestsOfOK
  <2> QED
    BY <2>4, <2>5 DEF RequestsOK
<1>9. ASSUME NEW c \in open, NEW queue, EndTurn(c, queue) PROVE RequestsOK'
  <2>1. CASE Leaves(c)
    <3>1. /\ rejection' = [rejection EXCEPT ![c] = 0] /\ asked' = [asked EXCEPT ![c] = 0]
          /\ refused' = [refused EXCEPT ![c] = 0] /\ answered' = [answered EXCEPT ![c] = 0]
          /\ best' = [best EXCEPT ![c] = 0]
      BY <1>9, <2>1 DEF EndTurn
    <3>4. lines' = [lines EXCEPT ![c] = FALSE] /\ open' = open \ {c}
      BY <1>9, <2>1 DEF EndTurn
    <3>5. lines' \in [Clients -> BOOLEAN] /\ ~lines'[c] /\ \A d \in Clients \ {c} : lines'[d] = lines[d]
      BY <3>4 DEF RequestsOK, RequestsTyped, LoopOK
    <3>2. RequestsTyped'
      <4>1. /\ asked' \in [Clients -> Nat] /\ refused' \in [Clients -> Nat]
            /\ answered' \in [Clients -> Nat] /\ rejection' \in [Clients -> Nat]
            /\ best' \in [Clients -> 0..MaxRevision]
        <5>1. /\ asked \in [Clients -> Nat] /\ refused \in [Clients -> Nat]
              /\ answered \in [Clients -> Nat] /\ rejection \in [Clients -> Nat]
              /\ best \in [Clients -> 0..MaxRevision] /\ 0 \in 0..MaxRevision
          BY DEF RequestsOK, RequestsTyped
        <5> QED
          BY <3>1, <5>1
      <4> QED
        BY <3>5, <4>1 DEF RequestsTyped
    <3>6. ASSUME NEW d \in Clients, d = c PROVE RequestsOfOK(d)'
      <4>1. {asked'[d], refused'[d], answered'[d], rejection'[d]} = {0}
        BY <3>1, <3>6 DEF RequestsOK, RequestsTyped
      <4> QED
        BY <3>5, <3>6, <4>1 DEF RequestsOfOK
    <3>7. ASSUME NEW d \in Clients, d # c PROVE RequestsOfOK(d)'
      <4>1. /\ asked'[d] = asked[d] /\ refused'[d] = refused[d] /\ answered'[d] = answered[d]
            /\ rejection'[d] = rejection[d]
        BY <3>1, <3>7 DEF RequestsOK, RequestsTyped
      <4> QED
        BY <3>4, <3>5, <3>7, <4>1 DEF RequestsOK, RequestsOfOK
    <3>3. ASSUME NEW d \in Clients PROVE RequestsOfOK(d)'
      BY <3>6, <3>7
    <3> QED
      BY <3>2, <3>3 DEF RequestsOK
  <2>2. CASE ~Leaves(c)
    BY <1>1, <1>9, <2>2 DEF EndTurn
  <2> QED
    BY <2>1, <2>2
<1>10. CASE Flushed \/ WritePart
  BY <1>9, <1>10 DEF Flushed, WritePart
<1> QED
  BY <1>2, <1>3, <1>5, <1>6, <1>7, <1>8, <1>10 DEF Next, Server

-----------------------------------------------------------------------------
(* What a step does to the queue of one client. *)
Keeps(c) ==
    /\ outbound'[c] = outbound[c] /\ bytes'[c] = bytes[c]
    /\ closing'[c] = closing[c] \/ (closing'[c] /\ c \in open)
    /\ c \in open' <=> c \in open

Queues(c, message) ==
    /\ message \in Message /\ message.begun = NotBegun /\ message.no \in 0..MaxRequests[c]
    /\ outbound'[c] = Queued(c, message).queue
    /\ bytes'[c] = Queued(c, message).bytes
    /\ closing'[c] <=> closing[c] \/ ~Queued(c, message).ok
    /\ c \in open'

Writes(c) ==
    /\ outbound[c] # << >>
    /\ outbound'[c] = Tail(outbound[c])
    /\ bytes'[c] = bytes[c] - Size(Head(outbound[c]))
    /\ closing'[c] = closing[c]
    /\ c \in open /\ c \in open'

Begins(c) ==
    /\ outbound[c] # << >>
    /\ outbound'[c] = [outbound[c] EXCEPT ![1].begun = outbound[c][1].revision]
    /\ bytes'[c] = bytes[c] /\ closing'[c] = closing[c]
    /\ c \in open /\ c \in open'

Drops(c) ==
    /\ outbound'[c] = << >> /\ bytes'[c] = 0 /\ ~closing'[c]
    /\ c \notin open'

QueueStep(c) ==
    Keeps(c) \/ (\E message : Queues(c, message)) \/ Writes(c) \/ Begins(c) \/ Drops(c)

QueueSteps ==
    /\ DOMAIN outbound' = Clients /\ outbound' = [c \in Clients |-> outbound'[c]]
    /\ bytes' = [c \in Clients |-> bytes'[c]]
    /\ closing' = [c \in Clients |-> closing'[c]] /\ \A c \in Clients : closing'[c] \in BOOLEAN
    /\ \A c \in Clients : QueueStep(c)

LEMMA QueueIsStep ==
    ASSUME QueuesTyped, NEW c \in Clients, NEW message \in Message, message.begun = NotBegun,
           message.no \in 0..MaxRequests[c],
           Queue(c, message), c \in open', \A d \in Clients \ {c} : d \in open' <=> d \in open
    PROVE  QueueSteps /\ Queues(c, message)
<1>1. /\ outbound' = [outbound EXCEPT ![c] = Queued(c, message).queue]
      /\ bytes' = [bytes EXCEPT ![c] = Queued(c, message).bytes]
  BY DEF Queue
<1>2. closing' = [closing EXCEPT ![c] = closing[c] \/ ~Queued(c, message).ok]
  BY DEF Queue
<1>3. /\ DOMAIN outbound = Clients /\ DOMAIN bytes = Clients /\ closing \in [Clients -> BOOLEAN]
  BY DEF QueuesTyped
<1>4. /\ outbound' = [d \in Clients |-> outbound'[d]] /\ DOMAIN outbound' = Clients
      /\ bytes' = [d \in Clients |-> bytes'[d]]
      /\ outbound'[c] = Queued(c, message).queue /\ bytes'[c] = Queued(c, message).bytes
      /\ \A d \in Clients \ {c} : outbound'[d] = outbound[d] /\ bytes'[d] = bytes[d]
  BY <1>1, <1>3
<1>5. (closing[c] \/ ~Queued(c, message).ok) \in BOOLEAN
  BY Zenon
<1>6. /\ closing' = [d \in Clients |-> closing'[d]]
      /\ closing'[c] = (closing[c] \/ ~Queued(c, message).ok)
      /\ \A d \in Clients \ {c} : closing'[d] = closing[d]
  BY <1>2, <1>3
<1>7. \A d \in Clients : closing'[d] \in BOOLEAN
  BY <1>3, <1>5, <1>6
<1>8. closing'[c] <=> closing[c] \/ ~Queued(c, message).ok
  BY <1>6, Zenon
<1>9. Queues(c, message)
  BY <1>4, <1>8 DEF Queues
<1>10. ASSUME NEW d \in Clients \ {c} PROVE Keeps(d)
  BY <1>4, <1>6 DEF Keeps
<1>11. \A d \in Clients : QueueStep(d)
  BY <1>9, <1>10 DEF QueueStep
<1> QED
  BY <1>4, <1>6, <1>7, <1>9, <1>11 DEF QueueSteps

LEMMA QueuesKept ==
    ASSUME QueuesTyped, UNCHANGED <<outbound, bytes, closing>>, UNCHANGED open
    PROVE  QueueSteps
<1>1. ASSUME NEW c \in Clients PROVE Keeps(c)
  BY DEF Keeps
<1> QED
  BY <1>1 DEF QueueSteps, QueueStep, QueuesTyped

LEMMA AnswerQueues ==
    ASSUME Kinds, Asks, NEW message, Answer(message), NEW r \in 0..MaxRevision,
           message = Reply(r, asked'[serving])
    PROVE  QueueSteps /\ Queues(serving, message) /\ serving \in open
<1>1. serving \in Clients /\ serving \in open /\ open' = open
  BY DEF Kinds, LoopOK, Asks, listVars
<1>2. asked'[serving] \in 0..MaxRequests[serving]
  <2>1. lines[serving] /\ asked' = [asked EXCEPT ![serving] = @ + 1]
    BY DEF Asks
  <2>2. RequestsTyped /\ RequestsOfOK(serving)
    BY <1>1 DEF Kinds, RequestsOK
  <2>3. asked[serving] < MaxRequests[serving] /\ asked[serving] \in Nat
        /\ asked'[serving] = asked[serving] + 1
    BY <1>1, <2>1, <2>2 DEF RequestsTyped, RequestsOfOK
  <2> QED
    BY <1>1, <2>3, Bounds
<1>3. message \in Message /\ message.begun = NotBegun /\ message.no \in 0..MaxRequests[serving]
  BY <1>1, <1>2, MessageTypes
<1>4. Queue(serving, message)
  BY DEF Answer
<1>5. QueuesTyped
  BY DEF Kinds, QueuesOK
<1> QED
  BY <1>1, <1>3, <1>4, <1>5, QueueIsStep

LEMMA BroadcastIsMessage ==
    ASSUME Kinds, NEW c \in Clients
    PROVE  Broadcast \in Message /\ Broadcast.begun = NotBegun /\ Broadcast.no \in 0..MaxRequests[c]
           /\ Broadcast.event
<1>1. revision \in 0..MaxRevision /\ 0 \in 0..MaxRequests[c]
  BY Bounds DEF Kinds, LoopOK
<1> QED
  BY <1>1, MessageTypes DEF Broadcast

LEMMA PollQueues ==
    ASSUME Kinds, Poll
    PROVE  QueueSteps
<1>1. open' = open /\ QueuesTyped
  BY DEF Poll, listVars, Kinds, QueuesOK
<1>2. CASE polled \in {0, revision}
  BY <1>1, <1>2, QueuesKept DEF Poll
<1>3. CASE polled \notin {0, revision}
  <2> DEFINE told == { c \in open : ~closing[c] }
  <2>1. /\ outbound' = [c \in Clients |->
                          IF c \in told THEN Queued(c, Broadcast).queue ELSE outbound[c]]
        /\ bytes' = [c \in Clients |-> IF c \in told THEN Queued(c, Broadcast).bytes ELSE bytes[c]]
    BY <1>3 DEF Poll
  <2>2. closing' = [c \in Clients |-> closing[c] \/ (c \in told /\ ~Queued(c, Broadcast).ok)]
    BY <1>3 DEF Poll
  <2>3. \A c \in Clients : closing'[c] = (closing[c] \/ (c \in told /\ ~Queued(c, Broadcast).ok))
    BY <2>2
  <2>4. \A c \in Clients : (closing[c] \/ (c \in told /\ ~Queued(c, Broadcast).ok)) \in BOOLEAN
    BY Zenon
  <2>5. \A c \in Clients : closing'[c] <=> closing[c] \/ (c \in told /\ ~Queued(c, Broadcast).ok)
    BY <2>3, Zenon
  <2>6. ASSUME NEW c \in Clients, c \in told PROVE Queues(c, Broadcast)
    <3>1. closing'[c] <=> closing[c] \/ ~Queued(c, Broadcast).ok
      BY <2>5, <2>6, Zenon
    <3> QED
      BY <1>1, <2>1, <2>6, <3>1, BroadcastIsMessage DEF Queues
  <2>7. ASSUME NEW c \in Clients, c \notin told PROVE Keeps(c)
    <3>1. closing'[c] <=> closing[c]
      BY <2>5, <2>7, Zenon
    <3>2. closing'[c] \in BOOLEAN /\ closing[c] \in BOOLEAN
      BY <1>1, <2>3, <2>4 DEF QueuesTyped
    <3>3. closing'[c] = closing[c]
      BY <3>1, <3>2
    <3> QED
      BY <1>1, <2>1, <2>7, <3>3 DEF Keeps
  <2>8. \A c \in Clients : QueueStep(c)
    BY <2>6, <2>7 DEF QueueStep
  <2>9. \A c \in Clients : closing'[c] \in BOOLEAN
    BY <2>3, <2>4
  <2> QED
    BY <2>1, <2>2, <2>8, <2>9 DEF QueueSteps
<1> QED
  BY <1>2, <1>3

LEMMA EndTurnQueues ==
    ASSUME Kinds, NEW c \in open, NEW queue, EndTurn(c, queue),
           \/ queue = outbound[c]
           \/ outbound[c] # << >> /\ queue = [outbound[c] EXCEPT ![1].begun = outbound[c][1].revision]
    PROVE  QueueSteps
<1>1. QueuesTyped /\ c \in Clients
  BY DEF Kinds, QueuesOK, LoopOK
<1>2. CASE Leaves(c)
  <2>1. open' = open \ {c} /\ outbound' = [outbound EXCEPT ![c] = << >>]
        /\ bytes' = [bytes EXCEPT ![c] = 0]
    BY <1>2 DEF EndTurn
  <2>2. closing' = [closing EXCEPT ![c] = FALSE]
    BY <1>2 DEF EndTurn
  <2>3. \A d \in Clients : closing'[d] \in BOOLEAN /\ (d # c => closing'[d] = closing[d])
    BY <1>1, <2>2 DEF QueuesTyped
  <2>4. closing'[c] = FALSE /\ closing' = [d \in Clients |-> closing'[d]]
    BY <1>1, <2>2 DEF QueuesTyped
  <2>5. Drops(c)
    <3>1. ~closing'[c]
      BY <2>4, Zenon
    <3> QED
      BY <1>1, <2>1, <3>1 DEF Drops, QueuesTyped
  <2>6. ASSUME NEW d \in Clients \ {c} PROVE Keeps(d)
    BY <1>1, <2>1, <2>3 DEF Keeps, QueuesTyped
  <2>7. \A d \in Clients : QueueStep(d)
    BY <2>5, <2>6 DEF QueueStep
  <2> QED
    BY <1>1, <2>1, <2>3, <2>4, <2>7 DEF QueueSteps, QueuesTyped
<1>3. CASE ~Leaves(c)
  <2>1. UNCHANGED <<open, bytes, closing>> /\ outbound' = [outbound EXCEPT ![c] = queue]
    BY <1>3 DEF EndTurn
  <2>2. outbound'[c] = queue /\ \A d \in Clients \ {c} : outbound'[d] = outbound[d]
    BY <1>1, <2>1 DEF QueuesTyped
  <2>3. ASSUME NEW d \in Clients \ {c} PROVE Keeps(d)
    BY <2>1, <2>2 DEF Keeps
  <2>4. Keeps(c) \/ Begins(c)
    BY <2>1, <2>2 DEF Keeps, Begins
  <2>5. \A d \in Clients : QueueStep(d)
    BY <2>3, <2>4 DEF QueueStep
  <2> QED
    BY <1>1, <2>1, <2>5 DEF QueueSteps, QueuesTyped
<1> QED
  BY <1>2, <1>3

LEMMA WriteQueues ==
    ASSUME Kinds, NEW c \in Clients, Write(c)
    PROVE  QueueSteps
<1>1. QueuesTyped /\ c \in open
  BY Bounds DEF Kinds, QueuesOK, LoopOK, Write, Flushing
<1>2. /\ outbound[c] # << >> /\ outbound' = [outbound EXCEPT ![c] = Tail(@)]
      /\ bytes' = [bytes EXCEPT ![c] = @ - Size(Head(outbound[c]))]
      /\ UNCHANGED <<open, closing>>
  BY DEF Write, listVars
<1>3. Writes(c)
  BY <1>1, <1>2 DEF Writes, QueuesTyped
<1>4. ASSUME NEW d \in Clients \ {c} PROVE Keeps(d)
  BY <1>1, <1>2 DEF Keeps, QueuesTyped
<1>5. \A d \in Clients : QueueStep(d)
  BY <1>3, <1>4 DEF QueueStep
<1> QED
  BY <1>1, <1>2, <1>5 DEF QueueSteps, QueuesTyped

LEMMA RejectQueues ==
    ASSUME Kinds, Reject
    PROVE  QueueSteps
<1>1. QueuesTyped /\ serving \in open /\ serving \in Clients
  BY DEF Kinds, QueuesOK, LoopOK, Reject, Asks
<1>2. UNCHANGED <<open, outbound, bytes>>
  BY DEF Reject, Asks, listVars
<1>3. closing' = [closing EXCEPT ![serving] = TRUE]
  BY DEF Reject
<1>4. \A c \in Clients : closing'[c] \in BOOLEAN /\ (c # serving => closing'[c] = closing[c])
  BY <1>1, <1>3 DEF QueuesTyped
<1>5. closing'[serving] = TRUE /\ closing' = [c \in Clients |-> closing'[c]]
  BY <1>1, <1>3 DEF QueuesTyped
<1>6. closing'[serving]
  BY <1>5, Zenon
<1>7. ASSUME NEW c \in Clients PROVE Keeps(c)
  BY <1>1, <1>2, <1>4, <1>6 DEF Keeps
<1> QED
  BY <1>1, <1>2, <1>4, <1>5, <1>7 DEF QueueSteps, QueueStep, QueuesTyped

LEMMA AcceptQueues ==
    ASSUME Kinds, NEW c \in backlog, open' = open \cup {c}, Queue(c, Reply(revision, 0))
    PROVE  c \in Clients \ open /\ QueueSteps /\ Queues(c, Reply(revision, 0))
<1>1. QueuesTyped /\ c \in Clients \ open /\ revision \in 0..MaxRevision /\ 0 \in 0..MaxRequests[c]
  BY Bounds DEF Kinds, QueuesOK, LoopOK
<1>2. Reply(revision, 0) \in Message /\ Reply(revision, 0).begun = NotBegun
      /\ Reply(revision, 0).no \in 0..MaxRequests[c]
  BY <1>1, MessageTypes
<1> QED
  BY <1>1, <1>2, QueueIsStep

LEMMA RejectionQueues ==
    ASSUME Kinds, NEW c \in open, open' = open, Queue(c, Reply(0, rejection[c]))
    PROVE  c \in Clients /\ QueueSteps /\ Queues(c, Reply(0, rejection[c]))
<1>1. QueuesTyped /\ c \in Clients /\ 0 \in 0..MaxRevision /\ rejection[c] \in 0..MaxRequests[c]
  BY Bounds DEF Kinds, QueuesOK, LoopOK, RequestsOK, RequestsOfOK
<1>2. Reply(0, rejection[c]) \in Message /\ Reply(0, rejection[c]).begun = NotBegun
      /\ Reply(0, rejection[c]).no \in 0..MaxRequests[c]
  BY <1>1, MessageTypes
<1> QED
  BY <1>1, <1>2, QueueIsStep

LEMMA StepsAreQueueSteps ==
    ASSUME Kinds, [Next]_vars
    PROVE  QueueSteps
<1>1. QueuesTyped
  BY DEF Kinds, QueuesOK
<1>2. CASE \/ UNCHANGED vars \/ Connect \/ Change \/ NoMoreToAccept \/ Turn \/ Read \/ HangUp
           \/ ReadIsOver \/ WriteFails \/ NextRound
  <2>1. UNCHANGED <<outbound, bytes, closing>> /\ UNCHANGED open
    BY <1>2 DEF vars, Connect, Change, NoMoreToAccept, Turn, Read, HangUp, ReadIsOver, WriteFails,
       NextRound, queueVars, listVars
  <2> QED
    BY <1>1, <2>1, QueuesKept
<1>3. CASE Accept
  BY <1>3, AcceptQueues DEF Accept
<1>4. CASE AnswerWithState
  <2>1. Answer(Reply(revision', asked'[serving])) /\ Asks /\ revision' \in 0..MaxRevision
    BY <1>4, Bounds DEF AnswerWithState
  <2> QED
    BY <2>1, AnswerQueues
<1>5. CASE AnswerPlainly
  <2>1. Answer(Reply(0, asked'[serving])) /\ Asks /\ 0 \in 0..MaxRevision
    BY <1>5, Bounds DEF AnswerPlainly
  <2> QED
    BY <2>1, AnswerQueues
<1>6. CASE TakeRejection
  BY <1>6, RejectionQueues DEF TakeRejection, listVars
<1>7. CASE Flushed \/ WritePart
  BY <1>7, EndTurnQueues DEF Flushed, WritePart
<1> QED
  BY <1>2, <1>3, <1>4, <1>5, <1>6, <1>7, PollQueues, RejectQueues, WriteQueues DEF Next, Server

-----------------------------------------------------------------------------
(* What a queue is stays so. *)
Fit(c, queue, count) ==
    /\ queue \in Seq(Message) /\ count \in Nat
    /\ OthersWait(queue) /\ count = Total(queue)
    /\ \A i \in DOMAIN queue : queue[i].no \in 0..MaxRequests[c]

LEMMA FitNow ==
    ASSUME QueuesOK, NEW c \in Clients
    PROVE  Fit(c, outbound[c], bytes[c])
  BY DEF QueuesOK, QueuesTyped, QueueOfOK, Fit

LEMMA FitAppended ==
    ASSUME NEW c \in Clients, NEW queue, NEW count, Fit(c, queue, count),
           NEW message \in Message, message.begun = NotBegun, message.no \in 0..MaxRequests[c]
    PROVE  Fit(c, Append(queue, message), count + Size(message))
<1> DEFINE new == Append(queue, message)
<1>1. queue \in Seq(Message) /\ Size(message) \in Nat
  BY SizeTyped, ServerAssumption DEF Fit
<1>2. new \in Seq(Message) /\ DOMAIN new = 1..(Len(queue) + 1) /\ DOMAIN queue = 1..Len(queue)
      /\ Len(queue) \in Nat
  BY <1>1
<1>3. /\ \A i \in DOMAIN queue : new[i] = queue[i]
      /\ new[Len(queue) + 1] = message
  BY <1>1
<1>4. Total(new) = Total(queue) + Size(message)
  BY <1>1, TotalAppend
<1> HIDE DEF new
<1>5. \A i \in DOMAIN new : i \in DOMAIN queue \/ i = Len(queue) + 1
  BY <1>2
<1>6. OthersWait(new) /\ \A i \in DOMAIN new : new[i].no \in 0..MaxRequests[c]
  BY <1>3, <1>5 DEF Fit, OthersWait
<1> QED
  BY <1>1, <1>2, <1>4, <1>6 DEF Fit, new

LEMMA FitReplaced ==
    ASSUME NEW c \in Clients, NEW queue, NEW count, Fit(c, queue, count), NEW k \in DOMAIN queue,
           NEW message \in Message, message.begun = NotBegun \/ k = 1,
           message.no \in 0..MaxRequests[c]
    PROVE  Fit(c, [queue EXCEPT ![k] = message], (count - Size(queue[k])) + Size(message))
<1> DEFINE new == [queue EXCEPT ![k] = message]
<1>1. queue \in Seq(Message) /\ count = Total(queue)
  BY DEF Fit
<1>2. new \in Seq(Message) /\ DOMAIN new = DOMAIN queue
  BY <1>1
<1>3. \A i \in DOMAIN queue : new[i] = IF i = k THEN message ELSE queue[i]
  BY <1>1
<1>4. Total(new) = (count - Size(queue[k])) + Size(message)
  BY <1>1, TotalReplace
<1> HIDE DEF new
<1>5. OthersWait(new) /\ \A i \in DOMAIN new : new[i].no \in 0..MaxRequests[c]
  BY <1>2, <1>3 DEF Fit, OthersWait
<1>6. Total(new) \in Nat
  BY <1>2, TotalTyped
<1> QED
  BY <1>2, <1>4, <1>5, <1>6 DEF Fit, new

LEMMA FitTail ==
    ASSUME NEW c \in Clients, NEW queue, NEW count, Fit(c, queue, count), queue # << >>
    PROVE  Fit(c, Tail(queue), count - Size(Head(queue))) /\ Size(Head(queue)) \in Nat
<1> DEFINE new == Tail(queue)
<1>1. queue \in Seq(Message) /\ count = Total(queue)
  BY DEF Fit
<1>2. new \in Seq(Message) /\ DOMAIN new = 1..(Len(queue) - 1) /\ DOMAIN queue = 1..Len(queue)
      /\ Len(queue) \in Nat /\ Head(queue) \in Message
  BY <1>1
<1>3. \A i \in DOMAIN new : new[i] = queue[i + 1] /\ i + 1 \in DOMAIN queue /\ i + 1 # 1
  BY <1>1
<1>4. Total(queue) = Size(Head(queue)) + Total(new)
  BY <1>1, TotalTail
<1> HIDE DEF new
<1>5. OthersWait(new) /\ \A i \in DOMAIN new : new[i].no \in 0..MaxRequests[c]
  BY <1>3 DEF Fit, OthersWait
<1>6. Total(new) \in Nat /\ Size(Head(queue)) \in Nat
  BY <1>2, TotalTyped, SizeTyped, ServerAssumption
<1>7. count - Size(Head(queue)) = Total(new)
  BY <1>1, <1>4, <1>6
<1> QED
  BY <1>2, <1>5, <1>6, <1>7 DEF Fit, new

LEMMA FitBegun ==
    ASSUME NEW c \in Clients, NEW queue, NEW count, Fit(c, queue, count), queue # << >>
    PROVE  Fit(c, [queue EXCEPT ![1].begun = queue[1].revision], count)
<1> DEFINE message == [queue[1] EXCEPT !.begun = queue[1].revision]
<1>1. queue \in Seq(Message) /\ 1 \in DOMAIN queue /\ queue[1] \in Message /\ count \in Nat
  BY DEF Fit
<1>2. queue[1].revision \in 0..NotBegun
  BY <1>1, Bounds DEF Message, NotBegun
<1>3. message \in Message /\ message.no = queue[1].no /\ message.revision = queue[1].revision
  BY <1>1, <1>2 DEF Message
<1>4. Size(message) = Size(queue[1]) /\ Size(message) \in Nat
  <2>1. Size(message) = Size(queue[1])
    BY <1>3 DEF Size
  <2>2. Size(queue[1]) \in 1..QueueLimit
    BY <1>1, SizeTyped
  <2> QED
    BY <2>1, <2>2, Bounds
<1>5. [queue EXCEPT ![1].begun = queue[1].revision] = [queue EXCEPT ![1] = message]
  BY <1>1
<1> HIDE DEF message
<1>6. Fit(c, [queue EXCEPT ![1] = message], (count - Size(queue[1])) + Size(message))
  <2>1. message.no \in 0..MaxRequests[c]
    BY <1>1, <1>3 DEF Fit
  <2> QED
    BY <1>1, <1>3, <2>1, FitReplaced
<1>7. (count - Size(queue[1])) + Size(message) = count
  BY <1>1, <1>4
<1> QED
  BY <1>5, <1>6, <1>7

(* What is queued fits the queue. *)
LEMMA QueuedFits ==
    ASSUME QueuesOK, NEW c \in Clients, NEW message \in Message, message.begun = NotBegun,
           message.no \in 0..MaxRequests[c]
    PROVE  Fit(c, Queued(c, message).queue, Queued(c, message).bytes)
<1>1. Fit(c, outbound[c], bytes[c])
  BY FitNow
<1>2. outbound[c] \in Seq(Message) /\ bytes[c] \in Nat
  BY <1>1 DEF Fit
<1>3. QueuedAs(c, message)
  BY <1>2, QueueingIsAs
<1>4. ASSUME NEW i \in Waiting(c),
             Queued(c, message).queue = [outbound[c] EXCEPT ![i] = message],
             Queued(c, message).bytes = (bytes[c] - Size(outbound[c][i])) + Size(message)
      PROVE  Fit(c, Queued(c, message).queue, Queued(c, message).bytes)
  <2>1. i \in DOMAIN outbound[c]
    BY DEF Waiting
  <2> QED
    BY <1>1, <1>4, <2>1, FitReplaced
<1> QED
  BY <1>1, <1>3, <1>4, FitAppended DEF QueuedAs

LEMMA QueueStays ==
    ASSUME QueuesOK, NEW c \in Clients, QueueStep(c)
    PROVE  /\ Fit(c, outbound'[c], bytes'[c])
           /\ bytes'[c] > QueueLimit => closing'[c]
           /\ c \notin open' => outbound'[c] = << >> /\ ~closing'[c]
<1>1. Fit(c, outbound[c], bytes[c]) /\ (bytes[c] > QueueLimit => closing[c])
      /\ (c \notin open => outbound[c] = << >> /\ ~closing[c])
  BY FitNow DEF QueuesOK, QueueOfOK
<1>2. outbound[c] \in Seq(Message) /\ bytes[c] \in Nat /\ QueueLimit \in Nat
  BY <1>1, Bounds DEF Fit
<1>3. CASE Keeps(c)
  BY <1>1, <1>3 DEF Keeps
<1>4. ASSUME NEW message, Queues(c, message)
      PROVE  /\ Fit(c, outbound'[c], bytes'[c])
             /\ bytes'[c] > QueueLimit => closing'[c]
             /\ c \in open'
  <2>1. /\ message \in Message /\ message.begun = NotBegun /\ message.no \in 0..MaxRequests[c]
        /\ outbound'[c] = Queued(c, message).queue /\ bytes'[c] = Queued(c, message).bytes
        /\ closing'[c] <=> closing[c] \/ ~Queued(c, message).ok
        /\ c \in open'
    BY <1>4 DEF Queues
  <2>2. Queued(c, message).bytes > QueueLimit => ~Queued(c, message).ok \/ bytes[c] > QueueLimit
    BY <1>2, <2>1, QueueingIsAs
  <2>3. Fit(c, Queued(c, message).queue, Queued(c, message).bytes)
    BY <2>1, QueuedFits
  <2> QED
    BY <1>1, <2>1, <2>2, <2>3
<1>5. CASE Writes(c)
  <2>1. Fit(c, outbound'[c], bytes'[c]) /\ Size(Head(outbound[c])) \in Nat
    BY <1>1, <1>5, FitTail DEF Writes
  <2>2. bytes'[c] > QueueLimit => bytes[c] > QueueLimit
    BY <1>2, <1>5, <2>1 DEF Writes
  <2> QED
    BY <1>1, <1>5, <2>1, <2>2 DEF Writes
<1>6. CASE Begins(c)
  BY <1>1, <1>6, FitBegun DEF Begins
<1>7. CASE Drops(c)
  <2>1. /\ outbound'[c] = << >> /\ bytes'[c] = 0 /\ ~closing'[c]
    BY <1>7 DEF Drops
  <2>2. outbound'[c] \in Seq(Message) /\ DOMAIN outbound'[c] = {}
    BY <2>1
  <2>3. Total(outbound'[c]) = 0
    BY <2>1, <2>2, TotalOfNone
  <2>4. Fit(c, outbound'[c], bytes'[c])
    BY <2>1, <2>2, <2>3 DEF Fit, OthersWait
  <2> QED
    BY <1>2, <2>1, <2>4
<1> QED
  BY <1>3, <1>4, <1>5, <1>6, <1>7 DEF QueueStep

LEMMA QueuesStay == Kinds /\ [Next]_vars => QueuesOK'
<1> SUFFICES ASSUME Kinds, [Next]_vars PROVE QueuesOK'
  OBVIOUS
<1>1. QueueSteps /\ QueuesOK
  BY StepsAreQueueSteps DEF Kinds
<1>2. ASSUME NEW c \in Clients
      PROVE  /\ Fit(c, outbound'[c], bytes'[c])
             /\ bytes'[c] > QueueLimit => closing'[c]
             /\ c \notin open' => outbound'[c] = << >> /\ ~closing'[c]
  BY <1>1, QueueStays DEF QueueSteps
<1>3. outbound' \in [Clients -> Seq(Message)] /\ bytes' \in [Clients -> Nat]
  BY <1>1, <1>2 DEF QueueSteps, Fit
<1>4. closing' \in [Clients -> BOOLEAN]
  BY <1>1 DEF QueueSteps
<1>5. QueuesTyped'
  BY <1>3, <1>4 DEF QueuesTyped
<1>6. ASSUME NEW c \in Clients PROVE QueueOfOK(c)'
  BY <1>2 DEF QueueOfOK, Fit, Total, OthersWait, Size
<1> QED
  BY <1>5, <1>6 DEF QueuesOK

(* Every variable holds a value of its kind, the bytes counted for a client *)
(* (outbound_bytes) are those in its queue however its events were replaced *)
(* and its messages written, and a queue beyond its limit is being closed.  *)
THEOREM TypeCorrect == Spec => []TypeOK
<1>1. Kinds /\ [Next]_vars => Kinds'
  BY LoopStays, StoppedStays, RequestsStay, QueuesStay DEF Kinds, QueuesOK, QueuesTyped
<1> QED
  BY <1>1, KindsAtStart, KindsAreTypes, PTL DEF Spec

-----------------------------------------------------------------------------
(* What a client that is to be closed is still owed: the refusal waits to  *)
(* be queued, is the last message of the queue, or has been received, and  *)
(* once it is no longer waiting nothing more is asked of that client.      *)
LastTells(queue, no) ==
    queue # << >> /\ ~queue[Len(queue)].event /\ queue[Len(queue)].no = no

Told(c) ==
    /\ rejection[c] = 0
    /\ serving = c => part = "flush"
    /\ (outbound[c] = << >> /\ answered[c] = refused[c]) \/ LastTells(outbound[c], refused[c])

Owed(c) ==
    /\ closing[c] /\ serving = c /\ part # "flush" => rejection[c] # 0 \/ outbound[c] # << >>
    /\ rejection[c] # 0 => closing[c]
    /\ refused[c] # 0 => closing[c] /\ (rejection[c] = refused[c] \/ Told(c))

OwedOK == \A c \in Clients : Owed(c)

(* Nothing of it changes. *)
SameOf(c) ==
    /\ outbound'[c] = outbound[c] /\ rejection'[c] = rejection[c] /\ refused'[c] = refused[c]
    /\ answered'[c] = answered[c]

LEMMA OwedKept ==
    ASSUME NEW c \in Clients, Owed(c), SameOf(c), closing'[c] = closing[c],
           serving' = c /\ part' # "flush" => (serving = c /\ part # "flush") \/ ~closing[c]
    PROVE  Owed(c)'
  BY DEF Owed, Told, LastTells, SameOf

LEMMA AppendTells ==
    ASSUME NEW queue \in Seq(Message), queue # << >>
    PROVE  /\ Tail(queue) = << >> => Head(queue) = queue[Len(queue)]
           /\ Tail(queue) # << >> => Tail(queue)[Len(Tail(queue))] = queue[Len(queue)]
<1>1. Tail(queue) \in Seq(Message) /\ Len(Tail(queue)) = Len(queue) - 1 /\ Len(queue) \in Nat
      /\ Len(queue) # 0 /\ Head(queue) = queue[1]
  OBVIOUS
<1>2. CASE Tail(queue) = << >>
  <2>1. Len(<< >>) = 0
    OBVIOUS
  <2>2. Len(Tail(queue)) = 0
    BY ONLY <1>2, <2>1, Zenon
  <2> DEFINE n == Len(queue)
             t == Len(Tail(queue))
  <2>3. t = n - 1 /\ n \in Nat /\ t = 0
    BY <1>1, <2>2
  <2> HIDE DEF n, t
  <2>4. n = 1
    BY ONLY <2>3
  <2> QED
    BY ONLY <1>1, <1>2, <2>4, Zenon DEF n
<1>3. CASE Tail(queue) # << >>
  <2>1. Len(Tail(queue)) # 0
    BY <1>1, <1>3
  <2>2. Len(queue) - 1 \in 1..Len(Tail(queue))
    BY <1>1, <2>1
  <2>3. Tail(queue)[Len(queue) - 1] = queue[(Len(queue) - 1) + 1]
    BY <2>2
  <2> QED
    BY <1>1, <1>3, <2>3
<1> QED
  BY <1>2, <1>3

LEMMA OwedWritten ==
    ASSUME Kinds, OwedOK, NEW c \in Clients, Write(c), NEW d \in Clients
    PROVE  Owed(d)'
<1>1. QueuesTyped /\ RequestsTyped /\ c \in open /\ Owed(d)
  BY Bounds DEF Kinds, QueuesOK, RequestsOK, LoopOK, Write, Flushing, OwedOK
<1>2. /\ outbound[c] # << >> /\ outbound' = [outbound EXCEPT ![c] = Tail(@)]
      /\ answered' = [answered EXCEPT ![c] = IF Head(outbound[c]).event THEN @
                                             ELSE Head(outbound[c]).no]
      /\ serving = c /\ part = "flush"
      /\ UNCHANGED <<closing, rejection, refused, serving, part>>
  BY DEF Write, Flushing, loopVars, turnVars
<1>3. CASE d # c
  <2>1. SameOf(d)
    BY <1>1, <1>2, <1>3 DEF SameOf, QueuesTyped, RequestsTyped
  <2> QED
    BY <1>1, <1>2, <2>1, OwedKept
<1>4. CASE d = c
  <2>1. outbound'[c] = Tail(outbound[c]) /\ outbound[c] \in Seq(Message)
    BY <1>1, <1>2 DEF QueuesTyped
  <2>2. ~Head(outbound[c]).event => answered'[c] = Head(outbound[c]).no
    BY <1>1, <1>2 DEF RequestsTyped
  <2>3. /\ Tail(outbound[c]) = << >> => Head(outbound[c]) = outbound[c][Len(outbound[c])]
        /\ Tail(outbound[c]) # << >>
             => Tail(outbound[c])[Len(Tail(outbound[c]))] = outbound[c][Len(outbound[c])]
    BY <1>2, <2>1, AppendTells
  <2>4. LastTells(outbound[c], refused[c]) =>
          (outbound'[c] = << >> /\ answered'[c] = refused[c]) \/ LastTells(outbound'[c], refused[c])
    BY <2>1, <2>2, <2>3 DEF LastTells
  <2>5. Told(c) => Told(c)'
    BY <1>2, <2>4 DEF Told, LastTells
  <2> QED
    BY <1>1, <1>2, <1>4, <2>5 DEF Owed, Told, LastTells
<1> QED
  BY <1>3, <1>4

LEMMA OwedAnswered ==
    ASSUME Kinds, OwedOK, Asks, NEW message, Answer(message), NEW r \in 0..MaxRevision,
           message = Reply(r, asked'[serving]), NEW d \in Clients
    PROVE  Owed(d)'
<1>1. QueuesTyped /\ RequestsTyped /\ Owed(d) /\ QueueSteps /\ Queues(serving, message)
      /\ serving \in open /\ serving \in Clients /\ QueuesOK
  BY AnswerQueues DEF Kinds, QueuesOK, RequestsOK, LoopOK, OwedOK
<1>2. UNCHANGED <<rejection, refused, answered, serving, part>> /\ part # "flush"
  BY DEF Asks, Answer, loopVars
<1>3. /\ outbound' = [outbound EXCEPT ![serving] = Queued(serving, message).queue]
      /\ closing' = [closing EXCEPT ![serving] = @ \/ ~Queued(serving, message).ok]
  BY DEF Answer, Queue
<1>4. CASE d # serving
  <2>1. SameOf(d) /\ closing'[d] = closing[d]
    BY <1>1, <1>2, <1>3, <1>4 DEF SameOf, QueuesTyped
  <2> QED
    BY <1>1, <1>2, <1>4, <2>1, OwedKept
<1>5. CASE d = serving
  <2>1. /\ message \in Message /\ message.begun = NotBegun
        /\ outbound'[d] = Queued(d, message).queue
        /\ closing'[d] <=> closing[d] \/ ~Queued(d, message).ok
    BY <1>1, <1>5 DEF Queues
  <2>2. outbound[d] \in Seq(Message) /\ bytes[d] \in Nat /\ bytes[d] = Total(outbound[d])
    BY <1>1 DEF QueuesOK, QueuesTyped, QueueOfOK
  <2>3. QueuedAs(d, message)
    BY <2>1, <2>2, QueueingIsAs
  <2>4. outbound'[d] # << >>
    <3>1. CASE Queued(d, message).queue = Append(outbound[d], message)
      BY <2>1, <2>2, <3>1
    <3>2. CASE bytes[d] + Size(message) > QueueLimit /\ Queued(d, message).queue = outbound[d]
      <4>1. ASSUME outbound[d] = << >> PROVE FALSE
        <5>1. bytes[d] = 0
          BY <2>2, <4>1, TotalOfNone
        <5>2. Size(message) \in 1..QueueLimit
          BY <2>1, SizeTyped
        <5> QED
          BY <3>2, <5>1, <5>2, Bounds
      <4> QED
        BY <2>1, <3>2, <4>1
    <3>3. ASSUME NEW i \in Waiting(d), Queued(d, message).queue = [outbound[d] EXCEPT ![i] = message]
          PROVE  outbound'[d] # << >>
      <4>1. i \in DOMAIN outbound[d] /\ DOMAIN outbound'[d] = DOMAIN outbound[d]
        BY <2>1, <2>2, <3>3 DEF Waiting
      <4> QED
        BY <4>1
    <3> QED
      BY <2>3, <3>1, <3>2, <3>3 DEF QueuedAs
  <2>5. ~Told(d)
    BY <1>2, <1>5 DEF Told
  <2> QED
    BY <1>1, <1>2, <2>1, <2>4, <2>5 DEF Owed
<1> QED
  BY <1>4, <1>5

LEMMA OwedRejection ==
    ASSUME Kinds, OwedOK, NEW c \in open, Flushing(c), outbound[c] = << >>, rejection[c] # 0,
           rejection' = [rejection EXCEPT ![c] = 0], Queue(c, Reply(0, rejection[c])),
           UNCHANGED <<open, serving, part, refused, answered>>, NEW d \in Clients
    PROVE  Owed(d)'
<1> DEFINE message == Reply(0, rejection[c])
<1>1. QueuesTyped /\ QueuesOK /\ RequestsTyped /\ Owed(d) /\ Owed(c)
      /\ c \in Clients /\ QueueSteps /\ Queues(c, message) /\ rejection[c] \in 0..MaxRequests[c]
  BY RejectionQueues DEF Kinds, QueuesOK, RequestsOK, RequestsOfOK, LoopOK, OwedOK
<1>2. /\ outbound' = [outbound EXCEPT ![c] = Queued(c, message).queue]
      /\ closing' = [closing EXCEPT ![c] = @ \/ ~Queued(c, message).ok]
  BY DEF Queue
<1>3. CASE d # c
  <2>1. SameOf(d) /\ closing'[d] = closing[d]
    BY <1>1, <1>2, <1>3 DEF SameOf, QueuesTyped, RequestsTyped
  <2> QED
    BY <1>1, <2>1, OwedKept
<1>4. CASE d = c
  <2>1. ~message.event /\ message.no = rejection[c]
    BY <1>1, MessageTypes, Bounds
  <2> HIDE DEF message
  <2>2. /\ message \in Message /\ message.begun = NotBegun
        /\ outbound'[c] = Queued(c, message).queue
        /\ closing'[c] <=> closing[c] \/ ~Queued(c, message).ok
    BY <1>1 DEF Queues
  <2>3. outbound[c] \in Seq(Message) /\ bytes[c] \in Nat /\ bytes[c] = 0
    BY <1>1, TotalOfNone DEF QueuesOK, QueuesTyped, QueueOfOK
  <2>4. QueuedAs(c, message) /\ Size(message) \in 1..QueueLimit
    <3>1. QueuedAs(c, message)
      BY <1>1, <2>2, <2>3, QueueingIsAs DEF QueuesTyped
    <3> QED
      BY <2>2, <3>1, SizeTyped
  <2>5. Queued(c, message).queue = Append(outbound[c], message)
    <3>1. ~(bytes[c] + Size(message) > QueueLimit)
      BY <2>3, <2>4, Bounds
    <3> QED
      BY <2>1, <2>4, <3>1 DEF QueuedAs
  <2>6. outbound'[c] = <<message>>
    BY <2>2, <2>5
  <2>7. rejection'[c] = 0 /\ part = "flush"
    BY <1>1 DEF RequestsTyped, Flushing
  <2>8. LastTells(outbound'[c], rejection[c])
    BY <2>1, <2>6 DEF LastTells
  <2>9. Told(c) => FALSE
    BY DEF Told
  <2>10. refused[c] # 0 => rejection[c] = refused[c] /\ closing'[c]
    BY <1>1, <2>2, <2>9 DEF Owed
  <2>11. refused[c] # 0 => Told(c)'
    BY <2>7, <2>8, <2>10 DEF Told, LastTells
  <2> QED
    BY <1>4, <2>7, <2>10, <2>11 DEF Owed, Told, LastTells
<1> QED
  BY <1>3, <1>4

LEMMA OwedAtTurnEnd ==
    ASSUME Kinds, OwedOK, NEW c \in open, NEW queue, EndTurn(c, queue),
           \/ queue = outbound[c]
           \/ outbound[c] # << >> /\ queue = [outbound[c] EXCEPT ![1].begun = outbound[c][1].revision],
           NEW d \in Clients
    PROVE  Owed(d)'
<1>1. QueuesTyped /\ RequestsTyped /\ c \in Clients /\ Owed(d) /\ serving' = Nobody
      /\ serving' # d
  BY Bounds DEF Kinds, QueuesOK, RequestsOK, LoopOK, OwedOK, EndTurn
<1>2. CASE Leaves(c)
  <2>1. /\ outbound' = [outbound EXCEPT ![c] = << >>] /\ rejection' = [rejection EXCEPT ![c] = 0]
        /\ refused' = [refused EXCEPT ![c] = 0] /\ answered' = [answered EXCEPT ![c] = 0]
    BY <1>2 DEF EndTurn
  <2>2. closing' = [closing EXCEPT ![c] = FALSE]
    BY <1>2 DEF EndTurn
  <2>3. d # c => closing'[d] = closing[d]
    BY <1>1, <2>2 DEF QueuesTyped
  <2>4. CASE d = c
    <3>1. rejection'[d] = 0 /\ refused'[d] = 0
      BY <1>1, <2>1, <2>4 DEF RequestsTyped
    <3> QED
      BY <1>1, <3>1 DEF Owed
  <2>5. CASE d # c
    <3>1. SameOf(d)
      BY <1>1, <2>1, <2>5 DEF SameOf, QueuesTyped, RequestsTyped
    <3> QED
      BY <1>1, <2>3, <2>5, <3>1, OwedKept
  <2> QED
    BY <2>4, <2>5
<1>3. CASE ~Leaves(c)
  <2>1. outbound' = [outbound EXCEPT ![c] = queue]
        /\ UNCHANGED <<closing, rejection, refused, answered>>
    BY <1>3 DEF EndTurn, receivedVars
  <2>2. CASE d # c \/ queue = outbound[c]
    <3>1. SameOf(d)
      BY <1>1, <2>1, <2>2 DEF SameOf, QueuesTyped
    <3> QED
      BY <1>1, <2>1, <3>1, OwedKept
  <2>3. CASE /\ d = c /\ outbound[c] # << >>
             /\ queue = [outbound[c] EXCEPT ![1].begun = outbound[c][1].revision]
    <3> DEFINE last == outbound[c][Len(outbound[c])]
    <3>1. outbound'[d] = queue /\ outbound[c] \in Seq(Message)
      BY <1>1, <2>1, <2>3 DEF QueuesTyped
    <3>2. Len(queue) = Len(outbound[c]) /\ Len(outbound[c]) \in DOMAIN outbound[c]
          /\ 1 \in DOMAIN outbound[c] /\ queue # << >>
      BY <2>3, <3>1
    <3>3. queue[Len(queue)] = last \/ queue[Len(queue)] = [last EXCEPT !.begun = last.revision]
      BY <2>3, <3>1, <3>2
    <3>4. last \in Message
      BY <3>1, <3>2
    <3> HIDE DEF last
    <3>5. queue[Len(queue)].event = last.event /\ queue[Len(queue)].no = last.no
      BY <3>3, <3>4 DEF Message
    <3>6. LastTells(outbound[c], refused[c]) => LastTells(queue, refused[c])
      BY <3>2, <3>5 DEF LastTells, last
    <3>7. Told(c) => Told(c)'
      BY <1>1, <2>1, <2>3, <3>1, <3>6 DEF Told, LastTells
    <3> QED
      BY <1>1, <2>1, <2>3, <3>7 DEF Owed, Told, LastTells
  <2> QED
    BY <2>2, <2>3
<1> QED
  BY <1>2, <1>3

LEMMA OwedStays ==
    ASSUME Kinds, OwedOK, [Next]_vars, NEW d \in Clients
    PROVE  Owed(d)'
<1>1. QueuesTyped /\ QueuesOK /\ RequestsTyped /\ RequestsOK /\ Owed(d) /\ LoopOK
  BY DEF Kinds, QueuesOK, RequestsOK, OwedOK
<1>2. ASSUME UNCHANGED <<outbound, closing, rejection, refused, answered>>,
             serving' = d /\ part' # "flush" => (serving = d /\ part # "flush") \/ ~closing[d]
      PROVE  Owed(d)'
  BY <1>1, <1>2, OwedKept DEF SameOf
<1>3. CASE \/ UNCHANGED vars \/ Connect \/ Change \/ NoMoreToAccept \/ HangUp \/ ReadIsOver
           \/ WriteFails \/ NextRound \/ Read
  <2>1. UNCHANGED <<outbound, closing, rejection, refused, answered>>
    BY <1>3 DEF vars, Connect, Change, NoMoreToAccept, Read, HangUp, ReadIsOver, WriteFails,
       NextRound, queueVars, receivedVars
  <2>2. serving' = serving /\ (part' # "flush" => part # "flush")
    BY <1>3 DEF vars, Connect, Change, NoMoreToAccept, Read, MayRead, HangUp, ReadIsOver, WriteFails,
       NextRound, loopVars, turnVars
  <2> QED
    BY <1>2, <2>1, <2>2
<1>4. CASE Turn
  <2>1. PICK c \in todo : serving' = c /\ part' = IF closing[c] THEN "flush" ELSE "first"
    BY <1>4 DEF Turn
  <2>2. UNCHANGED <<outbound, closing, rejection, refused, answered>>
    BY <1>4 DEF Turn, queueVars, receivedVars
  <2> QED
    BY <1>2, <2>1, <2>2
<1>5. CASE Accept
  <2>1. PICK c \in backlog : /\ stage = "accept" /\ open' = open \cup {c}
                             /\ Queue(c, Reply(revision, 0))
                             /\ UNCHANGED <<rejection, refused, answered, serving, part>>
    BY <1>5 DEF Accept, loopVars, turnVars, receivedVars
  <2>2. c \in Clients \ open /\ serving = Nobody /\ Nobody \notin Clients
    BY <1>1, <2>1, AcceptQueues, Bounds DEF LoopOK
  <2>3. CASE d = c
    <3>1. rejection[d] = 0 /\ refused[d] = 0
      BY <1>1, <2>2, <2>3 DEF RequestsOK, RequestsOfOK
    <3> QED
      BY <2>1, <2>2, <3>1 DEF Owed
  <2>4. CASE d # c
    <3>1. SameOf(d) /\ closing'[d] = closing[d]
      BY <1>1, <2>1, <2>4 DEF SameOf, Queue, QueuesTyped
    <3> QED
      BY <1>1, <2>1, <3>1, OwedKept
  <2> QED
    BY <2>3, <2>4
<1>6. CASE Poll
  <2>1. UNCHANGED <<rejection, refused, answered, serving, part>> /\ serving = Nobody
        /\ Nobody \notin Clients
    BY <1>1, <1>6, Bounds DEF Poll, receivedVars, turnVars, LoopOK
  <2>2. CASE polled \in {0, revision}
    BY <1>2, <1>6, <2>1, <2>2 DEF Poll
  <2>3. CASE polled \notin {0, revision} /\ ~closing[d]
    BY <1>1, <2>1, <2>3 DEF Owed
  <2>4. CASE polled \notin {0, revision} /\ closing[d]
    <3>1. outbound'[d] = outbound[d]
      BY <1>6, <2>4 DEF Poll
    <3>2. closing'[d] = (closing[d] \/ (d \in { c \in open : ~closing[c] } /\ ~Queued(d, Broadcast).ok))
      BY <1>6, <2>4 DEF Poll
    <3>3. closing'[d]
      BY <2>4, <3>2, Zenon
    <3> QED
      BY <1>1, <2>1, <3>1, <3>3 DEF Owed, Told, LastTells
  <2> QED
    BY <2>2, <2>3, <2>4
<1>7. CASE AnswerWithState
  <2>1. Answer(Reply(revision', asked'[serving])) /\ Asks /\ revision' \in 0..MaxRevision
    BY <1>7, Bounds DEF AnswerWithState
  <2> QED
    BY <2>1, OwedAnswered
<1>8. CASE AnswerPlainly
  <2>1. Answer(Reply(0, asked'[serving])) /\ Asks /\ 0 \in 0..MaxRevision
    BY <1>8, Bounds DEF AnswerPlainly
  <2> QED
    BY <2>1, OwedAnswered
<1>9. CASE Reject
  <2>1. /\ serving \in Clients /\ asked' = [asked EXCEPT ![serving] = @ + 1]
        /\ UNCHANGED <<serving, part, answered, outbound>>
        /\ rejection' = [rejection EXCEPT ![serving] = asked'[serving]]
        /\ refused' = [refused EXCEPT ![serving] = asked'[serving]]
    BY <1>1, <1>9 DEF Reject, Asks, loopVars, LoopOK
  <2>2. closing' = [closing EXCEPT ![serving] = TRUE]
    BY <1>9 DEF Reject
  <2>3. CASE d = serving
    <3>1. asked'[d] = asked[d] + 1 /\ asked[d] \in Nat
      BY <1>1, <2>1, <2>3 DEF RequestsTyped
    <3>2. rejection'[d] = asked'[d] /\ refused'[d] = asked'[d]
      BY <1>1, <2>1, <2>3 DEF RequestsTyped
    <3>3. closing'[d] = TRUE
      BY <1>1, <2>2, <2>3 DEF QueuesTyped
    <3>4. closing'[d]
      BY <3>3, Zenon
    <3>5. rejection'[d] # 0 /\ rejection'[d] = refused'[d]
      BY <3>1, <3>2
    <3> QED
      BY <3>4, <3>5 DEF Owed
  <2>4. CASE d # serving
    <3>1. SameOf(d)
      BY <1>1, <2>1, <2>4 DEF SameOf, RequestsTyped
    <3>2. closing'[d] = closing[d]
      BY <1>1, <2>2, <2>4 DEF QueuesTyped
    <3> QED
      BY <1>1, <2>1, <3>1, <3>2, OwedKept
  <2> QED
    BY <2>3, <2>4
<1>10. CASE TakeRejection
  BY <1>10, OwedRejection DEF TakeRejection, listVars, loopVars, turnVars, receivedVars
<1>11. CASE Flushed \/ WritePart
  BY <1>11, OwedAtTurnEnd DEF Flushed, WritePart
<1> QED
  BY <1>3, <1>4, <1>5, <1>6, <1>7, <1>8, <1>9, <1>10, <1>11, OwedWritten DEF Next, Server

LEMMA OwedAtStart == Init => OwedOK
  BY DEF Init, OwedOK, Owed

KindsOwed == Kinds /\ OwedOK

LEMMA KindsOwedAlways == Spec => []KindsOwed
<1>1. Kinds /\ [Next]_vars => Kinds'
  BY LoopStays, StoppedStays, RequestsStay, QueuesStay DEF Kinds, QueuesOK, QueuesTyped
<1>2. Kinds /\ OwedOK /\ [Next]_vars => OwedOK'
  BY OwedStays DEF OwedOK
<1>3. Init => KindsOwed
  BY KindsAtStart, OwedAtStart DEF KindsOwed
<1>4. KindsOwed /\ [Next]_vars => KindsOwed'
  BY <1>1, <1>2 DEF KindsOwed
<1> QED
  BY <1>3, <1>4, PTL DEF Spec

(* A client that was refused or overflowed its queue (closing) gets what    *)
(* was queued, a refusal last of all, before retain drops it; only one that *)
(* hangs up or breaks leaves anything behind.                               *)
THEOREM ClosedClientsHaveAll == Spec => ClosedAfterOutput
<1>1. ASSUME KindsOwed, [Next]_vars, NEW c \in open \ open', lost = "none"
      PROVE  outbound[c] = << >> /\ refused[c] \in {0, answered[c]}
  <2>1. LoopOK /\ Owed(c) /\ c \in Clients
    BY <1>1 DEF KindsOwed, Kinds, OwedOK, LoopOK
  <2>2. open \subseteq open' \/ Flushed \/ WritePart
    BY <1>1 DEF Next, Server, Connect, Change, Accept, NoMoreToAccept, Poll, Turn, AnswerWithState,
       AnswerPlainly, Reject, Asks, Read, HangUp, ReadIsOver, Write, TakeRejection, WriteFails,
       NextRound, vars, listVars
  <2>3. PICK b, queue : b \in open /\ EndTurn(b, queue)
    BY <1>1, <2>2 DEF Flushed, WritePart
  <2>4. open' = open \ {b} /\ Leaves(b)
    BY <1>1, <2>3 DEF EndTurn
  <2>5. b = c
    BY <1>1, <2>4
  <2>6. outbound[c] = << >> /\ rejection[c] = 0
    BY <1>1, <2>4, <2>5 DEF Leaves
  <2> QED
    BY <2>1, <2>6 DEF Owed, Told, LastTells
<1>2. KindsOwed /\ [Next]_vars =>
        [\A c \in open \ open' :
           lost = "none" => outbound[c] = << >> /\ refused[c] \in {0, answered[c]}]_vars
  BY <1>1
<1> QED
  BY <1>2, KindsOwedAlways, PTL DEF Spec, ClosedAfterOutput

-----------------------------------------------------------------------------
(* The feed, as the server's queues show it. *)
SentIn(queue) == [i \in DOMAIN queue |-> Sent(queue[i])]
Started(queue) == queue # << >> /\ queue[1].begun # NotBegun

SentMessage == [event : BOOLEAN, revision : 0..MaxRevision, tag : Numbers]

LEMMA SentTyped == ASSUME NEW m \in Message PROVE Sent(m) \in SentMessage
  BY DEF Message, Sent, SentMessage

LEMMA SentLength ==
    ASSUME NEW queue \in Seq(Message)
    PROVE  /\ SentIn(queue) \in Seq(SentMessage) /\ Len(SentIn(queue)) = Len(queue)
           /\ \A i \in 1..Len(queue) : SentIn(queue)[i] = Sent(queue[i])
<1>1. DOMAIN queue = 1..Len(queue) /\ Len(queue) \in Nat
  OBVIOUS
<1>2. ASSUME NEW i \in 1..Len(queue) PROVE Sent(queue[i]) \in SentMessage
  BY SentTyped
<1>3. SentIn(queue) = [i \in 1..Len(queue) |-> Sent(queue[i])]
  BY <1>1 DEF SentIn
<1>4. [i \in 1..Len(queue) |-> Sent(queue[i])] \in [1..Len(queue) -> SentMessage]
  BY <1>2
<1> QED
  BY <1>1, <1>3, <1>4

LEMMA SentOfNone ==
    ASSUME NEW queue \in Seq(Message)
    PROVE  SentIn(queue) = << >> <=> queue = << >>
  BY SentLength

LEMMA SentAppended ==
    ASSUME NEW queue \in Seq(Message), NEW m \in Message
    PROVE  /\ SentIn(Append(queue, m)) = Append(SentIn(queue), Sent(m))
           /\ queue # << >> => Append(queue, m)[1] = queue[1]
           /\ queue = << >> => Append(queue, m)[1] = m
<1> DEFINE new == Append(queue, m)
           sent == Append(SentIn(queue), Sent(m))
<1>1. new \in Seq(Message) /\ Len(new) = Len(queue) + 1 /\ Len(queue) \in Nat
      /\ new[Len(queue) + 1] = m /\ \A i \in 1..Len(queue) : new[i] = queue[i]
  OBVIOUS
<1>2. SentIn(queue) \in Seq(SentMessage) /\ Len(SentIn(queue)) = Len(queue)
      /\ Sent(m) \in SentMessage
  BY SentLength, SentTyped
<1>3. sent \in Seq(SentMessage) /\ Len(sent) = Len(queue) + 1 /\ sent[Len(queue) + 1] = Sent(m)
      /\ \A i \in 1..Len(queue) : sent[i] = SentIn(queue)[i]
  BY <1>2
<1> HIDE DEF new, sent
<1>4. ASSUME NEW i \in 1..Len(SentIn(new)) PROVE SentIn(new)[i] = sent[i]
  <2>1. i \in 1..Len(new) /\ SentIn(new)[i] = Sent(new[i])
    BY <1>1, SentLength
  <2>2. i \in 1..Len(queue) \/ i = Len(queue) + 1
    BY <1>1, <2>1
  <2> QED
    BY <1>1, <1>3, <2>1, <2>2, SentLength
<1>5. SentIn(new) \in Seq(SentMessage) /\ Len(SentIn(new)) = Len(sent)
  BY <1>1, <1>3, SentLength
<1>6. SentIn(new) = sent
  BY <1>3, <1>4, <1>5, SeqEqual
<1>7. queue # << >> => new[1] = queue[1]
  BY <1>1
<1>8. queue = << >> => new[1] = m
  BY <1>1
<1> QED
  BY <1>6, <1>7, <1>8 DEF new, sent

LEMMA SentTail ==
    ASSUME NEW queue \in Seq(Message), queue # << >>
    PROVE  SentIn(Tail(queue)) = Tail(SentIn(queue))
<1> DEFINE new == Tail(queue)
           sent == Tail(SentIn(queue))
<1>1. new \in Seq(Message) /\ Len(new) = Len(queue) - 1 /\ Len(queue) \in Nat /\ Len(queue) # 0
      /\ \A i \in 1..Len(new) : new[i] = queue[i + 1]
  OBVIOUS
<1>2. SentIn(queue) \in Seq(SentMessage) /\ Len(SentIn(queue)) = Len(queue)
  BY SentLength
<1>3. sent \in Seq(SentMessage) /\ Len(sent) = Len(queue) - 1
      /\ \A i \in 1..Len(sent) : sent[i] = SentIn(queue)[i + 1]
  BY <1>1, <1>2
<1> HIDE DEF new, sent
<1>4. SentIn(new) \in Seq(SentMessage) /\ Len(SentIn(new)) = Len(sent)
  BY <1>1, <1>3, SentLength
<1>5. ASSUME NEW i \in 1..Len(SentIn(new)) PROVE SentIn(new)[i] = sent[i]
  <2>1. i \in 1..Len(new) /\ SentIn(new)[i] = Sent(new[i]) /\ i \in 1..Len(sent)
        /\ i + 1 \in 1..Len(queue)
    BY <1>1, <1>3, <1>4, SentLength
  <2> QED
    BY <1>1, <1>3, <2>1, SentLength
<1>6. SentIn(new) = sent
  BY <1>3, <1>4, <1>5, SeqEqual
<1> QED
  BY <1>6 DEF new, sent

LEMMA SentReplaced ==
    ASSUME NEW queue \in Seq(Message), NEW k \in DOMAIN queue, NEW m \in Message
    PROVE  SentIn([queue EXCEPT ![k] = m]) = [SentIn(queue) EXCEPT ![k] = Sent(m)]
  BY DEF SentIn

LEMMA SentBegun ==
    ASSUME NEW queue \in Seq(Message), queue # << >>
    PROVE  LET marked == [queue EXCEPT ![1].begun = queue[1].revision]
           IN  SentIn(marked) = SentIn(queue) /\ Started(marked)
<1> DEFINE m == [queue[1] EXCEPT !.begun = queue[1].revision]
           marked == [queue EXCEPT ![1] = m]
<1>1. 1 \in DOMAIN queue /\ queue[1] \in Message
  OBVIOUS
<1>2. Sent(m) = Sent(queue[1]) /\ m.begun = queue[1].revision /\ m.begun # NotBegun
  BY <1>1, Bounds DEF Message, Sent
<1> HIDE DEF m
<1>3. marked = [queue EXCEPT ![1].begun = queue[1].revision]
  BY DEF m
<1>4. SentIn(marked) = SentIn(queue)
  BY <1>1, <1>2 DEF SentIn
<1>5. marked[1] = m /\ marked # << >>
  BY <1>1
<1>6. Started(marked)
  BY <1>2, <1>5 DEF Started
<1> QED
  BY <1>3, <1>4, <1>6

Boxes == [c \in Clients |-> SentIn(outbound[c])]
Begun == { c \in open : Started(outbound[c]) }
Ending == { c \in open : closing[c] }
Untold == { c \in open : rejection[c] # 0 }

(* Feed's actions, said of these. *)
LEMMA FeedStutters ==
    ASSUME UNCHANGED <<revision, polled, open, Boxes, Begun, Ending, Untold>>
    PROVE  UNCHANGED Feed!feedVars
  BY DEF Feed!feedVars, Boxes, Begun, Ending, Untold, SentIn, Started

LEMMA FeedJoins ==
    ASSUME NEW c, c \notin open, open' = open \cup {c},
           Boxes' = [Boxes EXCEPT ![c] = <<Feed!ReplyTo(0, revision)>>],
           UNCHANGED <<revision, polled, Begun, Ending, Untold>>
    PROVE  Feed!Join(c)
  BY DEF Feed!Join, Boxes, Begun, Ending, Untold, SentIn, Started

Heard(c) == c \in open /\ (c \in Ending => c \in Untold \/ Boxes[c] # << >>)

LEMMA FeedRefuses ==
    ASSUME NEW c, Heard(c), Ending' = Ending \cup {c}, Untold' = Untold \cup {c},
           UNCHANGED <<revision, polled, open, Boxes, Begun>>
    PROVE  Feed!Refuse(c)
  BY DEF Feed!Refuse, Feed!Listened, Heard, Boxes, Begun, Ending, Untold, SentIn, Started

LEMMA FeedAnswers ==
    ASSUME NEW c, NEW tag, Heard(c), polled # 0,
           revision' \in 1..MaxRevision, revision' >= revision,
           NEW carried \in {0, revision'},
           \/ Boxes' = [Boxes EXCEPT ![c] = Append(@, Feed!ReplyTo(tag, carried))] /\ UNCHANGED Ending
           \/ Ending' = Ending \cup {c} /\ UNCHANGED Boxes,
           UNCHANGED <<polled, open, Begun, Untold>>
    PROVE  Feed!Answers(c, tag)
  BY DEF Feed!Answers, Feed!Listened, Heard, Boxes, Begun, Ending, Untold, SentIn, Started

LEMMA FeedTells ==
    ASSUME NEW c \in Untold, NEW tag, Boxes[c] = << >>, Untold' = Untold \ {c},
           Boxes' = [Boxes EXCEPT ![c] = <<Feed!ReplyTo(tag, 0)>>],
           UNCHANGED <<revision, polled, open, Begun, Ending>>
    PROVE  Feed!TellRefusal(c, tag)
  BY DEF Feed!TellRefusal, Boxes, Begun, Ending, Untold, SentIn, Started

LEMMA FeedStarts ==
    ASSUME NEW c \in open, Boxes[c] # << >>, Begun' = Begun \cup {c},
           UNCHANGED <<revision, polled, open, Boxes, Ending, Untold>>
    PROVE  Feed!Start(c)
  BY DEF Feed!Start, Boxes, Begun, Ending, Untold, SentIn, Started

LEMMA FeedDelivers ==
    ASSUME NEW c \in open, Boxes[c] # << >>, Boxes' = [Boxes EXCEPT ![c] = Tail(@)],
           Begun' = Begun \ {c}, UNCHANGED <<revision, polled, open, Ending, Untold>>
    PROVE  Feed!Deliver(c)
  BY DEF Feed!Deliver, Boxes, Begun, Ending, Untold, SentIn, Started

LEMMA FeedLeaves ==
    ASSUME NEW c \in open, open' = open \ {c}, Boxes' = [Boxes EXCEPT ![c] = << >>],
           Begun' = Begun \ {c}, Ending' = Ending \ {c}, Untold' = Untold \ {c},
           UNCHANGED <<revision, polled>>
    PROVE  Feed!Leave(c)
  BY DEF Feed!Leave, Boxes, Begun, Ending, Untold, SentIn, Started

LEMMA FeedAnnounces ==
    ASSUME polled # revision, polled' = revision,
           NEW told, told = IF polled = 0 THEN {} ELSE open \ Ending,
           NEW cut \in SUBSET told, Ending' = Ending \cup cut,
           Boxes' = [c \in Clients |-> IF c \in told /\ (c \in cut => Feed!Replaceable(c) # {})
                                       THEN Feed!WithWord(c) ELSE Boxes[c]],
           UNCHANGED <<revision, open, Begun, Untold>>
    PROVE  Feed!Announce
<1> DEFINE after(t, k) == [c \in Clients |-> IF c \in t /\ (c \in k => Feed!Replaceable(c) # {})
                                             THEN Feed!WithWord(c) ELSE Boxes[c]]
<1>1. LET t == IF polled = 0 THEN {} ELSE open \ Ending
      IN  \E k \in SUBSET t : Ending' = Ending \cup k /\ Boxes' = after(t, k)
  OBVIOUS
<1> QED
  BY <1>1 DEF Feed!Announce, Boxes, Begun, Ending, Untold, SentIn, Started

(* What queueing a message is to the feed. *)
LEMMA QueuedKeepsStart ==
    ASSUME QueuesOK, NEW c \in Clients, NEW message \in Message, message.begun = NotBegun
    PROVE  Started(Queued(c, message).queue) <=> Started(outbound[c])
<1>1. outbound[c] \in Seq(Message) /\ bytes[c] \in Nat
  BY DEF QueuesOK, QueuesTyped
<1>2. QueuedAs(c, message)
  BY <1>1, QueueingIsAs
<1>3. CASE Queued(c, message).queue = Append(outbound[c], message)
  BY <1>1, <1>3, SentAppended DEF Started
<1>4. ASSUME NEW i \in Waiting(c), Queued(c, message).queue = [outbound[c] EXCEPT ![i] = message]
      PROVE  Started(Queued(c, message).queue) <=> Started(outbound[c])
  <2>1. i \in DOMAIN outbound[c] /\ outbound[c][i].begun = NotBegun
    BY DEF Waiting, Coalesces
  <2>2. outbound[c] # << >> /\ Queued(c, message).queue # << >> /\ 1 \in DOMAIN outbound[c]
    BY <1>1, <1>4, <2>1
  <2>3. Queued(c, message).queue[1] = IF i = 1 THEN message ELSE outbound[c][1]
    BY <1>1, <1>4, <2>2
  <2> QED
    BY <2>1, <2>2, <2>3 DEF Started
<1> QED
  BY <1>2, <1>3, <1>4 DEF QueuedAs

LEMMA WaitingIsReplaceable ==
    ASSUME QueuesOK, NEW c \in open, c \in Clients
    PROVE  Feed!Replaceable(c) = Waiting(c)
<1>1. outbound[c] \in Seq(Message) /\ OthersWait(outbound[c])
  BY DEF QueuesOK, QueuesTyped, QueueOfOK
<1>2. Feed!Replaceable(c) =
        { i \in DOMAIN Boxes[c] : Boxes[c][i].event /\ (i = 1 => c \notin Begun) }
  BY DEF Feed!Replaceable, Boxes, Begun, SentIn, Started
<1>3. DOMAIN Boxes[c] = DOMAIN outbound[c]
      /\ \A i \in DOMAIN outbound[c] : Boxes[c][i].event = outbound[c][i].event
  BY DEF Boxes, SentIn, Sent
<1>4. ASSUME NEW i \in DOMAIN outbound[c]
      PROVE  (i = 1 => c \notin Begun) <=> outbound[c][i].begun = NotBegun
  BY <1>1, <1>4 DEF OthersWait, Begun, Started
<1> QED
  BY <1>2, <1>3, <1>4 DEF Waiting, Coalesces

LEMMA WordIsBroadcast ==
    ASSUME Kinds, NEW c \in open
    PROVE  SentIn(Queued(c, Broadcast).queue) =
             IF ~Queued(c, Broadcast).ok => Feed!Replaceable(c) # {}
             THEN Feed!WithWord(c) ELSE Boxes[c]
<1>1. /\ QueuesOK /\ c \in Clients /\ outbound[c] \in Seq(Message) /\ bytes[c] \in Nat
      /\ Boxes[c] = SentIn(outbound[c])
  BY DEF Kinds, QueuesOK, QueuesTyped, LoopOK, Boxes
<1>2. /\ Broadcast \in Message /\ Broadcast.begun = NotBegun /\ Broadcast.event
  BY <1>1, BroadcastIsMessage
<1>3. QueuedAs(c, Broadcast) /\ Feed!Replaceable(c) = Waiting(c)
  BY <1>1, <1>2, QueueingIsAs, WaitingIsReplaceable
<1>4. Sent(Broadcast) = Feed!Word(revision)
  BY DEF Sent, Broadcast, Event, Feed!Word
<1>5. Feed!WithWord(c) =
        IF Waiting(c) = {} THEN Append(Boxes[c], Feed!Word(revision))
        ELSE LET k == CHOOSE i \in Waiting(c) : \A j \in Waiting(c) : i <= j
             IN  Feed!ReplaceAt(Boxes[c], k, Feed!Word(revision))
  BY <1>3 DEF Feed!WithWord, Boxes, SentIn
<1>6. CASE Waiting(c) = {}
  <2>1. CASE /\ Queued(c, Broadcast).ok
             /\ Queued(c, Broadcast).queue = Append(outbound[c], Broadcast)
    BY <1>1, <1>2, <1>4, <1>5, <1>6, <2>1, SentAppended
  <2>2. CASE ~Queued(c, Broadcast).ok /\ Queued(c, Broadcast).queue = outbound[c]
    BY <1>1, <1>3, <1>6, <2>2
  <2> QED
    BY <1>2, <1>3, <1>6, <2>1, <2>2 DEF QueuedAs
<1>7. CASE Waiting(c) # {}
  <2>1. PICK i \in Waiting(c) :
          /\ i = CHOOSE k \in Waiting(c) : \A j \in Waiting(c) : k <= j
          /\ Queued(c, Broadcast).queue = [outbound[c] EXCEPT ![i] = Broadcast]
    BY <1>2, <1>3, <1>7 DEF QueuedAs
  <2>2. i \in DOMAIN outbound[c]
    BY <2>1 DEF Waiting
  <2>3. SentIn(Queued(c, Broadcast).queue) = [Boxes[c] EXCEPT ![i] = Feed!Word(revision)]
    <3>1. SentIn([outbound[c] EXCEPT ![i] = Broadcast]) =
            [SentIn(outbound[c]) EXCEPT ![i] = Sent(Broadcast)]
      BY ONLY <1>1, <1>2, <2>2, SentReplaced
    <3> QED
      BY ONLY <1>1, <1>4, <2>1, <3>1, Zenon
  <2> QED
    BY <1>3, <1>5, <1>7, <2>1, <2>3 DEF Feed!ReplaceAt
<1> QED
  BY <1>6, <1>7

-----------------------------------------------------------------------------
(* The server's steps, as the feed's. *)
LEMMA OneQueueChanged ==
    ASSUME QueuesTyped, NEW c \in Clients, NEW queue, outbound' = [outbound EXCEPT ![c] = queue]
    PROVE  /\ Boxes' = [Boxes EXCEPT ![c] = SentIn(queue)]
           /\ outbound'[c] = queue /\ \A d \in Clients \ {c} : outbound'[d] = outbound[d]
<1>1. DOMAIN outbound = Clients
  BY DEF QueuesTyped
<1>2. outbound'[c] = queue /\ \A d \in Clients \ {c} : outbound'[d] = outbound[d]
  BY <1>1
<1>3. Boxes' = [d \in Clients |-> SentIn(outbound'[d])]
  BY DEF Boxes, SentIn, Sent
<1>4. Boxes = [d \in Clients |-> SentIn(outbound[d])]
  BY DEF Boxes
<1> QED
  BY <1>2, <1>3, <1>4

LEMMA BegunNext == Begun' = { c \in open' : Started(outbound'[c]) }
  BY DEF Begun, Started

LEMMA AcceptIsJoin ==
    ASSUME Kinds, Accept
    PROVE  \E c \in Clients : Feed!Join(c)
<1>1. PICK c \in backlog :
        /\ open' = open \cup {c} /\ Queue(c, Reply(revision, 0))
        /\ UNCHANGED <<revision, polled, rejection>>
  BY DEF Accept, loopVars
<1> DEFINE message == Reply(revision, 0)
<1>2. /\ c \in Clients \ open /\ QueuesOK /\ QueuesTyped /\ Queues(c, message)
      /\ rejection[c] = 0 /\ outbound[c] = << >> /\ ~closing[c] /\ bytes[c] = 0
  <2>1. c \in Clients \ open /\ Queues(c, message)
    BY <1>1, AcceptQueues
  <2>2. outbound[c] = << >> /\ ~closing[c] /\ bytes[c] = Total(outbound[c])
        /\ outbound[c] \in Seq(Message)
    BY <2>1 DEF Kinds, QueuesOK, QueuesTyped, QueueOfOK
  <2>3. bytes[c] = 0
    BY <2>2, TotalOfNone
  <2>4. rejection[c] = 0
    BY <2>1 DEF Kinds, RequestsOK, RequestsOfOK
  <2> QED
    BY <2>1, <2>2, <2>3, <2>4 DEF Kinds, QueuesOK
<1>3. /\ message \in Message /\ message.begun = NotBegun /\ ~message.event
      /\ Sent(message) = Feed!ReplyTo(0, revision)
  <2>1. message \in Message /\ message.begun = NotBegun
    BY <1>2 DEF Queues
  <2>2. ~message.event
    BY DEF Reply
  <2>3. Sent(message) = Feed!ReplyTo(0, revision)
    BY DEF Reply, Sent, Feed!ReplyTo
  <2> QED
    BY <2>1, <2>2, <2>3
<1> HIDE DEF message
<1>4. /\ Queued(c, message).queue = Append(outbound[c], message) /\ Queued(c, message).ok
  <2>1. QueuedAs(c, message) /\ Size(message) \in 1..QueueLimit
    BY <1>2, <1>3, QueueingIsAs, SizeTyped DEF QueuesTyped
  <2>2. ~(bytes[c] + Size(message) > QueueLimit)
    BY <1>2, <2>1, Bounds
  <2> QED
    BY <1>3, <2>1, <2>2 DEF QueuedAs
<1>5. outbound' = [outbound EXCEPT ![c] = <<message>>]
  <2>1. Append(outbound[c], message) = <<message>>
    BY <1>2
  <2> QED
    BY <1>1, <1>4, <2>1 DEF Queue, message
<1>6. SentIn(<<message>>) = <<Feed!ReplyTo(0, revision)>>
  BY <1>3 DEF SentIn
<1>7. Boxes' = [Boxes EXCEPT ![c] = <<Feed!ReplyTo(0, revision)>>]
  BY <1>2, <1>5, <1>6, OneQueueChanged
<1>8. Begun' = Begun
  <2>1. ~Started(<<message>>)
    BY <1>3 DEF Started
  <2>2. \A d \in Clients \ {c} : outbound'[d] = outbound[d]
    BY <1>2, <1>5, OneQueueChanged
  <2>3. outbound'[c] = <<message>> /\ open \subseteq Clients
    BY <1>2, <1>5, OneQueueChanged DEF Kinds, LoopOK
  <2> QED
    BY <1>1, <1>2, <2>1, <2>2, <2>3, BegunNext DEF Begun
<1>9. Untold' = Untold
  BY <1>1, <1>2 DEF Untold
<1>10. Ending' = Ending
  <2>1. closing' = [closing EXCEPT ![c] = closing[c] \/ ~Queued(c, message).ok]
    BY <1>1 DEF Queue, message
  <2>2. (closing[c] \/ ~Queued(c, message).ok) = FALSE
    BY <1>2, <1>4, Zenon
  <2>3. closing'[c] = FALSE /\ \A d \in Clients \ {c} : closing'[d] = closing[d]
    BY <1>2, <2>1, <2>2 DEF QueuesTyped
  <2>4. ~closing'[c]
    BY <2>3, Zenon
  <2>5. open \subseteq Clients
    BY DEF Kinds, LoopOK
  <2>6. \A d \in open : closing'[d] = closing[d]
    BY <1>2, <2>3, <2>5
  <2>7. Ending' = { d \in open' : closing'[d] }
    BY DEF Ending
  <2> QED
    BY <1>1, <2>4, <2>6, <2>7 DEF Ending
<1> QED
  BY <1>1, <1>2, <1>7, <1>8, <1>9, <1>10, FeedJoins

LEMMA RequestIsAnswered ==
    ASSUME KindsOwed, Asks, NEW message, Answer(message), NEW carried \in 0..MaxRevision,
           message = Reply(carried, asked'[serving]), carried \in {0, revision'},
           revision' \in 1..MaxRevision, revision' >= revision
    PROVE  \E c \in Clients, tag \in Numbers : Feed!Answers(c, tag)
<1>1. Kinds /\ QueuesOK /\ QueuesTyped /\ LoopOK
  BY DEF KindsOwed, Kinds, QueuesOK
<1>2. PICK c, tag :
        /\ c \in Clients /\ c = serving /\ tag = asked'[serving] /\ message = Reply(carried, tag)
        /\ QueueSteps /\ Queues(c, message) /\ c \in open
  BY <1>1, AnswerQueues DEF LoopOK
<1>3. /\ part # "flush" /\ UNCHANGED <<polled, open, rejection>>
  BY DEF Asks, Answer, loopVars, listVars
<1>4. /\ outbound' = [outbound EXCEPT ![c] = Queued(c, message).queue]
      /\ closing' = [closing EXCEPT ![c] = closing[c] \/ ~Queued(c, message).ok]
  BY <1>2 DEF Answer, Queue
<1>5. /\ message \in Message /\ message.begun = NotBegun /\ ~message.event
      /\ Sent(message) = Feed!ReplyTo(tag, carried) /\ tag \in Numbers
  <2>1. message \in Message /\ message.begun = NotBegun /\ message.no \in Numbers
    BY <1>2, Bounds DEF Queues
  <2>2. ~message.event
    BY <1>2 DEF Reply
  <2>3. Sent(message) = Feed!ReplyTo(tag, carried) /\ message.no = tag
    BY <1>2 DEF Reply, Sent, Feed!ReplyTo
  <2> QED
    BY <2>1, <2>2, <2>3
<1>6. outbound[c] \in Seq(Message) /\ bytes[c] \in Nat /\ Boxes[c] = SentIn(outbound[c])
      /\ closing[c] \in BOOLEAN
  BY <1>1, <1>2 DEF QueuesTyped, Boxes
<1>7. Heard(c) /\ polled # 0
  <2>1. stage = "serve" /\ c # Nobody
    BY <1>1, <1>2, Bounds DEF LoopOK
  <2>2. closing[c] => rejection[c] # 0 \/ outbound[c] # << >>
    BY <1>2, <1>3 DEF KindsOwed, OwedOK, Owed
  <2>3. Boxes[c] = << >> <=> outbound[c] = << >>
    BY <1>6, SentOfNone
  <2> QED
    BY <1>1, <1>2, <2>1, <2>2, <2>3 DEF Heard, Ending, Untold, LoopOK
<1>8. UNCHANGED Untold
  BY <1>3 DEF Untold
<1>9. UNCHANGED Begun
  <2>1. Started(Queued(c, message).queue) <=> Started(outbound[c])
    BY <1>1, <1>2, <1>5, QueuedKeepsStart
  <2>2. outbound'[c] = Queued(c, message).queue /\ \A d \in Clients \ {c} : outbound'[d] = outbound[d]
    BY <1>1, <1>2, <1>4, OneQueueChanged
  <2>3. open \subseteq Clients
    BY <1>1 DEF LoopOK
  <2> QED
    BY <1>3, <2>1, <2>2, <2>3, BegunNext DEF Begun
<1>10. QueuedAs(c, message)
  BY <1>2, <1>5, <1>6, QueueingIsAs
<1>11. Ending' = IF Queued(c, message).ok THEN Ending ELSE Ending \cup {c}
  <2>1. \A d \in Clients \ {c} : closing'[d] = closing[d]
    BY <1>1, <1>4 DEF QueuesTyped
  <2>2. closing'[c] <=> closing[c] \/ ~Queued(c, message).ok
    BY <1>2 DEF Queues
  <2>3. open \subseteq Clients /\ Ending' = { d \in open' : closing'[d] }
    BY <1>1 DEF LoopOK, Ending
  <2> QED
    BY <1>2, <1>3, <2>1, <2>2, <2>3 DEF Ending
<1>12. \/ /\ Boxes' = [Boxes EXCEPT ![c] = Append(@, Feed!ReplyTo(tag, carried))]
          /\ UNCHANGED Ending
       \/ Ending' = Ending \cup {c} /\ UNCHANGED Boxes
  <2>1. CASE /\ Queued(c, message).ok
             /\ Queued(c, message).queue = Append(outbound[c], message)
    <3>1. Boxes' = [Boxes EXCEPT ![c] = SentIn(Append(outbound[c], message))]
      BY <1>1, <1>2, <1>4, <2>1, OneQueueChanged
    <3>2. SentIn(Append(outbound[c], message)) = Append(Boxes[c], Feed!ReplyTo(tag, carried))
      BY <1>5, <1>6, SentAppended
    <3> QED
      BY <1>11, <2>1, <3>1, <3>2
  <2>2. CASE ~Queued(c, message).ok /\ Queued(c, message).queue = outbound[c]
    <3>1. Boxes' = [Boxes EXCEPT ![c] = SentIn(outbound[c])]
      BY <1>1, <1>2, <1>4, <2>2, OneQueueChanged
    <3>2. Boxes' = Boxes
      BY <1>6, <3>1 DEF Boxes
    <3> QED
      BY <1>11, <2>2, <3>2
  <2> QED
    BY <1>5, <1>10, <2>1, <2>2 DEF QueuedAs
<1>13. Feed!Answers(c, tag)
  BY <1>3, <1>7, <1>8, <1>9, <1>12, FeedAnswers
<1> QED
  BY <1>2, <1>5, <1>13

LEMMA RejectIsRefusal ==
    ASSUME KindsOwed, Reject
    PROVE  \E c \in Clients : Feed!Refuse(c)
<1>1. PICK c :
        /\ c = serving
        /\ QueuesTyped /\ LoopOK /\ RequestsTyped /\ c \in open /\ c \in Clients /\ part # "flush"
        /\ Owed(c)
  BY DEF KindsOwed, Kinds, QueuesOK, RequestsOK, LoopOK, Reject, Asks, OwedOK
<1>2. /\ UNCHANGED <<revision, polled, open, outbound>>
      /\ rejection' = [rejection EXCEPT ![c] = asked'[c]]
      /\ asked' = [asked EXCEPT ![c] = @ + 1]
  BY <1>1 DEF Reject, Asks, loopVars, listVars
<1>3. closing' = [closing EXCEPT ![c] = TRUE]
  BY <1>1 DEF Reject
<1>4. closing[c] => rejection[c] # 0 \/ outbound[c] # << >>
  BY <1>1 DEF Owed
<1>5. Heard(c)
  <2>1. Boxes[c] = << >> <=> outbound[c] = << >>
    BY <1>1, SentOfNone DEF Boxes, QueuesTyped
  <2> QED
    BY <1>1, <1>4, <2>1 DEF Heard, Ending, Untold
<1>6. Ending' = Ending \cup {c}
  <2>1. closing'[c] = TRUE /\ \A d \in Clients \ {c} : closing'[d] = closing[d]
    BY <1>1, <1>3 DEF QueuesTyped
  <2>2. closing'[c]
    BY <2>1, Zenon
  <2>3. open \subseteq Clients /\ Ending' = { d \in open' : closing'[d] }
    BY <1>1 DEF LoopOK, Ending
  <2> QED
    BY <1>1, <1>2, <2>1, <2>2, <2>3 DEF Ending
<1>7. Untold' = Untold \cup {c}
  <2>1. asked'[c] = asked[c] + 1 /\ asked[c] \in Nat
    BY <1>1, <1>2 DEF RequestsTyped
  <2>2. rejection'[c] # 0 /\ \A d \in Clients \ {c} : rejection'[d] = rejection[d]
    BY <1>1, <1>2, <2>1 DEF RequestsTyped
  <2> QED
    BY <1>1, <1>2, <2>2 DEF Untold, LoopOK
<1>8. UNCHANGED <<Boxes, Begun>>
  BY <1>2 DEF Boxes, Begun, SentIn, Started
<1>9. Feed!Refuse(c)
  BY <1>2, <1>5, <1>6, <1>7, <1>8, FeedRefuses
<1> QED
  BY <1>1, <1>9

LEMMA WriteIsDelivery ==
    ASSUME Kinds, NEW c \in Clients, Write(c)
    PROVE  Feed!Deliver(c)
<1>1. /\ QueuesTyped /\ c \in open /\ outbound[c] \in Seq(Message) /\ OthersWait(outbound[c])
      /\ open \subseteq Clients
  BY Bounds DEF Kinds, QueuesOK, QueuesTyped, QueueOfOK, LoopOK, Write, Flushing
<1>2. /\ outbound[c] # << >> /\ outbound' = [outbound EXCEPT ![c] = Tail(outbound[c])]
      /\ UNCHANGED <<revision, polled, open, closing, rejection>>
  BY DEF Write, loopVars, listVars
<1>3. SentIn(Tail(outbound[c])) = Tail(Boxes[c]) /\ Boxes[c] # << >>
  BY <1>1, <1>2, SentTail, SentOfNone DEF Boxes
<1>4. Boxes' = [Boxes EXCEPT ![c] = Tail(@)]
  <2>1. Boxes' = [Boxes EXCEPT ![c] = SentIn(Tail(outbound[c]))]
    BY <1>1, <1>2, OneQueueChanged
  <2> QED
    BY ONLY <1>3, <2>1
<1>5. Begun' = Begun \ {c}
  <2>1. ~Started(Tail(outbound[c]))
    <3>1. ASSUME Tail(outbound[c]) # << >>
          PROVE  Tail(outbound[c])[1] = outbound[c][2] /\ 2 \in DOMAIN outbound[c]
      BY <1>1, <1>2, <3>1
    <3> QED
      BY <1>1, <3>1 DEF Started, OthersWait
  <2>2. outbound'[c] = Tail(outbound[c]) /\ \A d \in Clients \ {c} : outbound'[d] = outbound[d]
    BY <1>1, <1>2, OneQueueChanged
  <2> QED
    BY <1>1, <1>2, <2>1, <2>2, BegunNext DEF Begun
<1>6. UNCHANGED <<Ending, Untold>>
  BY <1>2 DEF Ending, Untold
<1> QED
  BY <1>1, <1>2, <1>3, <1>4, <1>5, <1>6, FeedDelivers

LEMMA PollIsAnnouncement ==
    ASSUME Kinds, Poll, polled # revision
    PROVE  Feed!Announce
<1> PICK told, cut :
      /\ told = IF polled = 0 THEN {} ELSE { c \in open : ~closing[c] }
      /\ cut = { c \in told : ~Queued(c, Broadcast).ok }
  OBVIOUS
<1>1. /\ QueuesOK /\ QueuesTyped /\ open \subseteq Clients /\ polled' = revision
      /\ UNCHANGED <<revision, open, rejection>>
  BY DEF Kinds, QueuesOK, LoopOK, Poll, listVars
<1>2. /\ outbound' = [c \in Clients |->
                        IF c \in told THEN Queued(c, Broadcast).queue ELSE outbound[c]]
      /\ \A c \in Clients : closing'[c] <=> closing[c] \/ c \in cut
  <2>1. CASE polled = 0
    <3>1. UNCHANGED <<outbound, closing>>
      BY <2>1 DEF Poll
    <3> QED
      BY <1>1, <2>1, <3>1 DEF QueuesTyped
  <2>2. CASE polled # 0
    <3>1. /\ outbound' = [c \in Clients |->
                            IF c \in told THEN Queued(c, Broadcast).queue ELSE outbound[c]]
      BY <2>2 DEF Poll
    <3>2. closing' = [c \in Clients |->
                        closing[c] \/ (c \in told /\ ~Queued(c, Broadcast).ok)]
      BY <2>2 DEF Poll
    <3>3. \A c \in Clients : closing'[c] = (closing[c] \/ (c \in told /\ ~Queued(c, Broadcast).ok))
      BY ONLY <3>2, Zenon
    <3>4. \A c \in Clients : closing'[c] <=> closing[c] \/ (c \in told /\ ~Queued(c, Broadcast).ok)
      BY ONLY <3>3, Zenon
    <3> QED
      BY <3>1, <3>4
  <2> QED
    BY <2>1, <2>2
<1>3. told = (IF polled = 0 THEN {} ELSE open \ Ending) /\ told \subseteq open
  BY DEF Ending
<1>4. Ending' = Ending \cup cut
  <2>1. Ending' = { c \in open' : closing'[c] }
    BY DEF Ending
  <2>2. cut \subseteq open
    BY <1>3
  <2> QED
    BY <1>1, <1>2, <2>1, <2>2 DEF Ending
<1>5. cut \in SUBSET told /\ \A c \in told : c \in cut <=> ~Queued(c, Broadcast).ok
  OBVIOUS
<1>6. Boxes' = [c \in Clients |-> IF c \in told /\ (c \in cut => Feed!Replaceable(c) # {})
                                  THEN Feed!WithWord(c) ELSE Boxes[c]]
  <2>1. Boxes' = [c \in Clients |-> SentIn(outbound'[c])]
    BY DEF Boxes, SentIn, Sent
  <2>2. ASSUME NEW c \in Clients
        PROVE  SentIn(outbound'[c]) = IF c \in told /\ (c \in cut => Feed!Replaceable(c) # {})
                                      THEN Feed!WithWord(c) ELSE Boxes[c]
    <3>1. CASE c \notin told
      BY <1>2, <3>1 DEF Boxes
    <3>2. CASE c \in told
      <4>1. SentIn(Queued(c, Broadcast).queue) =
              IF ~Queued(c, Broadcast).ok => Feed!Replaceable(c) # {}
              THEN Feed!WithWord(c) ELSE Boxes[c]
        BY <1>3, <3>2, WordIsBroadcast
      <4>2. outbound'[c] = Queued(c, Broadcast).queue
        BY <1>2, <3>2
      <4> QED
        BY ONLY <1>5, <3>2, <4>1, <4>2
    <3> QED
      BY <3>1, <3>2
  <2> QED
    BY ONLY <2>1, <2>2
<1>7. UNCHANGED Begun
  <2>1. ASSUME NEW c \in open PROVE Started(outbound'[c]) <=> Started(outbound[c])
    <3>1. CASE c \in told
      BY <1>1, <1>2, <3>1, QueuedKeepsStart, BroadcastIsMessage
    <3>2. CASE c \notin told
      BY <1>1, <1>2, <3>2
    <3> QED
      BY <3>1, <3>2
  <2> QED
    BY <1>1, <2>1, BegunNext DEF Begun
<1>8. UNCHANGED Untold
  BY <1>1 DEF Untold
<1> QED
  BY <1>1, <1>3, <1>4, <1>5, <1>6, <1>7, <1>8, FeedAnnounces

LEMMA RejectionIsTold ==
    ASSUME Kinds, TakeRejection
    PROVE  \E c \in Clients, tag \in Numbers : Feed!TellRefusal(c, tag)
<1>1. PICK c, tag, message :
        /\ c \in open /\ outbound[c] = << >> /\ tag = rejection[c] /\ tag # 0
        /\ rejection' = [rejection EXCEPT ![c] = 0]
        /\ message = Reply(0, tag) /\ Queue(c, message)
        /\ UNCHANGED <<revision, polled, open>>
  BY DEF TakeRejection, loopVars, listVars
<1>2. /\ QueuesOK /\ QueuesTyped /\ RequestsTyped /\ c \in Clients /\ open \subseteq Clients
      /\ Queues(c, message) /\ outbound[c] \in Seq(Message) /\ tag \in Numbers
      /\ bytes[c] = 0
  <2>1. c \in Clients /\ Queues(c, message)
    BY <1>1, RejectionQueues
  <2>2. QueuesOK /\ QueuesTyped /\ RequestsTyped /\ outbound[c] \in Seq(Message)
        /\ bytes[c] = Total(outbound[c]) /\ tag \in 0..MaxRequests[c]
    BY <1>1, <2>1 DEF Kinds, QueuesOK, QueuesTyped, QueueOfOK, RequestsOK, RequestsOfOK
  <2>3. bytes[c] = 0
    BY <1>1, <2>2, TotalOfNone
  <2> QED
    BY <2>1, <2>2, <2>3, Bounds DEF Kinds, LoopOK
<1>3. /\ message \in Message /\ message.begun = NotBegun /\ ~message.event
      /\ Sent(message) = Feed!ReplyTo(tag, 0)
  <2>1. message \in Message /\ message.begun = NotBegun
    BY <1>2 DEF Queues
  <2>2. ~message.event
    BY <1>1 DEF Reply
  <2>3. Sent(message) = Feed!ReplyTo(tag, 0)
    BY <1>1 DEF Reply, Sent, Feed!ReplyTo
  <2> QED
    BY <2>1, <2>2, <2>3
<1>4. Queued(c, message).queue = Append(outbound[c], message) /\ Queued(c, message).ok
  <2>1. QueuedAs(c, message) /\ Size(message) \in 1..QueueLimit
    BY <1>2, <1>3, QueueingIsAs, SizeTyped DEF QueuesTyped
  <2>2. ~(bytes[c] + Size(message) > QueueLimit)
    BY <1>2, <2>1, Bounds
  <2> QED
    BY <1>3, <2>1, <2>2 DEF QueuedAs
<1>5. outbound' = [outbound EXCEPT ![c] = <<message>>]
  <2>1. Append(outbound[c], message) = <<message>>
    BY <1>1
  <2> QED
    BY <1>1, <1>4, <2>1 DEF Queue
<1>6. SentIn(<<message>>) = <<Feed!ReplyTo(tag, 0)>> /\ Boxes[c] = << >>
  <2>1. SentIn(<<message>>) = <<Feed!ReplyTo(tag, 0)>>
    BY <1>3 DEF SentIn
  <2>2. Boxes[c] = << >>
    BY <1>1, <1>2, SentOfNone DEF Boxes
  <2> QED
    BY <2>1, <2>2
<1>7. Boxes' = [Boxes EXCEPT ![c] = <<Feed!ReplyTo(tag, 0)>>]
  BY <1>2, <1>5, <1>6, OneQueueChanged
<1>8. UNCHANGED Begun
  <2>1. ~Started(<<message>>) /\ ~Started(outbound[c])
    BY <1>1, <1>3 DEF Started
  <2>2. outbound'[c] = <<message>> /\ \A d \in Clients \ {c} : outbound'[d] = outbound[d]
    BY <1>2, <1>5, OneQueueChanged
  <2> QED
    BY <1>1, <1>2, <2>1, <2>2, BegunNext DEF Begun
<1>9. Untold' = Untold \ {c} /\ c \in Untold
  BY <1>1, <1>2 DEF Untold, RequestsTyped
<1>10. UNCHANGED Ending
  <2>1. closing'[c] <=> closing[c]
    BY <1>2, <1>4 DEF Queues
  <2>2. \A d \in Clients \ {c} : closing'[d] = closing[d]
    BY <1>1, <1>2 DEF QueuesTyped, Queue
  <2>3. Ending' = { d \in open' : closing'[d] }
    BY DEF Ending
  <2> QED
    BY <1>1, <1>2, <2>1, <2>2, <2>3 DEF Ending
<1>11. Feed!TellRefusal(c, tag)
  BY <1>1, <1>6, <1>7, <1>8, <1>9, <1>10, FeedTells
<1> QED
  BY <1>2, <1>11

LEMMA TurnEndIsLeaving ==
    ASSUME Kinds, NEW c \in open, NEW queue, EndTurn(c, queue), Leaves(c)
    PROVE  Feed!Leave(c)
<1>1. QueuesTyped /\ RequestsTyped /\ open \subseteq Clients /\ c \in Clients
  BY DEF Kinds, QueuesOK, RequestsOK, LoopOK
<1>2. /\ open' = open \ {c} /\ outbound' = [outbound EXCEPT ![c] = << >>]
      /\ rejection' = [rejection EXCEPT ![c] = 0]
      /\ UNCHANGED <<revision, polled>>
  BY DEF EndTurn
<1>3. closing' = [closing EXCEPT ![c] = FALSE]
  BY DEF EndTurn
<1>4. Boxes' = [Boxes EXCEPT ![c] = << >>] /\ \A d \in Clients \ {c} : outbound'[d] = outbound[d]
  <2>1. << >> \in Seq(Message)
    OBVIOUS
  <2>2. SentIn(<< >>) = << >>
    BY <2>1, SentOfNone
  <2> QED
    BY <1>1, <1>2, <2>2, OneQueueChanged
<1>5. Begun' = Begun \ {c}
  BY <1>1, <1>2, <1>4, BegunNext DEF Begun
<1>6. Ending' = Ending \ {c}
  <2>1. \A d \in Clients \ {c} : closing'[d] = closing[d]
    BY <1>1, <1>3 DEF QueuesTyped
  <2>2. Ending' = { d \in open' : closing'[d] }
    BY DEF Ending
  <2> QED
    BY <1>1, <1>2, <2>1, <2>2 DEF Ending
<1>7. Untold' = Untold \ {c}
  BY <1>1, <1>2 DEF Untold, RequestsTyped
<1> QED
  BY <1>2, <1>4, <1>5, <1>6, <1>7, FeedLeaves

LEMMA PartIsStart ==
    ASSUME Kinds, NEW c \in open, outbound[c] # << >>, ~Leaves(c),
           EndTurn(c, [outbound[c] EXCEPT ![1].begun = outbound[c][1].revision])
    PROVE  Feed!Start(c)
<1>1. QueuesTyped /\ open \subseteq Clients /\ c \in Clients /\ outbound[c] \in Seq(Message)
  BY DEF Kinds, QueuesOK, QueuesTyped, LoopOK
<1>2. PICK queue : queue = [outbound[c] EXCEPT ![1].begun = outbound[c][1].revision]
  OBVIOUS
<1>3. /\ outbound' = [outbound EXCEPT ![c] = queue]
      /\ UNCHANGED <<revision, polled, open, closing, rejection>>
  BY <1>2 DEF EndTurn
<1>4. SentIn(queue) = SentIn(outbound[c]) /\ Started(queue)
  BY <1>1, <1>2, SentBegun
<1>5. UNCHANGED Boxes /\ Boxes[c] # << >>
  <2>1. Boxes' = [Boxes EXCEPT ![c] = SentIn(queue)]
    BY <1>1, <1>3, OneQueueChanged
  <2>2. Boxes[c] = SentIn(outbound[c])
    BY <1>1 DEF Boxes
  <2>3. Boxes' = Boxes
    BY <1>4, <2>1, <2>2 DEF Boxes
  <2> QED
    BY <1>1, <2>2, <2>3, SentOfNone
<1>6. Begun' = Begun \cup {c}
  <2>1. outbound'[c] = queue /\ \A d \in Clients \ {c} : outbound'[d] = outbound[d]
    BY <1>1, <1>3, OneQueueChanged
  <2> QED
    BY <1>1, <1>3, <1>4, <2>1, BegunNext DEF Begun
<1>7. UNCHANGED <<Ending, Untold>>
  BY <1>3 DEF Ending, Untold
<1> QED
  BY <1>3, <1>5, <1>6, <1>7, FeedStarts

(* Every step of the server is a step of the feed, or none of it. *)
LEMMA StepsServe ==
    ASSUME KindsOwed, [Next]_vars
    PROVE  [Feed!FeedNext]_(Feed!feedVars)
<1> USE DEF KindsOwed
<1>1. ASSUME UNCHANGED <<revision, polled, open, outbound, closing, rejection>>
      PROVE  UNCHANGED Feed!feedVars
  <2>1. UNCHANGED <<Boxes, Begun, Ending, Untold>>
    BY <1>1 DEF Boxes, Begun, Ending, Untold, SentIn, Started
  <2> QED
    BY <1>1, <2>1, FeedStutters
<1>2. CASE \/ UNCHANGED vars \/ Connect \/ NoMoreToAccept \/ Turn \/ Read \/ HangUp \/ ReadIsOver
           \/ WriteFails \/ NextRound
  <2>1. UNCHANGED <<revision, polled, open, outbound, closing, rejection>>
    BY <1>2 DEF vars, Connect, NoMoreToAccept, Turn, Read, HangUp, ReadIsOver, WriteFails,
       NextRound, loopVars, queueVars, listVars
  <2> QED
    BY <1>1, <2>1
<1>3. CASE Change
  <2>1. /\ revision' = revision + 1 /\ revision' \in 1..MaxRevision
        /\ UNCHANGED <<polled, open, Boxes, Begun, Ending, Untold>>
    <3>1. /\ revision' = revision + 1 /\ revision < MaxRevision
          /\ UNCHANGED <<polled, open, outbound, closing, rejection>>
      BY <1>3 DEF Change, loopVars, listVars, queueVars
    <3>2. revision' \in 1..MaxRevision
      BY <3>1, Bounds DEF Kinds, LoopOK
    <3> QED
      BY <3>1, <3>2 DEF Boxes, Begun, Ending, Untold, SentIn, Started
  <2>2. Feed!StateChanges
    BY <2>1 DEF Feed!StateChanges, Boxes, Begun, Ending, Untold, SentIn, Started
  <2> QED
    BY <2>2 DEF Feed!FeedNext
<1>4. CASE Accept
  BY <1>4, AcceptIsJoin DEF Feed!FeedNext
<1>5. CASE Poll
  <2>1. CASE polled = revision
    <3>1. UNCHANGED <<revision, polled, open, outbound, closing, rejection>>
      BY <1>5, <2>1 DEF Poll, listVars
    <3> QED
      BY <1>1, <3>1
  <2>2. CASE polled # revision
    BY <1>5, <2>2, PollIsAnnouncement DEF Feed!FeedNext
  <2> QED
    BY <2>1, <2>2
<1>6. CASE AnswerWithState
  <2>1. PICK r : r = revision'
    OBVIOUS
  <2>2. /\ Answer(Reply(r, asked'[serving])) /\ Asks /\ r \in 0..MaxRevision
        /\ revision' \in 1..MaxRevision /\ revision' >= revision
    BY <1>6, <2>1, Bounds DEF AnswerWithState, Kinds, LoopOK
  <2>3. \E c \in Clients, tag \in Numbers : Feed!Answers(c, tag)
    BY <2>1, <2>2, RequestIsAnswered
  <2> QED
    BY <2>3 DEF Feed!FeedNext
<1>7. CASE AnswerPlainly
  <2>1. /\ Answer(Reply(0, asked'[serving])) /\ Asks /\ 0 \in 0..MaxRevision
        /\ revision' \in 1..MaxRevision /\ revision' >= revision
    BY <1>7, Bounds DEF AnswerPlainly, Kinds, LoopOK
  <2>2. \E c \in Clients, tag \in Numbers : Feed!Answers(c, tag)
    BY <2>1, RequestIsAnswered
  <2> QED
    BY <2>2 DEF Feed!FeedNext
<1>8. CASE Reject
  BY <1>8, RejectIsRefusal DEF Feed!FeedNext
<1>9. ASSUME NEW c \in Clients, Write(c) PROVE Feed!FeedNext
  BY <1>9, WriteIsDelivery DEF Feed!FeedNext
<1>10. CASE TakeRejection
  BY <1>10, RejectionIsTold DEF Feed!FeedNext
<1>11. open \subseteq Clients
  BY DEF Kinds, LoopOK
<1>12. CASE Flushed
  <2>1. PICK c \in open : EndTurn(c, outbound[c])
    BY <1>12 DEF Flushed
  <2>2. CASE Leaves(c)
    BY <1>11, <2>1, <2>2, TurnEndIsLeaving DEF Feed!FeedNext
  <2>3. CASE ~Leaves(c)
    <3>1. /\ UNCHANGED <<revision, polled, open, closing, rejection>>
          /\ outbound' = [outbound EXCEPT ![c] = outbound[c]]
      BY <2>1, <2>3 DEF EndTurn
    <3>2. UNCHANGED outbound
      BY <1>11, <3>1 DEF Kinds, QueuesOK, QueuesTyped
    <3> QED
      BY <1>1, <3>1, <3>2
  <2> QED
    BY <2>2, <2>3
<1>13. CASE WritePart
  <2>1. PICK c \in open : /\ outbound[c] # << >>
                          /\ EndTurn(c, [outbound[c] EXCEPT ![1].begun = outbound[c][1].revision])
    BY <1>13 DEF WritePart
  <2>2. CASE Leaves(c)
    BY <1>11, <2>1, <2>2, TurnEndIsLeaving DEF Feed!FeedNext
  <2>3. CASE ~Leaves(c)
    BY <1>11, <2>1, <2>3, PartIsStart DEF Feed!FeedNext
  <2> QED
    BY <2>2, <2>3
<1> QED
  BY <1>2, <1>3, <1>4, <1>5, <1>6, <1>7, <1>8, <1>9, <1>10, <1>12, <1>13 DEF Next, Server

(* The server implements the feed its clients rely on: its turns, budgets,  *)
(* partial writes and byte counts only decide when things happen, never     *)
(* what is sent to a client, to which of them, or in which order.           *)
THEOREM ServerImplementsFeed == Spec => Feed!FeedSpec
<1>1. Init => Feed!FeedInit
  BY DEF Init, Feed!FeedInit
<1>2. KindsOwed /\ [Next]_vars => [Feed!FeedNext]_(Feed!feedVars)
  BY StepsServe
<1> QED
  BY <1>1, <1>2, KindsOwedAlways, PTL DEF Spec, Feed!FeedSpec
=============================================================================
