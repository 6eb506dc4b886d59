----------------------------- MODULE ServerProofs -----------------------------
(***************************************************************************)
(* The server, for every set of clients and every limit of descriptors.    *)
(***************************************************************************)
EXTENDS Server, FiniteSetTheorems, SequenceTheorems, TLAPS

Completion == [op : {"accept", "read", "signal"}, client : SUBSET Clients]

\* The places of the accepts in a queue of completions.
Accepts(queue) == { i \in DOMAIN queue : queue[i].op = "accept" }

\* An accept waits for a connection, or exactly one is in the queue.
OneOnItsWay == IF accepting THEN Accepts(ready) = {} ELSE \E i : Accepts(ready) = {i}

IInv == TypeOK /\ (~stopped => OneOnItsWay)

-----------------------------------------------------------------------------
LEMMA AcceptsOfAppend ==
  ASSUME NEW queue \in Seq(Completion), NEW completion \in Completion
  PROVE  /\ Append(queue, completion) \in Seq(Completion)
         /\ Accepts(Append(queue, completion))
              = Accepts(queue) \cup IF completion.op = "accept" THEN {Len(queue) + 1} ELSE {}
<1> DEFINE longer == Append(queue, completion)
<1>1. /\ longer \in Seq(Completion) /\ Len(longer) = Len(queue) + 1
      /\ \A i \in 1 .. Len(queue) : longer[i] = queue[i]
      /\ longer[Len(queue) + 1] = completion
  BY AppendProperties
<1>2. /\ Len(queue) \in Nat /\ DOMAIN queue = 1 .. Len(queue)
      /\ DOMAIN longer = 1 .. (Len(queue) + 1)
  BY <1>1
<1> HIDE DEF longer
<1>3. DOMAIN longer = DOMAIN queue \cup {Len(queue) + 1}
  BY <1>2
<1>4. Accepts(longer)
        = Accepts(queue) \cup IF completion.op = "accept" THEN {Len(queue) + 1} ELSE {}
  BY <1>1, <1>2, <1>3 DEF Accepts
<1>. QED
  BY <1>1, <1>4 DEF longer

LEMMA AcceptsOfTail ==
  ASSUME NEW queue \in Seq(Completion), queue # <<>>
  PROVE  /\ Head(queue) \in Completion /\ Tail(queue) \in Seq(Completion)
         /\ Head(queue).op = "accept" <=> 1 \in Accepts(queue)
         /\ \A i \in Accepts(queue) : i \in Nat
         /\ \A i : i \in Accepts(Tail(queue)) <=> i \in Nat \ {0} /\ i + 1 \in Accepts(queue)
<1>1. /\ Head(queue) \in Completion /\ Tail(queue) \in Seq(Completion)
      /\ Len(Tail(queue)) = Len(queue) - 1
      /\ \A i \in 1 .. Len(Tail(queue)) : Tail(queue)[i] = queue[i + 1]
  BY HeadTailProperties
<1>2. /\ Len(queue) \in Nat \ {0} /\ DOMAIN queue = 1 .. Len(queue)
      /\ DOMAIN Tail(queue) = 1 .. (Len(queue) - 1)
      /\ Head(queue) = queue[1]
  BY <1>1
<1>. QED
  BY <1>1, <1>2 DEF Accepts

\* Starting the next accept when none is on its way puts exactly one on its way.
LEMMA TryAcceptStep ==
  ASSUME TypeOK, NEW queue \in Seq(Completion), Accepts(queue) = {}, NEW open,
         TryAccept(queue, open)
  PROVE  /\ ready' \in Seq(Completion) /\ backlog' \in Seq(Clients)
         /\ accepting' \in BOOLEAN
         /\ OneOnItsWay'
<1>0. backlog \in Seq(Clients)
  BY DEF TypeOK
<1>1. CASE accepting' = TRUE /\ ready' = queue /\ UNCHANGED backlog
  BY <1>0, <1>1 DEF OneOnItsWay
<1>2. CASE /\ backlog # <<>> /\ accepting' = FALSE
           /\ ready' = Append(queue, Accepted(Head(backlog)))
           /\ backlog' = Tail(backlog)
  <2>1. Head(backlog) \in Clients /\ backlog' \in Seq(Clients)
    BY <1>0, <1>2, HeadTailProperties
  <2>2. Accepted(Head(backlog)) \in Completion /\ Accepted(Head(backlog)).op = "accept"
    BY <2>1 DEF Accepted, Completion
  <2>3. ready' \in Seq(Completion) /\ Accepts(ready') = {Len(queue) + 1}
    BY <1>2, <2>2, AcceptsOfAppend
  <2>. QED
    BY <1>2, <2>1, <2>3 DEF OneOnItsWay
<1>3. CASE accepting' = FALSE /\ ready' = Append(queue, AcceptFailed) /\ UNCHANGED backlog
  <2>1. AcceptFailed \in Completion /\ AcceptFailed.op = "accept"
    BY DEF AcceptFailed, Completion
  <2>2. ready' \in Seq(Completion) /\ Accepts(ready') = {Len(queue) + 1}
    BY <1>3, <2>1, AcceptsOfAppend
  <2>. QED
    BY <1>0, <1>3, <2>2 DEF OneOnItsWay
<1>. QED
  BY <1>1, <1>2, <1>3 DEF TryAccept

\* A completion that is no accept joins the queue, or leaves it.
LEMMA OtherJoins ==
  ASSUME TypeOK, OneOnItsWay, NEW completion \in Completion, completion.op # "accept",
         ready' = Append(ready, completion), accepting' = accepting
  PROVE  ready' \in Seq(Completion) /\ OneOnItsWay'
<1>1. ready \in Seq(Completion)
  BY DEF TypeOK, Completion
<1>2. ready' \in Seq(Completion) /\ Accepts(ready') = Accepts(ready)
  BY <1>1, AcceptsOfAppend
<1>. QED
  BY <1>2 DEF OneOnItsWay

LEMMA OtherLeaves ==
  ASSUME TypeOK, OneOnItsWay, ready # <<>>, Head(ready).op # "accept",
         ready' = Tail(ready), accepting' = accepting
  PROVE  ready' \in Seq(Completion) /\ OneOnItsWay'
<1>1. ready \in Seq(Completion)
  BY DEF TypeOK, Completion
<1>2. /\ ready' \in Seq(Completion) /\ 1 \notin Accepts(ready)
      /\ \A i \in Accepts(ready) : i \in Nat
      /\ \A i : i \in Accepts(ready') <=> i \in Nat \ {0} /\ i + 1 \in Accepts(ready)
  BY <1>1, AcceptsOfTail
<1>3. CASE accepting
  <2>1. Accepts(ready') = {}
    BY <1>2, <1>3 DEF OneOnItsWay
  <2>. QED
    BY <1>2, <1>3, <2>1 DEF OneOnItsWay
<1>4. CASE ~accepting
  <2>1. PICK i : Accepts(ready) = {i}
    BY <1>4 DEF OneOnItsWay
  <2>2. i \in Nat /\ i # 1 /\ i # 0
    <3>1. 0 \notin Accepts(ready)
      BY <1>1 DEF Accepts
    <3>. QED
      BY <1>2, <2>1, <3>1
  <2>3. Accepts(ready') = {i - 1}
    BY <1>2, <2>1, <2>2
  <2>. QED
    BY <1>2, <1>4, <2>3 DEF OneOnItsWay
<1>. QED
  BY <1>3, <1>4

-----------------------------------------------------------------------------
LEMMA Inductive ==
  /\ Init => IInv
  /\ IInv /\ [Next]_vars => IInv'
<1>1. Init => IInv
  <2> SUFFICES ASSUME Init PROVE IInv
    OBVIOUS
  <2>1. AcceptFailed \in Completion /\ AcceptFailed.op = "accept"
    BY DEF AcceptFailed, Completion
  <2>2. TypeOK
    <3>1. <<>> \in Seq(Completion) /\ <<AcceptFailed>> \in Seq(Completion)
      BY <2>1
    <3>2. ready \in Seq(Completion) /\ backlog \in Seq(Clients)
      BY <3>1 DEF Init
    <3>. QED
      BY <3>2 DEF Init, TypeOK, Completion
  <2>3. CASE listening
    BY <2>2, <2>3 DEF Init, IInv, OneOnItsWay, Accepts
  <2>4. CASE ~listening
    <3>1. ready = <<AcceptFailed>> /\ ~accepting
      BY <2>4 DEF Init
    <3>2. Accepts(ready) = {1}
      BY <2>1, <3>1 DEF Accepts
    <3>. QED
      BY <2>2, <3>1, <3>2 DEF IInv, OneOnItsWay
  <2>. QED
    BY <2>3, <2>4 DEF Init
<1>2. IInv /\ [Next]_vars => IInv'
  <2> SUFFICES ASSUME IInv, [Next]_vars PROVE IInv'
    OBVIOUS
  <2>0. /\ TypeOK
        /\ ~stopped => OneOnItsWay
        /\ ready \in Seq(Completion) /\ backlog \in Seq(Clients)
        /\ \A c \in Clients : Read(c) \in Completion /\ Read(c).op # "accept"
        /\ Signalled \in Completion /\ Signalled.op # "accept"
    BY DEF IInv, TypeOK, Completion, Read, Signalled
  <2>1. CASE Raise
    BY <2>0, <2>1 DEF Raise, IInv, TypeOK, OneOnItsWay
  <2>2. ASSUME NEW c \in Clients, Connect(c) PROVE IInv'
    <3>1. backlog' \in Seq(Clients)
      BY <2>0, <2>2, AppendProperties DEF Connect
    <3>. QED
      BY <2>0, <2>2, <3>1 DEF Connect, IInv, TypeOK, OneOnItsWay
  <2>3. ASSUME NEW c \in Clients, Leave(c) PROVE IInv'
    BY <2>0, <2>3 DEF Leave, IInv, TypeOK, OneOnItsWay
  <2>4. CASE PollAccept
    <3>1. ~stopped /\ Accepts(ready) = {} /\ TryAccept(ready, Open)
      BY <2>0, <2>4 DEF PollAccept, OneOnItsWay
    <3>2. /\ ready' \in Seq(Completion) /\ backlog' \in Seq(Clients)
          /\ accepting' \in BOOLEAN /\ OneOnItsWay'
      BY <2>0, <3>1, TryAcceptStep
    <3>. QED
      BY <2>0, <2>4, <3>2 DEF PollAccept, IInv, TypeOK, Completion
  <2>5. ASSUME NEW c \in Clients, PollRead(c) PROVE IInv'
    <3>1. ready' \in Seq(Completion) /\ OneOnItsWay'
      BY <2>0, <2>5, OtherJoins DEF PollRead
    <3>. QED
      BY <2>0, <2>5, <3>1 DEF PollRead, IInv, TypeOK, Completion
  <2>6. CASE PollSignal
    <3>1. ready' \in Seq(Completion) /\ OneOnItsWay'
      BY <2>0, <2>6, OtherJoins DEF PollSignal
    <3>. QED
      BY <2>0, <2>6, <3>1 DEF PollSignal, IInv, TypeOK, Completion
  <2>7. CASE HandleAccept
    <3>1. /\ ~stopped /\ ready # <<>> /\ Head(ready).op = "accept"
          /\ TryAccept(Tail(ready), Open) /\ reading' = reading \cup Head(ready).client
          /\ UNCHANGED <<listening, peer, signal, stopped>>
      BY <2>7 DEF HandleAccept
    <3>2. /\ Head(ready) \in Completion /\ Tail(ready) \in Seq(Completion)
          /\ 1 \in Accepts(ready)
          /\ \A i : i \in Accepts(Tail(ready)) <=> i \in Nat \ {0} /\ i + 1 \in Accepts(ready)
      BY <2>0, <3>1, AcceptsOfTail
    <3>3. Accepts(Tail(ready)) = {}
      <4>1. Accepts(ready) = {1}
        BY <2>0, <3>1, <3>2 DEF OneOnItsWay
      <4>. QED
        BY <3>2, <4>1
    <3>4. /\ ready' \in Seq(Completion) /\ backlog' \in Seq(Clients)
          /\ accepting' \in BOOLEAN /\ OneOnItsWay'
      BY <2>0, <3>1, <3>2, <3>3, TryAcceptStep
    <3>5. Head(ready).client \subseteq Clients
      BY <3>2 DEF Completion
    <3>. QED
      BY <2>0, <3>1, <3>4, <3>5 DEF IInv, TypeOK, Completion
  <2>8. CASE HandleSignal
    <3>1. ready' \in Seq(Completion)
      BY <2>8 DEF HandleSignal
    <3>. QED
      BY <2>0, <2>8, <3>1 DEF HandleSignal, IInv, TypeOK, Completion
  <2>9. ASSUME NEW c \in Clients, HandleRead(c) PROVE IInv'
    <3>1. ready' \in Seq(Completion) /\ OneOnItsWay'
      BY <2>0, <2>9, OtherLeaves DEF HandleRead, Handles
    <3>. QED
      BY <2>0, <2>9, <3>1 DEF HandleRead, IInv, TypeOK, Completion
  <2>10. CASE UNCHANGED vars
    BY <2>0, <2>10 DEF vars, IInv, TypeOK, OneOnItsWay
  <2>. QED
    BY <2>1, <2>2, <2>3, <2>4, <2>5, <2>6, <2>7, <2>8, <2>9, <2>10
       DEF Next, Reactor, Handlers
<1>. QED
  BY <1>1, <1>2

LEMMA Invariance == Spec => []IInv
BY Inductive, PTL DEF Spec

-----------------------------------------------------------------------------
\* Every variable keeps its type: no session is without a client, no completion
\* without an operation.
THEOREM TypeCorrect == Spec => []TypeOK
<1>1. IInv => TypeOK
  BY DEF IInv
<1>. QED
  BY <1>1, Invariance, PTL

\* The chain of accepts neither breaks nor forks: as long as the server runs, one
\* accept waits or one completed accept is in the queue, whatever fails.
THEOREM ChainHolds == Spec => []OneAccept
<1>1. IInv => OneAccept
  <2> SUFFICES ASSUME IInv, ~stopped
               PROVE  (IF accepting THEN 1 ELSE 0) + AcceptsQueued = 1
    BY DEF OneAccept
  <2>1. OneOnItsWay /\ AcceptsQueued = Cardinality(Accepts(ready))
    BY DEF IInv, AcceptsQueued, Accepts
  <2>2. CASE accepting
    BY <2>1, <2>2, FS_EmptySet DEF OneOnItsWay
  <2>3. CASE ~accepting
    <3>1. PICK i : Accepts(ready) = {i}
      BY <2>1, <2>3 DEF OneOnItsWay
    <3>2. AcceptsQueued = 1
      BY <2>1, <3>1, FS_Singleton
    <3>. QED
      BY <2>3, <3>2
  <2>. QED
    BY <2>2, <2>3
<1>. QED
  BY <1>1, Invariance, PTL
-----------------------------------------------------------------------------
(***************************************************************************)
(* The server implements Reception.  On top of IInv a connection has to be *)
(* in one place at a time: in the backlog, in a completion of the queue or *)
(* in a session that reads.                                                *)
(***************************************************************************)
Elements(queue) == { queue[i] : i \in DOMAIN queue }

\* The clients the completions of a queue are about; each is in one of them.
InQueue(queue) == UNION { queue[i].client : i \in DOMAIN queue }

Distinct(queue) ==
  \A i, j \in DOMAIN queue : i # j => queue[i].client \cap queue[j].client = {}

NoRepeats(line) == \A i, j \in DOMAIN line : line[i] = line[j] => i = j

\* The completions there are.  A read is complete when its client has left, and
\* the signal is queued once it has been raised.
Justified(completion) ==
  \/ completion = AcceptFailed
  \/ completion = Signalled /\ signal = "queued"
  \/ \E c \in Clients : completion = Accepted(c)
  \/ \E c \in Clients : completion = Read(c) /\ peer[c] = "gone"

OnePlace ==
  /\ Distinct(ready) /\ NoRepeats(backlog)
  /\ InQueue(ready) \cap reading = {}
  /\ InQueue(ready) \cap Elements(backlog) = {}
  /\ reading \cap Elements(backlog) = {}
  /\ \A c \in InQueue(ready) \cup reading \cup Elements(backlog) : peer[c] # "away"

LaneInv ==
  /\ IInv
  /\ OnePlace
  /\ \A completion \in Elements(ready) : Justified(completion)
  /\ stopped => ready = <<>> /\ reading = {}

LEMMA CompletionsApart ==
  ASSUME NEW c \in Clients
  PROVE  /\ Accepted(c) \in Completion /\ Accepted(c).client = {c}
         /\ Read(c) \in Completion /\ Read(c).client = {c}
         /\ Signalled \in Completion /\ Signalled.client = {}
         /\ AcceptFailed \in Completion /\ AcceptFailed.client = {}
         /\ Accepted(c).op = "accept" /\ AcceptFailed.op = "accept"
         /\ Read(c).op = "read" /\ Signalled.op = "signal"
BY DEF Accepted, Read, Signalled, AcceptFailed, Completion

LEMMA LaneOfAppend ==
  ASSUME NEW queue \in Seq(Completion), NEW completion \in Completion
  PROVE  /\ Append(queue, completion) \in Seq(Completion)
         /\ Elements(Append(queue, completion)) = Elements(queue) \cup {completion}
         /\ InQueue(Append(queue, completion)) = InQueue(queue) \cup completion.client
         /\ Distinct(queue) /\ completion.client \cap InQueue(queue) = {}
              => Distinct(Append(queue, completion))
<1> DEFINE longer == Append(queue, completion)
<1>1. /\ longer \in Seq(Completion) /\ Len(longer) = Len(queue) + 1
      /\ \A i \in 1 .. Len(queue) : longer[i] = queue[i]
      /\ longer[Len(queue) + 1] = completion
  BY AppendProperties
<1>2. /\ Len(queue) \in Nat /\ DOMAIN queue = 1 .. Len(queue)
      /\ DOMAIN longer = 1 .. (Len(queue) + 1)
  BY <1>1
<1> HIDE DEF longer
<1>3. DOMAIN longer = DOMAIN queue \cup {Len(queue) + 1}
  BY <1>2
<1>4. Elements(longer) = Elements(queue) \cup {completion}
  BY <1>1, <1>2, <1>3 DEF Elements
<1>5. InQueue(longer) = InQueue(queue) \cup completion.client
  BY <1>1, <1>2, <1>3 DEF InQueue
<1>6. ASSUME Distinct(queue), completion.client \cap InQueue(queue) = {}
      PROVE  Distinct(longer)
  <2>1. \A i \in DOMAIN queue : queue[i].client \cap completion.client = {}
    BY <1>6 DEF InQueue
  <2>. QED
    BY <1>1, <1>2, <1>3, <1>6, <2>1 DEF Distinct
<1>. QED
  BY <1>1, <1>4, <1>5, <1>6 DEF longer

LEMMA LaneOfTail ==
  ASSUME NEW queue \in Seq(Completion), queue # <<>>
  PROVE  /\ Head(queue) \in Completion /\ Tail(queue) \in Seq(Completion)
         /\ Elements(queue) = {Head(queue)} \cup Elements(Tail(queue))
         /\ Distinct(queue) =>
              /\ Distinct(Tail(queue))
              /\ InQueue(Tail(queue)) = InQueue(queue) \ Head(queue).client
              /\ \A completion \in Elements(Tail(queue)) :
                   completion.client \cap Head(queue).client = {}
<1> DEFINE rest == Tail(queue)
<1>1. /\ Head(queue) \in Completion /\ rest \in Seq(Completion)
      /\ Len(rest) = Len(queue) - 1
      /\ \A i \in 1 .. Len(rest) : rest[i] = queue[i + 1]
  BY HeadTailProperties
<1>2. /\ Len(queue) \in Nat \ {0} /\ DOMAIN queue = 1 .. Len(queue)
      /\ DOMAIN rest = 1 .. (Len(queue) - 1)
      /\ Head(queue) = queue[1]
  BY <1>1
<1> HIDE DEF rest
<1>3. /\ 1 \in DOMAIN queue
      /\ \A i \in DOMAIN rest : i + 1 \in DOMAIN queue /\ i + 1 # 1 /\ rest[i] = queue[i + 1]
      /\ \A i, j \in DOMAIN rest : i # j => i + 1 # j + 1
      /\ \A i \in DOMAIN queue : i = 1 \/ (i - 1 \in DOMAIN rest /\ queue[i] = rest[i - 1])
  BY <1>1, <1>2
<1>4. Elements(queue) = {Head(queue)} \cup Elements(rest)
  <2>1. \A i \in DOMAIN queue : queue[i] \in {Head(queue)} \cup Elements(rest)
    BY <1>2, <1>3 DEF Elements
  <2>2. \A i \in DOMAIN rest : rest[i] \in Elements(queue)
    BY <1>3 DEF Elements
  <2>3. Head(queue) \in Elements(queue)
    BY <1>2, <1>3 DEF Elements
  <2>. QED
    BY <2>1, <2>2, <2>3 DEF Elements
<1>5. ASSUME Distinct(queue)
      PROVE  /\ Distinct(rest)
             /\ InQueue(rest) = InQueue(queue) \ Head(queue).client
             /\ \A completion \in Elements(rest) :
                  completion.client \cap Head(queue).client = {}
  <2>1. Distinct(rest)
    BY <1>3, <1>5 DEF Distinct
  <2>2. \A i \in DOMAIN rest : rest[i].client \cap Head(queue).client = {}
    BY <1>2, <1>3, <1>5 DEF Distinct
  <2>3. InQueue(rest) = InQueue(queue) \ Head(queue).client
    BY <1>2, <1>3, <2>2 DEF InQueue
  <2>. QED
    BY <2>1, <2>2, <2>3 DEF Elements
<1>. QED
  BY <1>1, <1>4, <1>5 DEF rest

LEMMA LineOfTail ==
  ASSUME NEW line \in Seq(Clients), line # <<>>, NoRepeats(line)
  PROVE  /\ Head(line) \in Clients /\ Head(line) \in Elements(line)
         /\ Tail(line) \in Seq(Clients) /\ NoRepeats(Tail(line))
         /\ Elements(Tail(line)) = Elements(line) \ {Head(line)}
         /\ line = <<Head(line)>> \o Tail(line)
<1>1. /\ Head(line) \in Clients /\ Tail(line) \in Seq(Clients)
      /\ Len(Tail(line)) = Len(line) - 1
      /\ \A i \in 1 .. Len(Tail(line)) : Tail(line)[i] = line[i + 1]
  BY HeadTailProperties
<1>2. /\ Len(line) \in Nat \ {0} /\ DOMAIN line = 1 .. Len(line)
      /\ DOMAIN Tail(line) = 1 .. (Len(line) - 1)
      /\ Head(line) = line[1]
  BY <1>1
<1>3. line = <<Head(line)>> \o Tail(line)
  BY <1>1, <1>2, ConcatProperties, HeadTailProperties
<1> DEFINE rest == Tail(line)
<1> HIDE DEF rest
<1>4. /\ 1 \in DOMAIN line
      /\ \A i \in DOMAIN rest : i + 1 \in DOMAIN line /\ i + 1 # 1 /\ rest[i] = line[i + 1]
      /\ \A i, j \in DOMAIN rest : i + 1 = j + 1 => i = j
      /\ \A i \in DOMAIN line : i = 1 \/ (i - 1 \in DOMAIN rest /\ line[i] = rest[i - 1])
  BY <1>1, <1>2 DEF rest
<1>5. NoRepeats(rest)
  BY <1>4 DEF NoRepeats
<1>6. Head(line) \in Elements(line) /\ Elements(rest) = Elements(line) \ {Head(line)}
  BY <1>2, <1>4 DEF Elements, NoRepeats
<1>. QED
  BY <1>1, <1>3, <1>5, <1>6 DEF rest

LEMMA LineOfAppend ==
  ASSUME NEW line \in Seq(Clients), NEW c \in Clients
  PROVE  /\ Append(line, c) \in Seq(Clients)
         /\ Elements(Append(line, c)) = Elements(line) \cup {c}
         /\ NoRepeats(line) /\ c \notin Elements(line) => NoRepeats(Append(line, c))
<1> DEFINE longer == Append(line, c)
<1>1. /\ longer \in Seq(Clients) /\ Len(longer) = Len(line) + 1
      /\ \A i \in 1 .. Len(line) : longer[i] = line[i]
      /\ longer[Len(line) + 1] = c
  BY AppendProperties
<1>2. /\ Len(line) \in Nat /\ DOMAIN line = 1 .. Len(line)
      /\ DOMAIN longer = 1 .. (Len(line) + 1)
  BY <1>1
<1> HIDE DEF longer
<1>3. DOMAIN longer = DOMAIN line \cup {Len(line) + 1}
  BY <1>2
<1>. QED
  BY <1>1, <1>2, <1>3 DEF longer, Elements, NoRepeats

\* What clients see of a queue of completions and a backlog.
ComingIn(queue) == { c \in Clients : Accepted(c) \in Elements(queue) }

WaitingIn(queue, line) ==
  IF ComingIn(queue) = {} THEN line
  ELSE <<CHOOSE c \in ComingIn(queue) : TRUE>> \o line

\* Starting an accept moves at most the oldest connection of the backlog into a
\* queue without an accept, and clients see no difference.
LEMMA TryAcceptLanes ==
  ASSUME NEW queue \in Seq(Completion), backlog \in Seq(Clients), Accepts(queue) = {},
         Distinct(queue), NoRepeats(backlog),
         InQueue(queue) \cap Elements(backlog) = {},
         NEW open, TryAccept(queue, open)
  PROVE  /\ Distinct(ready') /\ NoRepeats(backlog')
         /\ InQueue(ready') \cap Elements(backlog') = {}
         /\ InQueue(ready') \cup Elements(backlog') = InQueue(queue) \cup Elements(backlog)
         /\ \A completion \in Elements(ready') :
              \/ completion \in Elements(queue)
              \/ completion = AcceptFailed
              \/ \E c \in Clients : completion = Accepted(c)
         /\ Elements(queue) \subseteq Elements(ready')
         /\ WaitingIn(ready', backlog') = backlog
<1>1. \A c \in Clients : Accepted(c) \notin Elements(queue)
  BY CompletionsApart DEF Accepts, Elements
<1>2. CASE ready' = queue /\ UNCHANGED backlog
  BY <1>1, <1>2 DEF WaitingIn, ComingIn
<1>3. CASE /\ backlog # <<>> /\ ready' = Append(queue, Accepted(Head(backlog)))
           /\ backlog' = Tail(backlog)
  <2> DEFINE c == Head(backlog)
  <2>1. /\ c \in Clients /\ c \in Elements(backlog) /\ NoRepeats(backlog')
        /\ Elements(backlog') = Elements(backlog) \ {c}
        /\ backlog = <<c>> \o backlog'
    BY <1>3, LineOfTail
  <2> HIDE DEF c
  <2>2. Accepted(c) \in Completion /\ Accepted(c).client = {c}
    BY <2>1, CompletionsApart
  <2>3. /\ Elements(ready') = Elements(queue) \cup {Accepted(c)}
        /\ InQueue(ready') = InQueue(queue) \cup {c}
        /\ Distinct(ready')
    <3>1. {c} \cap InQueue(queue) = {}
      BY <2>1
    <3>. QED
      BY <1>3, <2>2, <3>1, LaneOfAppend DEF c
  <2>4. \A d \in Clients : Accepted(d) \in Elements(ready') <=> d = c
    <3>1. ASSUME NEW d \in Clients, Accepted(d) = Accepted(c) PROVE d = c
      <4>1. {d} = {c}
        BY <2>2, <3>1, CompletionsApart
      <4>. QED
        BY <4>1
    <3>. QED
      BY <1>1, <2>1, <2>3, <3>1
  <2>5. WaitingIn(ready', backlog') = backlog
    <3>1. ComingIn(ready') = {c}
      BY <2>1, <2>4 DEF ComingIn
    <3>. QED
      BY <2>1, <3>1 DEF WaitingIn
  <2>. QED
    BY <2>1, <2>3, <2>5
<1>4. CASE ready' = Append(queue, AcceptFailed) /\ UNCHANGED backlog
  <2>1. AcceptFailed \in Completion /\ AcceptFailed.client = {}
    BY DEF AcceptFailed, Completion
  <2>2. /\ Elements(ready') = Elements(queue) \cup {AcceptFailed}
        /\ InQueue(ready') = InQueue(queue)
        /\ Distinct(ready')
    <3>1. /\ AcceptFailed.client \cap InQueue(queue) = {}
          /\ InQueue(queue) \cup AcceptFailed.client = InQueue(queue)
      BY <2>1
    <3>. QED
      BY <1>4, <2>1, <3>1, LaneOfAppend
  <2>3. \A d \in Clients : Accepted(d) \notin Elements(ready')
    <3>1. ASSUME NEW d \in Clients PROVE Accepted(d) # AcceptFailed
      <4>1. Accepted(d).client = {d}
        BY CompletionsApart
      <4>. QED
        BY <2>1, <4>1
    <3>. QED
      BY <1>1, <2>2, <3>1
  <2>. QED
    BY <1>4, <2>2, <2>3 DEF WaitingIn, ComingIn
<1>. QED
  BY <1>2, <1>3, <1>4 DEF TryAccept

\* What LaneInv says of the types, in the words of the lemmas above.
LEMMA LaneFacts ==
  ASSUME LaneInv
  PROVE  /\ ready \in Seq(Completion) /\ backlog \in Seq(Clients)
         /\ reading \subseteq Clients
         /\ peer \in [Clients -> {"away", "connected", "gone"}]
         /\ Elements(backlog) \subseteq Clients /\ InQueue(ready) \subseteq Clients
         /\ accepting /\ ~stopped => Accepts(ready) = {}
         /\ ~stopped /\ ready # <<>> /\ Head(ready).op = "accept" => Accepts(Tail(ready)) = {}
<1>1. /\ ready \in Seq(Completion) /\ backlog \in Seq(Clients)
      /\ reading \subseteq Clients /\ peer \in [Clients -> {"away", "connected", "gone"}]
      /\ ~stopped => OneOnItsWay
  BY DEF LaneInv, IInv, TypeOK, Completion
<1>2. Elements(backlog) \subseteq Clients /\ InQueue(ready) \subseteq Clients
  <2>1. /\ \A i \in DOMAIN backlog : backlog[i] \in Clients
        /\ \A i \in DOMAIN ready : ready[i] \in Completion
    BY <1>1
  <2>2. \A i \in DOMAIN ready : ready[i].client \subseteq Clients
    BY <2>1 DEF Completion
  <2>. QED
    BY <2>1, <2>2 DEF Elements, InQueue
<1>3. ASSUME ~stopped, ready # <<>>, Head(ready).op = "accept"
      PROVE  Accepts(Tail(ready)) = {}
  <2>1. /\ 1 \in Accepts(ready)
        /\ \A i : i \in Accepts(Tail(ready)) <=> i \in Nat \ {0} /\ i + 1 \in Accepts(ready)
    BY <1>1, <1>3, AcceptsOfTail
  <2>2. Accepts(ready) = {1}
    BY <1>1, <1>3, <2>1 DEF OneOnItsWay
  <2>. QED
    BY <2>1, <2>2
<1>. QED
  BY <1>1, <1>2, <1>3 DEF OneOnItsWay

\* The head of the queue, and what is left when it is taken.
LEMMA HeadFacts ==
  ASSUME LaneInv, ready # <<>>
  PROVE  /\ Head(ready) \in Completion /\ Justified(Head(ready))
         /\ Tail(ready) \in Seq(Completion) /\ Distinct(Tail(ready))
         /\ Elements(ready) = {Head(ready)} \cup Elements(Tail(ready))
         /\ InQueue(Tail(ready)) = InQueue(ready) \ Head(ready).client
         /\ Head(ready).client \subseteq InQueue(ready)
         /\ \A completion \in Elements(Tail(ready)) :
              completion.client \cap Head(ready).client = {}
<1>1. ready \in Seq(Completion) /\ Distinct(ready)
  BY LaneFacts DEF LaneInv, OnePlace
<1>2. /\ Head(ready) \in Completion /\ Tail(ready) \in Seq(Completion)
      /\ Elements(ready) = {Head(ready)} \cup Elements(Tail(ready))
      /\ Distinct(Tail(ready))
      /\ InQueue(Tail(ready)) = InQueue(ready) \ Head(ready).client
      /\ \A completion \in Elements(Tail(ready)) :
           completion.client \cap Head(ready).client = {}
  BY <1>1, LaneOfTail
<1>3. Head(ready).client \subseteq InQueue(ready)
  <2>1. Head(ready) \in Elements(ready)
    BY <1>2
  <2>. QED
    BY <2>1 DEF Elements, InQueue
<1>. QED
  BY <1>2, <1>3 DEF LaneInv

LEMMA LaneInit == Init => LaneInv
<1> SUFFICES ASSUME Init PROVE LaneInv
  OBVIOUS
<1>1. IInv
  BY Inductive
<1>2. /\ backlog = <<>> /\ reading = {} /\ ~stopped
      /\ ready = <<>> \/ ready = <<AcceptFailed>>
  BY DEF Init
<1>3. AcceptFailed.client = {}
  BY DEF AcceptFailed
<1>4. DOMAIN <<>> = {} /\ Elements(<<>>) = {} /\ NoRepeats(backlog) /\ Elements(backlog) = {}
  BY <1>2 DEF Elements, NoRepeats
<1>5. CASE ready = <<>>
  BY <1>1, <1>2, <1>4, <1>5 DEF LaneInv, OnePlace, Distinct, InQueue, Elements
<1>6. CASE ready = <<AcceptFailed>>
  <2>1. DOMAIN ready = {1} /\ ready[1] = AcceptFailed
    BY <1>6
  <2>2. Elements(ready) = {AcceptFailed} /\ InQueue(ready) = {} /\ Distinct(ready)
    BY <1>3, <2>1 DEF Elements, InQueue, Distinct
  <2>. QED
    BY <1>1, <1>2, <1>4, <2>2 DEF LaneInv, OnePlace, Justified
<1>. QED
  BY <1>2, <1>5, <1>6
LEMMA LaneStep == LaneInv /\ [Next]_vars => LaneInv'
<1> SUFFICES ASSUME LaneInv, [Next]_vars PROVE LaneInv'
  OBVIOUS
<1>0. /\ IInv' /\ OnePlace
      /\ \A completion \in Elements(ready) : Justified(completion)
      /\ stopped => ready = <<>> /\ reading = {}
      /\ ready \in Seq(Completion) /\ backlog \in Seq(Clients)
      /\ reading \subseteq Clients
      /\ peer \in [Clients -> {"away", "connected", "gone"}]
      /\ Elements(backlog) \subseteq Clients /\ InQueue(ready) \subseteq Clients
  BY Inductive, LaneFacts DEF LaneInv
<1>1. CASE Raise
  <2>1. signal = "none" /\ UNCHANGED <<backlog, ready, reading, peer, stopped>>
    BY <1>1 DEF Raise
  <2>2. \A completion \in Elements(ready) : Justified(completion)'
    BY <1>0, <2>1 DEF Justified
  <2>. QED
    BY <1>0, <2>1, <2>2 DEF LaneInv, OnePlace
<1>2. ASSUME NEW c \in Clients, Connect(c) PROVE LaneInv'
  <2>1. /\ ~stopped /\ peer[c] = "away" /\ peer' = [peer EXCEPT ![c] = "connected"]
        /\ backlog' = Append(backlog, c) /\ UNCHANGED <<ready, reading, signal, stopped>>
    BY <1>2 DEF Connect
  <2>2. c \notin InQueue(ready) \cup reading \cup Elements(backlog)
    BY <1>0, <2>1 DEF OnePlace
  <2>3. Elements(backlog') = Elements(backlog) \cup {c} /\ NoRepeats(backlog')
    BY <1>0, <2>1, <2>2, LineOfAppend DEF OnePlace
  <2>4. /\ peer'[c] = "connected"
        /\ \A d \in Clients : d # c => peer'[d] = peer[d]
    BY <1>0, <2>1
  <2>5. \A completion \in Elements(ready) : Justified(completion)'
    BY <1>0, <2>1, <2>4 DEF Justified
  <2>6. \A d \in InQueue(ready') \cup reading' \cup Elements(backlog') : peer'[d] # "away"
    BY <1>0, <2>1, <2>3, <2>4 DEF OnePlace
  <2>7. OnePlace'
    BY <1>0, <2>1, <2>2, <2>3, <2>6 DEF OnePlace
  <2>. QED
    BY <1>0, <2>1, <2>5, <2>7 DEF LaneInv
<1>3. ASSUME NEW c \in Clients, Leave(c) PROVE LaneInv'
  <2>1. /\ peer' = [peer EXCEPT ![c] = "gone"]
        /\ UNCHANGED <<backlog, ready, reading, signal, stopped>>
    BY <1>3 DEF Leave
  <2>2. /\ peer'[c] = "gone"
        /\ \A d \in Clients : d # c => peer'[d] = peer[d]
    BY <1>0, <2>1
  <2>3. \A completion \in Elements(ready) : Justified(completion)'
    BY <1>0, <2>1, <2>2 DEF Justified
  <2>4. OnePlace'
    BY <1>0, <2>1, <2>2 DEF OnePlace
  <2>. QED
    BY <1>0, <2>1, <2>3, <2>4 DEF LaneInv
<1>4. CASE PollAccept
  <2>1. /\ ~stopped /\ TryAccept(ready, Open) /\ Accepts(ready) = {}
        /\ UNCHANGED <<reading, peer, signal, stopped>>
    BY <1>4, LaneFacts DEF PollAccept
  <2>2. /\ Distinct(ready') /\ NoRepeats(backlog')
        /\ InQueue(ready') \cap Elements(backlog') = {}
        /\ InQueue(ready') \cup Elements(backlog') = InQueue(ready) \cup Elements(backlog)
        /\ \A completion \in Elements(ready') :
             \/ completion \in Elements(ready)
             \/ completion = AcceptFailed
             \/ \E c \in Clients : completion = Accepted(c)
    BY <1>0, <2>1, TryAcceptLanes DEF OnePlace
  <2>3. \A completion \in Elements(ready') : Justified(completion)'
    BY <1>0, <2>1, <2>2 DEF Justified
  <2>4. OnePlace'
    BY <1>0, <2>1, <2>2 DEF OnePlace
  <2>. QED
    BY <1>0, <2>1, <2>3, <2>4 DEF LaneInv
<1>5. ASSUME NEW c \in Clients, PollRead(c) PROVE LaneInv'
  <2>1. /\ ~stopped /\ c \in reading /\ peer[c] = "gone"
        /\ reading' = reading \ {c} /\ ready' = Append(ready, Read(c))
        /\ UNCHANGED <<backlog, peer, signal, stopped>>
    BY <1>5 DEF PollRead
  <2>2. Read(c) \in Completion /\ Read(c).client = {c}
    BY CompletionsApart
  <2>3. /\ Elements(ready') = Elements(ready) \cup {Read(c)}
        /\ InQueue(ready') = InQueue(ready) \cup {c}
        /\ Distinct(ready')
    <3>1. {c} \cap InQueue(ready) = {}
      BY <1>0, <2>1 DEF OnePlace
    <3>. QED
      BY <1>0, <2>1, <2>2, <3>1, LaneOfAppend DEF OnePlace
  <2>4. \A completion \in Elements(ready') : Justified(completion)'
    BY <1>0, <2>1, <2>3 DEF Justified
  <2>5. OnePlace'
    BY <1>0, <2>1, <2>3 DEF OnePlace
  <2>. QED
    BY <1>0, <2>1, <2>4, <2>5 DEF LaneInv
<1>6. CASE PollSignal
  <2>1. /\ ~stopped /\ signal' = "queued" /\ ready' = Append(ready, Signalled)
        /\ UNCHANGED <<backlog, reading, peer, stopped>>
    BY <1>6 DEF PollSignal
  <2>2. /\ Signalled \in Completion /\ Signalled.client \cap InQueue(ready) = {}
        /\ InQueue(ready) \cup Signalled.client = InQueue(ready)
    BY DEF Signalled, Completion
  <2>3. /\ Elements(ready') = Elements(ready) \cup {Signalled}
        /\ InQueue(ready') = InQueue(ready)
        /\ Distinct(ready')
    BY <1>0, <2>1, <2>2, LaneOfAppend DEF OnePlace
  <2>4. \A completion \in Elements(ready') : Justified(completion)'
    BY <1>0, <2>1, <2>3 DEF Justified
  <2>5. OnePlace'
    BY <1>0, <2>1, <2>3 DEF OnePlace
  <2>. QED
    BY <1>0, <2>1, <2>4, <2>5 DEF LaneInv
<1>7. CASE HandleAccept
  <2>1. /\ ~stopped /\ ready # <<>> /\ Head(ready).op = "accept"
        /\ TryAccept(Tail(ready), Open) /\ reading' = reading \cup Head(ready).client
        /\ UNCHANGED <<peer, signal, stopped>>
    BY <1>7 DEF HandleAccept
  <2>2. /\ Tail(ready) \in Seq(Completion) /\ Distinct(Tail(ready))
        /\ Elements(Tail(ready)) \subseteq Elements(ready)
        /\ InQueue(Tail(ready)) = InQueue(ready) \ Head(ready).client
        /\ Head(ready).client \subseteq InQueue(ready)
        /\ Accepts(Tail(ready)) = {}
    BY <2>1, HeadFacts, LaneFacts
  <2>3. InQueue(Tail(ready)) \cap Elements(backlog) = {}
    BY <1>0, <2>2 DEF OnePlace
  <2>4. /\ Distinct(ready') /\ NoRepeats(backlog')
        /\ InQueue(ready') \cap Elements(backlog') = {}
        /\ InQueue(ready') \cup Elements(backlog')
             = InQueue(Tail(ready)) \cup Elements(backlog)
        /\ \A completion \in Elements(ready') :
             \/ completion \in Elements(Tail(ready))
             \/ completion = AcceptFailed
             \/ \E c \in Clients : completion = Accepted(c)
    BY <1>0, <2>1, <2>2, <2>3, TryAcceptLanes DEF OnePlace
  <2>5. \A completion \in Elements(ready') : Justified(completion)'
    BY <1>0, <2>1, <2>2, <2>4 DEF Justified
  <2>6. OnePlace'
    BY <1>0, <2>1, <2>2, <2>4 DEF OnePlace
  <2>. QED
    BY <1>0, <2>1, <2>5, <2>6 DEF LaneInv
<1>8. CASE HandleSignal
  <2>1. /\ ready' = <<>> /\ reading' = {} /\ stopped'
        /\ UNCHANGED <<backlog, peer, signal>>
    BY <1>8 DEF HandleSignal
  <2>2. DOMAIN <<>> = {} /\ Elements(ready') = {} /\ InQueue(ready') = {} /\ Distinct(ready')
    BY <2>1 DEF Elements, InQueue, Distinct
  <2>. QED
    BY <1>0, <2>1, <2>2 DEF LaneInv, OnePlace
<1>9. ASSUME NEW c \in Clients, HandleRead(c) PROVE LaneInv'
  <2>1. /\ ~stopped /\ ready # <<>> /\ ready' = Tail(ready)
        /\ UNCHANGED <<backlog, reading, peer, signal, stopped>>
    BY <1>9 DEF HandleRead, Handles
  <2>2. /\ Distinct(ready') /\ Elements(ready') \subseteq Elements(ready)
        /\ InQueue(ready') \subseteq InQueue(ready)
    BY <2>1, HeadFacts
  <2>3. \A completion \in Elements(ready') : Justified(completion)'
    BY <1>0, <2>1, <2>2 DEF Justified
  <2>4. OnePlace'
    BY <1>0, <2>1, <2>2 DEF OnePlace
  <2>. QED
    BY <1>0, <2>1, <2>3, <2>4 DEF LaneInv
<1>10. CASE UNCHANGED vars
  BY <1>0, <1>10 DEF vars, LaneInv, OnePlace, Justified
<1>. QED
  BY <1>1, <1>2, <1>3, <1>4, <1>5, <1>6, <1>7, <1>8, <1>9, <1>10
     DEF Next, Reactor, Handlers
LEMMA LaneInvariance == Spec => []LaneInv
BY LaneInit, LaneStep, PTL DEF Spec

\* What clients see, in the terms of the lemmas.
LEMMA View ==
  /\ Waiting = IF stopped THEN <<>> ELSE WaitingIn(ready, backlog)
  /\ Serving = reading \cup { c \in Clients : Read(c) \in Elements(ready) }
  /\ Waiting' = IF stopped' THEN <<>> ELSE WaitingIn(ready', backlog')
  /\ Serving' = reading' \cup { c \in Clients : Read(c) \in Elements(ready') }
BY DEF Waiting, Coming, WaitingIn, ComingIn, Serving, Queued, Elements

\* A completion that is no accept changes nothing for those who wait.
LEMMA ComingKept ==
  ASSUME NEW shorter, NEW longer, NEW completion \in Completion,
         completion.op # "accept", Elements(longer) = Elements(shorter) \cup {completion}
  PROVE  /\ ComingIn(longer) = ComingIn(shorter)
         /\ \A line : WaitingIn(longer, line) = WaitingIn(shorter, line)
<1>1. \A c \in Clients : Accepted(c) # completion
  BY CompletionsApart
<1>2. ComingIn(longer) = ComingIn(shorter)
  BY <1>1 DEF ComingIn
<1>. QED
  BY <1>2 DEF WaitingIn

\* An accept, or the signal, changes nothing for those who are served.
LEMMA ReadsKept ==
  ASSUME NEW shorter, NEW longer, Elements(shorter) \subseteq Elements(longer),
         \A completion \in Elements(longer) \ Elements(shorter) : completion.op # "read"
  PROVE  { c \in Clients : Read(c) \in Elements(longer) }
           = { c \in Clients : Read(c) \in Elements(shorter) }
BY CompletionsApart
\* Taking an accept from the queue and starting the next: the session of the
\* client that has waited longest starts, or nobody notices.
LEMMA AcceptRefines ==
  ASSUME LaneInv, HandleAccept
  PROVE  Reception!Serve \/ UNCHANGED Reception!vars
<1>1. /\ ~stopped /\ ready # <<>> /\ Head(ready).op = "accept"
      /\ TryAccept(Tail(ready), Open) /\ reading' = reading \cup Head(ready).client
      /\ UNCHANGED <<peer, signal, stopped>>
  BY DEF HandleAccept
<1>2. /\ Head(ready) \in Completion /\ Justified(Head(ready))
      /\ Tail(ready) \in Seq(Completion) /\ Distinct(Tail(ready))
      /\ Elements(ready) = {Head(ready)} \cup Elements(Tail(ready))
      /\ InQueue(Tail(ready)) \subseteq InQueue(ready)
      /\ Accepts(Tail(ready)) = {}
  BY <1>1, HeadFacts, LaneFacts
<1>3. /\ WaitingIn(ready', backlog') = backlog
      /\ Elements(Tail(ready)) \subseteq Elements(ready')
      /\ \A completion \in Elements(ready') :
           \/ completion \in Elements(Tail(ready))
           \/ completion = AcceptFailed
           \/ \E c \in Clients : completion = Accepted(c)
  <2>1. InQueue(Tail(ready)) \cap Elements(backlog) = {}
    BY <1>2 DEF LaneInv, OnePlace
  <2>. QED
    BY <1>1, <1>2, <2>1, TryAcceptLanes, LaneFacts DEF LaneInv, OnePlace
<1>4. { c \in Clients : Read(c) \in Elements(ready') }
        = { c \in Clients : Read(c) \in Elements(ready) }
  <2>1. AcceptFailed.op # "read" /\ Head(ready).op # "read"
    BY <1>1 DEF AcceptFailed
  <2>2. { c \in Clients : Read(c) \in Elements(ready') }
          = { c \in Clients : Read(c) \in Elements(Tail(ready)) }
    BY <1>3, <2>1, ReadsKept, CompletionsApart
  <2>3. { c \in Clients : Read(c) \in Elements(ready) }
          = { c \in Clients : Read(c) \in Elements(Tail(ready)) }
    BY <1>2, <2>1, ReadsKept
  <2>. QED
    BY <2>2, <2>3
<1>5. \A c \in Clients : Accepted(c) \notin Elements(Tail(ready))
  BY <1>2, CompletionsApart DEF Accepts, Elements
<1>6. Waiting' = backlog
  BY <1>1, <1>3, View
<1>7. CASE Head(ready) = AcceptFailed
  <2>1. Head(ready).client = {} /\ \A c \in Clients : Accepted(c) # Head(ready)
    <3>1. Head(ready).client = {}
      BY <1>7 DEF AcceptFailed
    <3>2. \A c \in Clients : Accepted(c).client = {c}
      BY CompletionsApart
    <3>. QED
      BY <3>1, <3>2
  <2>2. ComingIn(ready) = {}
    BY <1>2, <1>5, <2>1 DEF ComingIn
  <2>3. Waiting = backlog
    BY <1>1, <2>2, View DEF WaitingIn
  <2>4. Serving' = Serving
    BY <1>1, <1>4, <2>1, View
  <2>. QED
    BY <1>1, <1>6, <2>3, <2>4 DEF Reception!vars
<1>8. ASSUME NEW c \in Clients, Head(ready) = Accepted(c) PROVE Reception!Serve
  <2>1. Head(ready).client = {c} /\ \A d \in Clients : Accepted(d) = Accepted(c) => d = c
    <3>1. \A d \in Clients : Accepted(d).client = {d}
      BY CompletionsApart
    <3>2. ASSUME NEW d \in Clients, Accepted(d) = Accepted(c) PROVE d = c
      <4>1. {d} = {c}
        BY <3>1, <3>2
      <4>. QED
        BY <4>1
    <3>. QED
      BY <1>8, <3>1, <3>2
  <2>2. ComingIn(ready) = {c}
    BY <1>2, <1>5, <1>8, <2>1 DEF ComingIn
  <2>3. Waiting = <<c>> \o backlog
    BY <1>1, <2>2, View DEF WaitingIn
  <2>4. Waiting # <<>> /\ Head(Waiting) = c /\ Tail(Waiting) = backlog
    <3>1. backlog \in Seq(Clients) /\ <<c>> \in Seq(Clients)
      BY LaneFacts
    <3>. QED
      BY <2>3, <3>1, ConcatProperties, HeadTailProperties, ConcatSimplifications
  <2>5. Serving' = Serving \cup {c}
    BY <1>1, <1>4, <2>1, View
  <2>. QED
    BY <1>1, <1>6, <2>4, <2>5 DEF Reception!Serve
<1>9. Head(ready) = AcceptFailed \/ \E c \in Clients : Head(ready) = Accepted(c)
  <2>1. Signalled.op # "accept" /\ \A c \in Clients : Read(c).op # "accept"
    BY DEF Signalled, Read
  <2>. QED
    BY <1>1, <1>2, <2>1 DEF Justified
<1>. QED
  BY <1>7, <1>8, <1>9

\* A session whose read is handled ends, and its client has left.
LEMMA ReadRefines ==
  ASSUME LaneInv, NEW c \in Clients, HandleRead(c)
  PROVE  Reception!EndSession(c)
<1>1. /\ ~stopped /\ ready # <<>> /\ Head(ready) = Read(c) /\ ready' = Tail(ready)
      /\ UNCHANGED <<backlog, reading, peer, signal, stopped>>
  BY DEF HandleRead, Handles
<1>2. /\ Justified(Head(ready))
      /\ Elements(ready) = {Head(ready)} \cup Elements(ready')
      /\ Head(ready).client \subseteq InQueue(ready)
      /\ \A completion \in Elements(ready') :
           completion.client \cap Head(ready).client = {}
  BY <1>1, HeadFacts
<1>3. Read(c) \in Completion /\ Read(c).client = {c} /\ Read(c).op = "read"
  BY CompletionsApart
<1>4. ASSUME NEW d \in Clients, Read(d) = Read(c) PROVE d = c
  <2>1. {d} = {c}
    BY <1>4, CompletionsApart
  <2>. QED
    BY <2>1
<1>5. peer[c] = "gone"
  BY <1>1, <1>2, <1>3, <1>4, CompletionsApart DEF Justified
<1>6. c \notin reading
  BY <1>1, <1>2, <1>3 DEF LaneInv, OnePlace
<1>7. Read(c) \notin Elements(ready')
  BY <1>1, <1>2, <1>3
<1>8. Serving' = Serving \ {c} /\ c \in Serving
  BY <1>1, <1>2, <1>4, <1>6, <1>7, View
<1>9. Waiting' = Waiting
  <2>1. WaitingIn(ready, backlog) = WaitingIn(ready', backlog)
    BY <1>1, <1>2, <1>3, ComingKept
  <2>. QED
    BY <1>1, <2>1, View
<1>. QED
  BY <1>1, <1>5, <1>8, <1>9 DEF Reception!EndSession

LEMMA ConnectRefines ==
  ASSUME LaneInv, NEW c \in Clients, Connect(c)
  PROVE  Reception!Arrive(c)
<1>1. /\ ~stopped /\ peer[c] = "away" /\ peer' = [peer EXCEPT ![c] = "connected"]
      /\ backlog' = Append(backlog, c) /\ UNCHANGED <<ready, reading, signal, stopped>>
  BY DEF Connect
<1>2. peer'[c] = "connected" /\ \A d \in Clients : d # c => peer'[d] = peer[d]
  BY <1>1, LaneFacts
<1>3. Waiting' = Append(Waiting, c)
  <2>1. backlog \in Seq(Clients)
    BY LaneFacts
  <2>2. CASE ComingIn(ready) = {}
    BY <1>1, <2>2, View DEF WaitingIn
  <2>3. CASE ComingIn(ready) # {}
    <3> DEFINE first == CHOOSE d \in ComingIn(ready) : TRUE
    <3>1. first \in Clients
      BY <2>3 DEF ComingIn
    <3>2. Waiting = <<first>> \o backlog /\ Waiting' = <<first>> \o Append(backlog, c)
      BY <1>1, <2>3, View DEF WaitingIn
    <3> HIDE DEF first
    <3>3. <<first>> \in Seq(Clients) /\ <<c>> \in Seq(Clients)
      BY <3>1
    <3>4. /\ Append(backlog, c) = backlog \o <<c>>
          /\ <<first>> \o backlog \in Seq(Clients)
          /\ Append(<<first>> \o backlog, c) = (<<first>> \o backlog) \o <<c>>
      BY <2>1, <3>3, AppendIsConcat, ConcatProperties
    <3>. QED
      BY <2>1, <3>2, <3>3, <3>4, ConcatAssociative
  <2>. QED
    BY <2>2, <2>3
<1>4. Serving' = Serving
  BY <1>1, View
<1>. QED
  BY <1>1, <1>2, <1>3, <1>4 DEF Reception!Arrive

\* Every step of the server is a step of the reception or invisible to clients.
LEMMA StepRefines == LaneInv /\ [Next]_vars => [Reception!Next]_(Reception!vars)
<1> SUFFICES ASSUME LaneInv, [Next]_vars
             PROVE  Reception!Next \/ UNCHANGED Reception!vars
  OBVIOUS
<1>0. /\ ready \in Seq(Completion) /\ backlog \in Seq(Clients)
      /\ peer \in [Clients -> {"away", "connected", "gone"}]
  BY LaneFacts
<1>1. CASE Raise
  <2>1. signal' = "raised" /\ UNCHANGED <<backlog, ready, reading, peer, stopped>>
    BY <1>1 DEF Raise
  <2>2. Waiting' = Waiting /\ Serving' = Serving
    BY <2>1, View
  <2>. QED
    BY <2>1, <2>2 DEF Reception!Next, Reception!Ask
<1>2. ASSUME NEW c \in Clients, Connect(c) PROVE Reception!Next
  BY <1>2, ConnectRefines DEF Reception!Next
<1>3. ASSUME NEW c \in Clients, Leave(c) PROVE Reception!Next
  <2>1. /\ peer[c] = "connected" /\ peer' = [peer EXCEPT ![c] = "gone"]
        /\ UNCHANGED <<backlog, ready, reading, signal, stopped>>
    BY <1>3 DEF Leave
  <2>2. peer'[c] = "gone" /\ \A d \in Clients : d # c => peer'[d] = peer[d]
    BY <1>0, <2>1
  <2>3. Waiting' = Waiting /\ Serving' = Serving
    BY <2>1, View
  <2>4. Reception!Leave(c)
    BY <2>1, <2>2, <2>3 DEF Reception!Leave
  <2>. QED
    BY <2>4 DEF Reception!Next
<1>4. CASE PollAccept
  <2>1. /\ ~stopped /\ TryAccept(ready, Open) /\ Accepts(ready) = {}
        /\ UNCHANGED <<reading, peer, signal, stopped>>
    BY <1>4, LaneFacts DEF PollAccept
  <2>2. ComingIn(ready) = {}
    BY CompletionsApart, <2>1 DEF ComingIn, Accepts, Elements
  <2>3. /\ WaitingIn(ready', backlog') = backlog
        /\ Elements(ready) \subseteq Elements(ready')
        /\ \A completion \in Elements(ready') :
             \/ completion \in Elements(ready)
             \/ completion = AcceptFailed
             \/ \E c \in Clients : completion = Accepted(c)
    BY <1>0, <2>1, TryAcceptLanes DEF LaneInv, OnePlace
  <2>4. AcceptFailed.op # "read" /\ \A c \in Clients : Accepted(c).op # "read"
    BY DEF AcceptFailed, Accepted
  <2>5. { c \in Clients : Read(c) \in Elements(ready') }
          = { c \in Clients : Read(c) \in Elements(ready) }
    BY <2>3, <2>4, ReadsKept
  <2>6. Waiting' = Waiting /\ Serving' = Serving
    BY <2>1, <2>2, <2>3, <2>5, View DEF WaitingIn
  <2>. QED
    BY <2>1, <2>6 DEF Reception!vars
<1>5. ASSUME NEW c \in Clients, PollRead(c) PROVE UNCHANGED Reception!vars
  <2>1. /\ ~stopped /\ c \in reading
        /\ reading' = reading \ {c} /\ ready' = Append(ready, Read(c))
        /\ UNCHANGED <<backlog, peer, signal, stopped>>
    BY <1>5 DEF PollRead
  <2>2. Read(c) \in Completion /\ Read(c).op # "accept"
    BY CompletionsApart DEF Read
  <2>3. Elements(ready') = Elements(ready) \cup {Read(c)}
    BY <1>0, <2>1, <2>2, LaneOfAppend
  <2>4. \A d \in Clients : Read(d) = Read(c) <=> d = c
    <3>1. ASSUME NEW d \in Clients, Read(d) = Read(c) PROVE d = c
      <4>1. {d} = {c}
        BY <3>1, CompletionsApart
      <4>. QED
        BY <4>1
    <3>. QED
      BY <3>1
  <2>5. Serving' = Serving
    BY <2>1, <2>3, <2>4, View
  <2>6. Waiting' = Waiting
    <3>1. WaitingIn(ready', backlog) = WaitingIn(ready, backlog)
      BY <2>2, <2>3, ComingKept
    <3>. QED
      BY <2>1, <3>1, View
  <2>. QED
    BY <2>1, <2>5, <2>6 DEF Reception!vars
<1>6. CASE PollSignal
  <2>1. /\ ~stopped /\ signal = "raised" /\ signal' = "queued"
        /\ ready' = Append(ready, Signalled)
        /\ UNCHANGED <<backlog, reading, peer, stopped>>
    BY <1>6 DEF PollSignal
  <2>2. Signalled \in Completion /\ Signalled.op # "accept" /\ Signalled.op # "read"
    BY DEF Signalled, Completion
  <2>3. Elements(ready') = Elements(ready) \cup {Signalled}
    BY <1>0, <2>1, <2>2, LaneOfAppend
  <2>4. { d \in Clients : Read(d) \in Elements(ready') }
          = { d \in Clients : Read(d) \in Elements(ready) }
    BY <2>2, <2>3, ReadsKept
  <2>5. WaitingIn(ready', backlog) = WaitingIn(ready, backlog)
    BY <2>2, <2>3, ComingKept
  <2>6. Waiting' = Waiting /\ Serving' = Serving
    BY <2>1, <2>4, <2>5, View
  <2>. QED
    BY <2>1, <2>6 DEF Reception!vars
<1>7. CASE HandleAccept
  BY <1>7, AcceptRefines DEF Reception!Next
<1>8. CASE HandleSignal
  <2>1. /\ ~stopped /\ ready # <<>> /\ Head(ready) = Signalled
        /\ stopped' = TRUE /\ ready' = <<>> /\ reading' = {}
        /\ UNCHANGED <<backlog, peer, signal>>
    BY <1>8 DEF HandleSignal, Handles
  <2>2. signal = "queued"
    <3>1. Justified(Signalled)
      BY <1>0, <2>1, HeadFacts
    <3>2. /\ Signalled # AcceptFailed
          /\ \A c \in Clients : Signalled # Accepted(c) /\ Signalled # Read(c)
      <4>1. /\ Signalled.op = "signal" /\ AcceptFailed.op = "accept"
            /\ \A c \in Clients : Accepted(c).op = "accept" /\ Read(c).op = "read"
        BY DEF Signalled, AcceptFailed, Accepted, Read
      <4>. QED
        BY <4>1
    <3>. QED
      BY <3>1, <3>2 DEF Justified
  <2>3. Waiting' = <<>> /\ Serving' = {}
    <3>1. Elements(ready') = {}
      BY <2>1 DEF Elements
    <3>. QED
      BY <2>1, <3>1, View
  <2>4. Reception!Stop
    BY <2>1, <2>2, <2>3 DEF Reception!Stop
  <2>. QED
    BY <2>4 DEF Reception!Next
<1>9. ASSUME NEW c \in Clients, HandleRead(c) PROVE Reception!Next
  BY <1>9, ReadRefines DEF Reception!Next
<1>10. CASE UNCHANGED vars
  <2>1. Waiting' = Waiting /\ Serving' = Serving
    BY <1>10, View DEF vars
  <2>. QED
    BY <1>10, <2>1 DEF vars, Reception!vars
<1>. QED
  BY <1>1, <1>2, <1>3, <1>4, <1>5, <1>6, <1>7, <1>8, <1>9, <1>10
     DEF Next, Reactor, Handlers

\* At the start nobody has connected, and the queue holds no client.
LEMMA InitRefines == Init => Reception!Init
<1> SUFFICES ASSUME Init PROVE Reception!Init
  OBVIOUS
<1>1. \A c \in Clients : Accepted(c) \notin Elements(ready) /\ Read(c) \notin Elements(ready)
  <2>1. \A completion \in Elements(ready) : completion.client = {}
    BY DEF Init, Elements, AcceptFailed
  <2>2. \A c \in Clients : Accepted(c).client = {c} /\ Read(c).client = {c}
    BY CompletionsApart
  <2>. QED
    BY <2>1, <2>2
<1>2. Waiting = <<>>
  BY <1>1, View DEF WaitingIn, ComingIn, Init
<1>3. Serving = {}
  BY <1>1, View DEF Init
<1>. QED
  BY <1>2, <1>3 DEF Init, Reception!Init

\* The server keeps what it promises to clients, whatever accepts fail, for any
\* number of clients and descriptors: connections are served in the order in which
\* they were made, once each, and sessions end with their client or the server.
THEOREM Refinement == Spec => ImplementsReception
BY InitRefines, StepRefines, LaneInvariance, PTL
   DEF Spec, ImplementsReception, Reception!Spec
=============================================================================
