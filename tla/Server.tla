-------------------------------- MODULE Server --------------------------------
(***************************************************************************)
(* The server (server/src/Main.cpp): one thread in io_service::run(), an   *)
(* acceptor with one asynchronous accept at a time, one Session for each   *)
(* client, kept alive by the handler of its read, and a signal that stops  *)
(* the io_service.                                                         *)
(*                                                                         *)
(* Of boost::asio the model keeps what the server relies on: completed     *)
(* operations wait in one queue and their handlers run in that order; an   *)
(* operation that can complete when it is started, or cannot succeed, is   *)
(* queued at once, the others when the reactor finds them ready.           *)
(***************************************************************************)
EXTENDS Integers, Sequences, FiniteSets

CONSTANTS Clients,  \* the clients that may connect
          MaxFds    \* connections the process may have open

ASSUME ClientsAssumption == IsFiniteSet(Clients)
ASSUME MaxFdsAssumption == MaxFds \in Nat \ {0}

VARIABLES
  listening,  \* SetupListener() succeeded; its result is ignored
  backlog,    \* connections the kernel has for the acceptor, oldest first
  accepting,  \* an accept waits for a connection
  ready,      \* completed operations whose handlers have not run
  reading,    \* clients whose session has a read that is not complete
  peer,       \* what each client has done: away, connected, gone
  signal,     \* SIGINT or SIGTERM: none, raised, queued
  stopped     \* the io_service is stopped and run() has returned

vars == <<listening, backlog, accepting, ready, reading, peer, signal, stopped>>

\* Completions.  A failed accept is an accept of nobody.
Accepted(c)  == [op |-> "accept", client |-> {c}]
AcceptFailed == [op |-> "accept", client |-> {}]
Read(c)      == [op |-> "read", client |-> {c}]
Signalled    == [op |-> "signal", client |-> {}]

Queued == { ready[i] : i \in DOMAIN ready }

\* Sessions with an open socket: a handler that is bound to them is pending.
Open == reading \cup UNION { completion.client : completion \in Queued }

\* The constructor up to run(): no client is there when the first accept is
\* started, which fails at once on an acceptor that does not listen.
Init ==
  /\ listening \in BOOLEAN
  /\ accepting = listening
  /\ ready = IF listening THEN <<>> ELSE <<AcceptFailed>>
  /\ backlog = <<>>
  /\ reading = {}
  /\ peer = [c \in Clients |-> "away"]
  /\ signal = "none"
  /\ stopped = FALSE

-----------------------------------------------------------------------------
(***************************************************************************)
(* Clients, kernel and reactor.                                            *)
(***************************************************************************)
Connect(c) ==
  /\ listening /\ ~stopped
  /\ peer[c] = "away"
  /\ peer' = [peer EXCEPT ![c] = "connected"]
  /\ backlog' = Append(backlog, c)
  /\ UNCHANGED <<listening, accepting, ready, reading, signal, stopped>>

\* The client sends all it has to say and closes, or breaks the connection.
Leave(c) ==
  /\ peer[c] = "connected"
  /\ peer' = [peer EXCEPT ![c] = "gone"]
  /\ UNCHANGED <<listening, backlog, accepting, ready, reading, signal, stopped>>

Raise ==
  /\ signal = "none"
  /\ signal' = "raised"
  /\ UNCHANGED <<listening, backlog, accepting, ready, reading, peer, stopped>>

\* Mutants: a failed accept goes before the other completions; an accept that
\* finds nobody does not wait.
TryAcceptFirst(queue, open) ==
  IF listening /\ Cardinality(open) < MaxFds
  THEN IF backlog = <<>>
       THEN accepting' = TRUE /\ ready' = queue /\ UNCHANGED backlog
       ELSE /\ accepting' = FALSE
            /\ ready' = Append(queue, Accepted(Head(backlog)))
            /\ backlog' = Tail(backlog)
  ELSE accepting' = FALSE /\ ready' = <<AcceptFailed>> \o queue /\ UNCHANGED backlog

TryAcceptPolling(queue, open) ==
  /\ accepting' = FALSE
  /\ IF listening /\ backlog # <<>> /\ Cardinality(open) < MaxFds
     THEN /\ ready' = Append(queue, Accepted(Head(backlog)))
          /\ backlog' = Tail(backlog)
     ELSE ready' = Append(queue, AcceptFailed) /\ UNCHANGED backlog

\* An accept that is started, or found ready, when queue is the queue and open
\* are the sessions with an open socket.  The kernel looks for a descriptor
\* before it looks at the backlog.
TryAccept(queue, open) ==
  IF listening /\ Cardinality(open) < MaxFds
  THEN IF backlog = <<>>
       THEN accepting' = TRUE /\ ready' = queue /\ UNCHANGED backlog
       ELSE /\ accepting' = FALSE
            /\ ready' = Append(queue, Accepted(Head(backlog)))
            /\ backlog' = Tail(backlog)
  ELSE accepting' = FALSE /\ ready' = Append(queue, AcceptFailed) /\ UNCHANGED backlog

PollAccept ==
  /\ ~stopped
  /\ accepting /\ backlog # <<>>
  /\ TryAccept(ready, Open)
  /\ UNCHANGED <<listening, reading, peer, signal, stopped>>

\* async_read ends with the connection: its buffer has no limit.
PollRead(c) ==
  /\ ~stopped
  /\ c \in reading /\ peer[c] = "gone"
  /\ reading' = reading \ {c}
  /\ ready' = Append(ready, Read(c))
  /\ UNCHANGED <<listening, backlog, accepting, peer, signal, stopped>>

PollSignal ==
  /\ ~stopped
  /\ signal = "raised"
  /\ signal' = "queued"
  /\ ready' = Append(ready, Signalled)
  /\ UNCHANGED <<listening, backlog, accepting, reading, peer, stopped>>

-----------------------------------------------------------------------------
(***************************************************************************)
(* Handlers, run one at a time by io_service::run().                       *)
(***************************************************************************)
Handles(completion) == ~stopped /\ ready # <<>> /\ Head(ready) = completion

\* Mutants: a session is started whatever happened; an error ends accepting.
HandleAcceptUnchecked ==
  /\ ~stopped
  /\ ready # <<>> /\ Head(ready).op = "accept"
  /\ reading' = reading \cup IF Head(ready).client = {} THEN {"nobody"}
                                                      ELSE Head(ready).client
  /\ TryAccept(Tail(ready), Open)
  /\ UNCHANGED <<listening, peer, signal, stopped>>

HandleAcceptGivesUp ==
  /\ ~stopped
  /\ ready # <<>> /\ Head(ready).op = "accept"
  /\ reading' = reading \cup Head(ready).client
  /\ IF Head(ready).client = {}
     THEN ready' = Tail(ready) /\ UNCHANGED <<accepting, backlog>>
     ELSE TryAccept(Tail(ready), Open)
  /\ UNCHANGED <<listening, peer, signal, stopped>>

\* Mutant: the session of the client is not started and goes with the handler.
HandleAcceptForgetsSession ==
  /\ ~stopped
  /\ ready # <<>> /\ Head(ready).op = "accept"
  /\ TryAccept(Tail(ready), Open \ Head(ready).client)
  /\ UNCHANGED <<listening, reading, peer, signal, stopped>>

\* HandleAccept: starts the session of the client, if there is one, and in any
\* case the next accept.
HandleAccept ==
  /\ ~stopped
  /\ ready # <<>> /\ Head(ready).op = "accept"
  /\ LET client == Head(ready).client
     IN  /\ reading' = reading \cup client
         /\ TryAccept(Tail(ready), Open)
  /\ UNCHANGED <<listening, peer, signal, stopped>>

\* Mutant: reads on.
HandleReadAgain(c) ==
  /\ Handles(Read(c))
  /\ ready' = Tail(ready)
  /\ reading' = reading \cup {c}
  /\ UNCHANGED <<listening, backlog, accepting, peer, signal, stopped>>

\* HandleRead: logs; nothing holds the session any more and its socket closes.
HandleRead(c) ==
  /\ Handles(Read(c))
  /\ ready' = Tail(ready)
  /\ UNCHANGED <<listening, backlog, accepting, reading, peer, signal, stopped>>

\* The signal's handler stops the io_service: run() returns, main() ends, the
\* pending operations and their sessions are destroyed.
HandleSignal ==
  /\ Handles(Signalled)
  /\ stopped' = TRUE
  /\ accepting' = FALSE
  /\ ready' = <<>>
  /\ reading' = {}
  /\ UNCHANGED <<listening, backlog, peer, signal>>

Reactor == PollAccept \/ PollSignal \/ \E c \in Clients : PollRead(c)

Handlers == HandleAccept \/ HandleSignal \/ \E c \in Clients : HandleRead(c)

Next ==
  \/ Raise
  \/ \E c \in Clients : Connect(c) \/ Leave(c)
  \/ Reactor
  \/ Handlers

\* run() goes on while there is a handler to run, and lets the reactor look at
\* every descriptor in between.
Fairness ==
  /\ WF_vars(Handlers)
  /\ WF_vars(PollAccept)
  /\ WF_vars(PollSignal)
  /\ \A c \in Clients : WF_vars(PollRead(c))

Spec == Init /\ [][Next]_vars /\ Fairness

-----------------------------------------------------------------------------
\* The queues hold clients and completions of the three kinds only.
TypeOK ==
  /\ listening \in BOOLEAN /\ accepting \in BOOLEAN /\ stopped \in BOOLEAN
  /\ backlog \in Seq(Clients)
  /\ ready \in Seq([op : {"accept", "read", "signal"}, client : SUBSET Clients])
  /\ reading \subseteq Clients
  /\ peer \in [Clients -> {"away", "connected", "gone"}]
  /\ signal \in {"none", "raised", "queued"}

AcceptsQueued == Cardinality({ i \in DOMAIN ready : ready[i].op = "accept" })

\* Whatever fails, the running server has exactly one accept on its way: it
\* never stops accepting and never starts two accepts on its acceptor.
OneAccept ==
  ~stopped => (IF accepting THEN 1 ELSE 0) + AcceptsQueued = 1

\* Failed accepts are retried at once, so that the process may be busy for as
\* long as it likes; the signal is served all the same.
StopsWhenAsked == signal = "raised" ~> stopped

\* The handler of the read is the last to hold a session: once its client is
\* gone its descriptor is given back.
DescriptorsFreed ==
  \A c \in Clients : c \in Open /\ peer[c] = "gone" ~> c \notin Open

\* Unless it is stopped, the server starts a session for every client that
\* connects, if it is not short of descriptors for ever.
EveryoneServed ==
  []<>(Cardinality(Open) < MaxFds)
    => \A c \in Clients :
         peer[c] = "connected" ~> (stopped \/ c \in reading \/ peer[c] = "gone")

\* A server that listens and has a descriptor to spare comes to rest: it spins
\* only while accepting fails.
ComesToRest ==
  listening => (<>[](Cardinality(Open) < MaxFds) => []<>(stopped \/ ready = <<>>))

-----------------------------------------------------------------------------
(***************************************************************************)
(* What clients see of the server.                                         *)
(***************************************************************************)

\* The client whose accept is completed, if there is one.
Coming == { c \in Clients : Accepted(c) \in Queued }

\* The connections without a session, oldest first.
Waiting ==
  IF stopped THEN <<>>
  ELSE IF Coming = {} THEN backlog
  ELSE <<CHOOSE c \in Coming : TRUE>> \o backlog

\* The sessions: their read is pending, or completed and not handled.
Serving == reading \cup { c \in Clients : Read(c) \in Queued }

\* Whatever accepts fail and however completions queue up, the server serves
\* connections in the order in which they were made, each by one session that lasts
\* until the client leaves, and stops only when asked: no connection is lost,
\* served twice or out of its turn.
Reception == INSTANCE Reception
  WITH arrived <- { c \in Clients : peer[c] # "away" },
       left    <- { c \in Clients : peer[c] = "gone" },
       waiting <- Waiting,
       serving <- Serving,
       asked   <- signal # "none"
ImplementsReception == Reception!Spec
=============================================================================
