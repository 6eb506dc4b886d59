------------------------------ MODULE Reception ------------------------------
(***************************************************************************)
(* What the server promises to those who connect: sessions are started in  *)
(* the order in which the connections were made, one for each of them, and *)
(* a session ends when its client has left, or with the server, which      *)
(* stops only when it is asked to.  Nothing is said of failed accepts, of  *)
(* descriptors and of the queue of completions.                            *)
(***************************************************************************)
EXTENDS Sequences

CONSTANT Clients

VARIABLES arrived,  \* the clients that have ever connected
          left,     \* those of them that have left again
          waiting,  \* connections without a session yet, oldest first
          serving,  \* the clients with a session
          asked,    \* somebody wants the server to stop
          stopped   \* and it has

vars == <<arrived, left, waiting, serving, asked, stopped>>

Init ==
  /\ arrived = {} /\ left = {}
  /\ waiting = <<>>
  /\ serving = {}
  /\ asked = FALSE /\ stopped = FALSE

Arrive(c) ==
  /\ ~stopped
  /\ c \notin arrived
  /\ arrived' = arrived \cup {c}
  /\ waiting' = Append(waiting, c)
  /\ UNCHANGED <<left, serving, asked, stopped>>

Leave(c) ==
  /\ c \in arrived \ left
  /\ left' = left \cup {c}
  /\ UNCHANGED <<arrived, waiting, serving, asked, stopped>>

\* The session of the client that has waited longest.
Serve ==
  /\ ~stopped
  /\ waiting # <<>>
  /\ serving' = serving \cup {Head(waiting)}
  /\ waiting' = Tail(waiting)
  /\ UNCHANGED <<arrived, left, asked, stopped>>

EndSession(c) ==
  /\ c \in serving \cap left
  /\ serving' = serving \ {c}
  /\ UNCHANGED <<arrived, left, waiting, asked, stopped>>

Ask ==
  /\ asked' = TRUE
  /\ UNCHANGED <<arrived, left, waiting, serving, stopped>>

\* Whoever waits is turned away, every session ends.
Stop ==
  /\ asked /\ ~stopped
  /\ stopped' = TRUE
  /\ waiting' = <<>>
  /\ serving' = {}
  /\ UNCHANGED <<arrived, left, asked>>

Next ==
  \/ \E c \in Clients : Arrive(c) \/ Leave(c) \/ EndSession(c)
  \/ Serve
  \/ Ask
  \/ Stop

Spec == Init /\ [][Next]_vars
=============================================================================
