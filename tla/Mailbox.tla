------------------------------ MODULE Mailbox ------------------------------
(***************************************************************************)
(* What the relay promises about the messages it accepts, without sockets, *)
(* backlogs or callbacks: a durable mailbox with at-least-once hand-over.  *)
(*                                                                         *)
(* A message is accepted once, for one recipient, and keeps that recipient.*)
(* It may be handed to a transport of that recipient any number of times.  *)
(* It is marked delivered at most once, never before it was handed over,   *)
(* and the mark is never withdrawn.  The recipient hears only messages     *)
(* that were handed over for it.                                           *)
(***************************************************************************)
CONSTANTS Clients, Msgs, NoClient

VARIABLES
  to,           \* recipient of each message, NoClient before acceptance
  handed,       \* messages that were written to a socket of their recipient
  delivered,    \* messages whose row says delivered = 1
  heard         \* heard[c]: messages that reached the client c

mailbox == <<to, handed, delivered, heard>>

Accepted(t) == {m \in Msgs : t[m] # NoClient}

Init ==
  /\ to = [m \in Msgs |-> NoClient]
  /\ handed = {}
  /\ delivered = {}
  /\ heard = [c \in Clients |-> {}]

\* At most one message m, accepted in the state t, is handed over.
HandOver(t) ==
  \/ UNCHANGED handed
  \/ \E m \in Accepted(t) : handed' = handed \cup {m}

\* A message is stored; it, or none, is handed over in the same step.
Accept(m, c) ==
  /\ to[m] = NoClient
  /\ to' = [to EXCEPT ![m] = c]
  /\ handed' \in {handed, handed \cup {m}}
  /\ UNCHANGED <<delivered, heard>>

\* A message that was handed over is marked delivered; the next one may be
\* handed over in the same step.
Settle(m) ==
  /\ m \in handed
  /\ delivered' = delivered \cup {m}
  /\ HandOver(to)
  /\ UNCHANGED <<to, heard>>

\* A message is handed over (again) on its own, when its recipient connects.
Offer ==
  /\ HandOver(to)
  /\ UNCHANGED <<to, delivered, heard>>

\* The recipient hears a message handed over for it.
Hear(m) ==
  /\ m \in handed
  /\ heard' = [heard EXCEPT ![to[m]] = @ \cup {m}]
  /\ UNCHANGED <<to, handed, delivered>>

Next ==
  \/ \E m \in Msgs, c \in Clients : Accept(m, c)
  \/ \E m \in Msgs : Settle(m)
  \/ Offer
  \/ \E m \in Msgs : Hear(m)

Spec == Init /\ [][Next]_mailbox
=============================================================================
