------------------------- MODULE RelayServer_proofs -------------------------
(***************************************************************************)
(* Theorems about the message path of the relay, for any number of         *)
(* clients, messages and sockets.                                          *)
(***************************************************************************)
EXTENDS RelayServer, TLAPS

-----------------------------------------------------------------------------
(***************************************************************************)
(* Type correctness.                                                       *)
(***************************************************************************)
\* A write appends one send to one socket.
LEMMA WriteType ==
  ASSUME TypeOK, NEW s \in Sockets, NEW m \in Msgs,
         NEW task \in {"pending", "direct"}, Write(s, m, task)
  PROVE  sent' \in [Sockets -> Seq(Send)]
<1>1. [msg |-> m, task |-> task] \in Send
  BY DEF Send
<1>2. Append(sent[s], [msg |-> m, task |-> task]) \in Seq(Send)
  BY <1>1 DEF TypeOK
<1>3. QED
  BY <1>2 DEF TypeOK, Write

\* A step of deliverPending's loop over some rows keeps the types.
LEMMA SendNextType ==
  ASSUME TypeOK, NEW s \in Sockets, NEW rows \in SUBSET Msgs, SendNext(s, rows)
  PROVE  /\ sent' \in [Sockets -> Seq(Send)]
         /\ backlog' \in [Sockets -> SUBSET Msgs]
<1>1. CASE rows = {} /\ UNCHANGED <<sent, backlog>>
  BY <1>1 DEF TypeOK
<1>2. ASSUME NEW m \in Oldest(rows), Write(s, m, "pending"),
             backlog' = [backlog EXCEPT ![s] = rows \ {m}]
      PROVE  /\ sent' \in [Sockets -> Seq(Send)]
             /\ backlog' \in [Sockets -> SUBSET Msgs]
  <2>1. m \in Msgs
    BY DEF Oldest
  <2>2. QED
    BY <1>2, <2>1, WriteType DEF TypeOK
<1>3. QED
  BY <1>1, <1>2 DEF SendNext

\* The send whose callback runs next is a send.
LEMMA AwaitedType ==
  ASSUME TypeOK, NEW s \in Sockets, Awaiting(s)
  PROVE  /\ settled[s] + 1 \in DOMAIN sent[s]
         /\ Awaited(s) \in Send
         /\ Awaited(s).msg \in Msgs
<1>1. sent[s] \in Seq(Send) /\ settled[s] \in Nat /\ settled[s] < Len(sent[s])
  BY DEF TypeOK, Awaiting
<1>2. settled[s] + 1 \in 1..Len(sent[s])
  BY <1>1
<1>3. Awaited(s) \in Send
  BY <1>1, <1>2 DEF Awaited
<1>4. QED
  BY <1>1, <1>2, <1>3 DEF Send

\* The catch blocks keep the types.
LEMMA AbandonType ==
  ASSUME TypeOK, NEW s \in Sockets, Awaiting(s), Abandon(s)
  PROVE  /\ sent' \in [Sockets -> Seq(Send)]
         /\ backlog' \in [Sockets -> SUBSET Msgs]
         /\ reply' \in [Msgs -> {"none", "delivered", "queued"}]
BY AwaitedType DEF TypeOK, Abandon, StopLoop

LEMMA TypeStep ==
  ASSUME TypeOK, [Next]_vars
  PROVE  TypeOK'
<1> USE RelayAssumption
<1>1. ASSUME NEW c \in Clients, Register(c) PROVE TypeOK'
  BY <1>1 DEF TypeOK, Register, sockets, sending, remote
<1>2. ASSUME NEW m \in Msgs, NEW c \in Clients, PostMessage(m, c) PROVE TypeOK'
  <2>1. sent' \in [Sockets -> Seq(Send)]
    BY <1>2, WriteType DEF PostMessage, DeliverIfConnected, Connected, TypeOK
  <2>2. reply' \in [Msgs -> {"none", "delivered", "queued"}]
    BY <1>2 DEF PostMessage, DeliverIfConnected, TypeOK
  <2>3. clock' \in Nat
    BY <1>2 DEF PostMessage, TypeOK
  <2>4. QED
    BY <1>2, <2>1, <2>2, <2>3 DEF TypeOK, PostMessage, sockets, remote
<1>3. ASSUME NEW c \in Clients, NEW s \in Sockets, Connect(c, s) PROVE TypeOK'
  <2>1. /\ sent' \in [Sockets -> Seq(Send)]
        /\ backlog' \in [Sockets -> SUBSET Msgs]
    <3>1. Pending(c) \in SUBSET Msgs
      BY DEF Pending
    <3>2. QED
      BY <1>3, <3>1, SendNextType DEF Connect
  <2>2. readyState' \in [Sockets -> ReadyStates]
    BY <1>3 DEF Connect, TypeOK, ReadyStates
  <2>3. QED
    BY <1>3, <2>1, <2>2 DEF TypeOK, Connect, database
<1>4. ASSUME NEW s \in Sockets, SendResolved(s) PROVE TypeOK'
  <2>1. Awaited(s).msg \in Msgs
    BY <1>4, AwaitedType DEF SendResolved
  <2>2. /\ sent' \in [Sockets -> Seq(Send)]
        /\ backlog' \in [Sockets -> SUBSET Msgs]
    <3>1. backlog[s] \in SUBSET Msgs
      BY DEF TypeOK
    <3>2. CASE SendNext(s, backlog[s])
      BY <3>1, <3>2, SendNextType
    <3>3. CASE ~SendNext(s, backlog[s])
      BY <1>4, <3>3 DEF SendResolved, StopLoop, TypeOK
    <3>4. QED
      BY <3>2, <3>3
  <2>3. reply' \in [Msgs -> {"none", "delivered", "queued"}]
    BY <1>4 DEF SendResolved, TypeOK
  <2>4. settled' \in [Sockets -> Nat] /\ delivered' \subseteq Msgs
    BY <1>4, <2>1 DEF SendResolved, TypeOK
  <2>5. UNCHANGED <<up, users, to, createdAt, clock, sockets, remote>>
    BY <1>4 DEF SendResolved
  <2>6. QED
    BY <2>2, <2>3, <2>4, <2>5 DEF TypeOK, sockets, remote
<1>5. ASSUME NEW s \in Sockets, SendRejected(s) PROVE TypeOK'
  BY <1>5, AbandonType DEF TypeOK, SendRejected, database, sockets, remote
<1>6. ASSUME NEW s \in Sockets, MarkThrows(s) PROVE TypeOK'
  BY <1>6, AbandonType DEF TypeOK, MarkThrows, database, sockets, remote
<1>7. ASSUME NEW s \in Sockets, SocketClosed(s) PROVE TypeOK'
  BY <1>7 DEF TypeOK, SocketClosed, DropEntry, ReadyStates, database, sending,
              remote
<1>8. ASSUME NEW s \in Sockets, SocketError(s) PROVE TypeOK'
  BY <1>8 DEF TypeOK, SocketError, DropEntry, ReadyStates, database, sending,
              remote
<1>9. CASE Halt
  <2>1. \A s \in Sockets : Len(sent[s]) \in Nat
    BY DEF TypeOK
  <2>2. QED
    BY <1>9, <2>1 DEF TypeOK, Halt, ReadyStates, database, remote
<1>10. CASE Restart
  BY <1>10 DEF TypeOK, Restart, database, sockets, sending, remote
<1>11. ASSUME NEW s \in Sockets, ClientReads(s) PROVE TypeOK'
  BY <1>11 DEF TypeOK, ClientReads, database, sockets, sending
<1>12. ASSUME NEW s \in Sockets, PeerLost(s) PROVE TypeOK'
  BY <1>12 DEF TypeOK, PeerLost, database, sockets, sending
<1>13. ASSUME NEW s \in Sockets, CloseFrame(s) PROVE TypeOK'
  BY <1>13 DEF TypeOK, CloseFrame, ReadyStates, database, sending, remote
<1>14. ASSUME NEW s \in Sockets, TransportError(s) PROVE TypeOK'
  BY <1>14 DEF TypeOK, TransportError, ReadyStates, database, sending, remote
<1>15. CASE UNCHANGED vars
  BY <1>15 DEF TypeOK, vars, database, sockets, sending, remote
<1>16. QED
  BY <1>1, <1>2, <1>3, <1>4, <1>5, <1>6, <1>7, <1>8, <1>9, <1>10, <1>11,
     <1>12, <1>13, <1>14, <1>15 DEF Next, Relay, Network

\* The variables keep their types.
THEOREM TypeCorrect == Spec => []TypeOK
<1>1. Init => TypeOK
  BY DEF Init, TypeOK, ReadyStates
<1>2. TypeOK /\ [Next]_vars => TypeOK'
  BY TypeStep
<1>3. QED
  BY <1>1, <1>2, PTL DEF Spec

-----------------------------------------------------------------------------
(***************************************************************************)
(* What the helpers do to the sends and the backlog of a socket.           *)
(***************************************************************************)
\* A write extends the sends of one socket by one.
LEMMA WriteEffect ==
  ASSUME TypeOK, NEW s \in Sockets, NEW m \in Msgs,
         NEW task \in {"pending", "direct"}, Write(s, m, task)
  PROVE  /\ \A t \in Sockets : t # s => sent'[t] = sent[t]
         /\ Len(sent'[s]) = Len(sent[s]) + 1
         /\ \A i \in DOMAIN sent[s] : i \in DOMAIN sent'[s] /\ sent'[s][i] = sent[s][i]
         /\ \A i \in DOMAIN sent'[s] :
              i \in DOMAIN sent[s] \/ (i = Len(sent[s]) + 1
                                       /\ sent'[s][i].msg = m
                                       /\ sent'[s][i].task = task)
<1> DEFINE e == [msg |-> m, task |-> task]
<1>1. sent[s] \in Seq(Send) /\ e \in Send
  BY DEF TypeOK, Send
<1>2. sent'[s] = Append(sent[s], e)
  BY DEF Write, TypeOK
<1>3. \A t \in Sockets : t # s => sent'[t] = sent[t]
  BY DEF Write, TypeOK
<1>4. e.msg = m /\ e.task = task
  OBVIOUS
<1> HIDE DEF e
<1>5. QED
  BY <1>1, <1>2, <1>3, <1>4

\* The loop of deliverPending touches one socket and only extends its sends.
LEMMA SendNextEffect ==
  ASSUME TypeOK, NEW s \in Sockets, NEW rows \in SUBSET Msgs, SendNext(s, rows)
  PROVE  /\ \A t \in Sockets : t # s => sent'[t] = sent[t] /\ backlog'[t] = backlog[t]
         /\ Len(sent'[s]) >= Len(sent[s])
<1>1. CASE rows = {} /\ UNCHANGED <<sent, backlog>>
  BY <1>1 DEF TypeOK
<1>2. ASSUME NEW m \in Oldest(rows), Write(s, m, "pending"),
             backlog' = [backlog EXCEPT ![s] = rows \ {m}]
      PROVE  /\ \A t \in Sockets : t # s => sent'[t] = sent[t] /\ backlog'[t] = backlog[t]
             /\ Len(sent'[s]) >= Len(sent[s])
  <2>1. m \in Msgs /\ Len(sent[s]) \in Nat
    BY DEF Oldest, TypeOK
  <2>2. QED
    BY <1>2, <2>1, WriteEffect DEF TypeOK
<1>3. QED
  BY <1>1, <1>2 DEF SendNext

-----------------------------------------------------------------------------
(***************************************************************************)
(* The map and the sockets.                                                *)
(***************************************************************************)
LEMMA BookkeepingStep ==
  ASSUME TypeOK, Bookkeeping, [Next]_vars
  PROVE  Bookkeeping'
<1> USE RelayAssumption DEF Bookkeeping, OpenIsRegistered
<1>1. ASSUME NEW c \in Clients, Register(c) PROVE Bookkeeping'
  BY <1>1 DEF Register, sockets, sending, remote
<1>2. ASSUME NEW m \in Msgs, NEW c \in Clients, PostMessage(m, c)
      PROVE  Bookkeeping'
  <2>1. CASE UNCHANGED sent
    BY <1>2, <2>1 DEF PostMessage, sockets, remote
  <2>2. CASE Connected(c) /\ Write(connections[c], m, "direct")
    <3>1. /\ connections[c] \in Sockets
          /\ readyState[connections[c]] = "OPEN"
      BY <2>2 DEF Connected, TypeOK
    <3>2. \A s \in Sockets : Len(sent[s]) \in Nat /\ settled[s] \in Nat /\ heard[s] \in Nat
      BY DEF TypeOK
    <3>3. QED
      BY <1>2, <2>2, <3>1, <3>2, WriteEffect DEF PostMessage, sockets, remote
  <2>3. QED
    BY <1>2, <2>1, <2>2 DEF PostMessage, DeliverIfConnected
<1>3. ASSUME NEW c \in Clients, NEW s \in Sockets, Connect(c, s)
      PROVE  Bookkeeping'
  <2>1. Pending(c) \in SUBSET Msgs
    BY DEF Pending
  <2>2. /\ \A t \in Sockets : t # s => sent'[t] = sent[t] /\ backlog'[t] = backlog[t]
        /\ Len(sent'[s]) >= Len(sent[s])
    BY <1>3, <2>1, SendNextEffect DEF Connect
  <2>3. \A t \in Sockets : /\ Len(sent[t]) \in Nat /\ Len(sent'[t]) \in Nat
                           /\ settled[t] \in Nat /\ heard[t] \in Nat
    BY <1>3, TypeStep DEF TypeOK
  <2>4. \A t \in Sockets : settled'[t] <= Len(sent'[t]) /\ heard'[t] <= Len(sent'[t])
    BY <1>3, <2>2, <2>3 DEF Connect
  <2>5. \A t \in Sockets :
          readyState'[t] = IF t = s THEN "OPEN"
                           ELSE IF t = connections[c] /\ readyState[t] = "OPEN"
                                  THEN "CLOSING" ELSE readyState[t]
    BY <1>3 DEF Connect
  <2>6. \A t \in Sockets : owner'[t] = IF t = s THEN c ELSE owner[t]
    BY <1>3 DEF Connect, TypeOK
  <2>7. \A t \in Sockets :
          IF readyState'[t] = "NEW"
            THEN owner'[t] = NoClient /\ backlog'[t] = {} /\ sent'[t] = <<>>
            ELSE owner'[t] \in Clients
    BY <2>2, <2>5, <2>6
  <2>8. \A d \in Clients : connections'[d] = IF d = c THEN s ELSE connections[d]
    BY <1>3 DEF Connect, TypeOK
  <2>9. readyState[s] = "NEW"
    BY <1>3 DEF Connect
  <2>10. \A d \in Clients : connections'[d] # NoSocket =>
           owner'[connections'[d]] = d /\ readyState'[connections'[d]] # "NEW"
    <3> SUFFICES ASSUME NEW d \in Clients, connections'[d] # NoSocket
                 PROVE  /\ owner'[connections'[d]] = d
                        /\ readyState'[connections'[d]] # "NEW"
      OBVIOUS
    <3>1. CASE d = c
      BY <2>5, <2>6, <2>8, <3>1
    <3>2. CASE d # c
      <4>1. /\ connections[d] \in Sockets
            /\ owner[connections[d]] = d
            /\ readyState[connections[d]] # "NEW"
        BY <2>8, <3>2 DEF TypeOK
      <4>2. connections[d] # s
        BY <4>1, <2>9
      <4>3. QED
        BY <2>5, <2>6, <2>8, <3>2, <4>1, <4>2
    <3>3. QED
      BY <3>1, <3>2
  <2>11. \A t \in Sockets : readyState'[t] = "OPEN" => connections'[owner'[t]] = t
    BY <2>5, <2>6, <2>8, <2>9
  <2>12. QED
    BY <2>4, <2>7, <2>10, <2>11
<1>4. ASSUME NEW s \in Sockets, SendResolved(s) PROVE Bookkeeping'
  <2>1. /\ \A t \in Sockets : t # s => sent'[t] = sent[t] /\ backlog'[t] = backlog[t]
        /\ Len(sent'[s]) >= Len(sent[s])
    <3>1. backlog[s] \in SUBSET Msgs /\ Len(sent[s]) \in Nat
      BY DEF TypeOK
    <3>2. CASE SendNext(s, backlog[s])
      BY <3>1, <3>2, SendNextEffect
    <3>3. CASE ~SendNext(s, backlog[s])
      BY <1>4, <3>1, <3>3 DEF SendResolved, StopLoop, TypeOK
    <3>4. QED
      BY <3>2, <3>3
  <2>2. \A t \in Sockets : /\ Len(sent[t]) \in Nat /\ Len(sent'[t]) \in Nat
                           /\ settled[t] \in Nat /\ heard[t] \in Nat
    BY <1>4, TypeStep DEF TypeOK
  <2>3. \A t \in Sockets : settled'[t] = IF t = s THEN settled[t] + 1 ELSE settled[t]
    BY <1>4 DEF SendResolved, TypeOK
  <2>4. /\ settled[s] < Len(sent[s])
        /\ readyState[s] # "NEW"
        /\ UNCHANGED <<owner, readyState, connections, heard>>
    BY <1>4 DEF SendResolved, Awaiting, sockets, remote
  <2>5. QED
    BY <2>1, <2>2, <2>3, <2>4
<1>5. ASSUME NEW s \in Sockets, SendRejected(s) \/ MarkThrows(s)
      PROVE  Bookkeeping'
  <2>1. UNCHANGED sent /\ backlog' \in {backlog, [backlog EXCEPT ![s] = {}]}
    BY <1>5 DEF SendRejected, MarkThrows, Abandon, StopLoop
  <2>2. \A t \in Sockets : backlog'[t] = backlog[t] \/ backlog'[t] = {}
    BY <2>1 DEF TypeOK
  <2>3. \A t \in Sockets : settled'[t] = IF t = s THEN settled[t] + 1 ELSE settled[t]
    BY <1>5 DEF SendRejected, MarkThrows, TypeOK
  <2>4. /\ settled[s] < Len(sent[s])
        /\ UNCHANGED <<owner, readyState, connections, heard>>
    BY <1>5 DEF SendRejected, MarkThrows, Awaiting, sockets, remote
  <2>5. \A t \in Sockets : Len(sent[t]) \in Nat /\ settled[t] \in Nat
    BY DEF TypeOK
  <2>6. QED
    BY <2>1, <2>2, <2>3, <2>4, <2>5
<1>6. ASSUME NEW s \in Sockets, SocketClosed(s) \/ SocketError(s)
      PROVE  Bookkeeping'
  <2>1. \A t \in Sockets :
          readyState'[t] = IF t = s THEN readyState'[s] ELSE readyState[t]
    BY <1>6 DEF SocketClosed, SocketError, TypeOK
  <2>2. readyState'[s] \in {"CLOSED", "CLOSING"} /\ readyState[s] # "NEW"
    BY <1>6 DEF SocketClosed, SocketError, TypeOK
  <2>3. \A c \in Clients :
          connections'[c] = IF connections[c] = s THEN NoSocket ELSE connections[c]
    BY <1>6 DEF SocketClosed, SocketError, DropEntry
  <2>4. UNCHANGED <<owner, sending, heard>>
    BY <1>6 DEF SocketClosed, SocketError, remote
  <2>5. \A c \in Clients : connections[c] \in Sockets \cup {NoSocket}
    BY DEF TypeOK
  <2>6. \A t \in Sockets : readyState'[t] = "NEW" <=> readyState[t] = "NEW"
    BY <2>1, <2>2
  <2>7. \A t \in Sockets : readyState'[t] = "OPEN" => readyState[t] = "OPEN" /\ t # s
    BY <2>1, <2>2
  <2>8. OpenIsRegistered'
    BY <2>3, <2>4, <2>7
  <2>9. \A c \in Clients : connections'[c] # NoSocket =>
          owner[connections'[c]] = c /\ readyState'[connections'[c]] # "NEW"
    BY <2>3, <2>5, <2>6
  <2>10. QED
    BY <2>4, <2>6, <2>8, <2>9 DEF sending
<1>7. CASE Halt
  <2>1. \A s \in Sockets : Len(sent[s]) \in Nat
    BY DEF TypeOK
  <2>2. QED
    BY <1>7, <2>1 DEF Halt, TypeOK, remote
<1>8. CASE Restart
  BY <1>8 DEF Restart, sockets, sending, remote
<1>9. ASSUME NEW s \in Sockets, ClientReads(s) PROVE Bookkeeping'
  <2>1. \A t \in Sockets : Len(sent[t]) \in Nat /\ heard[t] \in Nat
    BY DEF TypeOK
  <2>2. \A t \in Sockets : heard'[t] = IF t = s THEN heard[t] + 1 ELSE heard[t]
    BY <1>9 DEF ClientReads, TypeOK
  <2>3. heard[s] < Len(sent[s]) /\ UNCHANGED <<sockets, sending>>
    BY <1>9 DEF ClientReads
  <2>4. QED
    BY <2>1, <2>2, <2>3 DEF sockets, sending
<1>10. ASSUME NEW s \in Sockets, PeerLost(s) PROVE Bookkeeping'
  BY <1>10 DEF PeerLost, sockets, sending
<1>11. ASSUME NEW s \in Sockets, CloseFrame(s) \/ TransportError(s)
       PROVE  Bookkeeping'
  <2>1. \A t \in Sockets :
          readyState'[t] = IF t = s THEN readyState'[s] ELSE readyState[t]
    BY <1>11 DEF CloseFrame, TransportError, TypeOK
  <2>2. readyState'[s] \in {"DESTROYED", "CLOSING"} /\ readyState[s] # "NEW"
    BY <1>11 DEF CloseFrame, TransportError, TypeOK
  <2>3. UNCHANGED <<connections, owner, sending, heard>>
    BY <1>11 DEF CloseFrame, TransportError, remote
  <2>4. \A c \in Clients : connections[c] \in Sockets \cup {NoSocket}
    BY DEF TypeOK
  <2>5. \A t \in Sockets : readyState'[t] = "NEW" <=> readyState[t] = "NEW"
    BY <2>1, <2>2
  <2>6. \A t \in Sockets : readyState'[t] = "OPEN" => readyState[t] = "OPEN"
    BY <2>1, <2>2
  <2>7. QED
    BY <2>3, <2>4, <2>5, <2>6 DEF sending
<1>12. CASE UNCHANGED vars
  BY <1>12 DEF vars, sockets, sending, remote
<1>13. QED
  BY <1>1, <1>2, <1>3, <1>4, <1>5, <1>6, <1>7, <1>8, <1>9, <1>10, <1>11, <1>12
     DEF Next, Relay, Network

LEMMA BookkeepingInvariant == Spec => []Bookkeeping
<1>1. Init => Bookkeeping
  BY DEF Init, Bookkeeping, OpenIsRegistered
<1>2. TypeOK /\ Bookkeeping /\ [Next]_vars => Bookkeeping'
  BY BookkeepingStep
<1>3. QED
  BY <1>1, <1>2, TypeCorrect, PTL DEF Spec

\* An open socket is the registered one of its client: no interleaving of a
\* reconnection with the handlers of the superseded socket loses the entry.
THEOREM OpenSocketsAreRegistered == Spec => []OpenIsRegistered
<1>1. Bookkeeping => OpenIsRegistered
  BY DEF Bookkeeping
<1>2. QED
  BY <1>1, BookkeepingInvariant, PTL

-----------------------------------------------------------------------------
(***************************************************************************)
(* What travels on a socket.                                               *)
(***************************************************************************)
\* Nothing was sent, and nothing waits, on a socket that was not accepted; the
\* sends of an accepted one are rows of a registered client.
LEMMA SendsAreRows ==
  ASSUME TypeOK, Bookkeeping, Delivery,
         NEW t \in Sockets, NEW i \in DOMAIN sent[t]
  PROVE  /\ sent[t][i] \in Send
         /\ sent[t][i].msg \in Msgs
         /\ readyState[t] # "NEW"
         /\ to[sent[t][i].msg] \in Clients
<1>1. sent[t] \in Seq(Send)
  BY DEF TypeOK
<1>2. sent[t][i] \in Send /\ sent[t][i].msg \in Msgs
  <2>1. sent[t][i] \in Send
    BY <1>1
  <2>2. QED
    BY <2>1 DEF Send
<1>3. sent[t] # <<>>
  BY <1>1
<1>4. owner[t] \in Clients /\ readyState[t] # "NEW"
  BY <1>3 DEF Bookkeeping
<1>5. QED
  BY <1>2, <1>4 DEF Delivery, SentToRecipient

\* One more send keeps a socket to its client's rows, each at most once.
LEMMA WriteDelivery ==
  ASSUME TypeOK, Delivery,
         NEW s \in Sockets, NEW m \in Msgs, NEW task \in {"pending", "direct"},
         Write(s, m, task),
         \A i \in DOMAIN sent[s] : sent[s][i].msg # m,
         \A t \in Sockets : \A i \in DOMAIN sent[t] :
           to'[sent[t][i].msg] = to[sent[t][i].msg] /\ owner'[t] = owner[t],
         to'[m] = owner'[s]
  PROVE  SentToRecipient' /\ AtMostOncePerSocket'
<1>1. /\ \A t \in Sockets : t # s => sent'[t] = sent[t]
      /\ \A i \in DOMAIN sent[s] : i \in DOMAIN sent'[s] /\ sent'[s][i] = sent[s][i]
      /\ \A i \in DOMAIN sent'[s] :
           i \in DOMAIN sent[s] \/ (i = Len(sent[s]) + 1 /\ sent'[s][i].msg = m)
  BY WriteEffect
<1>2. SentToRecipient'
  <2> SUFFICES ASSUME NEW t \in Sockets, NEW i \in DOMAIN sent'[t]
               PROVE  to'[sent'[t][i].msg] = owner'[t]
    BY DEF SentToRecipient
  <2>1. CASE i \in DOMAIN sent[t] /\ sent'[t][i] = sent[t][i]
    BY <2>1 DEF Delivery, SentToRecipient
  <2>2. CASE t = s /\ sent'[t][i].msg = m
    BY <2>2
  <2>3. QED
    BY <1>1, <2>1, <2>2
<1>3. AtMostOncePerSocket'
  <2> SUFFICES ASSUME NEW t \in Sockets, NEW i \in DOMAIN sent'[t],
                      NEW j \in DOMAIN sent'[t], i # j
               PROVE  sent'[t][i].msg # sent'[t][j].msg
    BY DEF AtMostOncePerSocket
  <2>1. CASE t # s
    BY <1>1, <2>1 DEF Delivery, AtMostOncePerSocket
  <2>2. CASE t = s
    <3>1. \A k \in DOMAIN sent'[s] : k \in DOMAIN sent[s] => sent'[s][k].msg # m
      BY <1>1
    <3>2. QED
      BY <1>1, <2>2, <3>1 DEF Delivery, AtMostOncePerSocket
  <2>3. QED
    BY <2>1, <2>2
<1>4. QED
  BY <1>2, <1>3

\* A step of the loop of deliverPending, over rows of the socket's client that
\* were not sent on it.
LEMMA SendNextDelivery ==
  ASSUME TypeOK, Delivery,
         NEW s \in Sockets, NEW rows \in SUBSET Msgs, SendNext(s, rows),
         rows = {} => backlog[s] = {},
         \A m \in rows : /\ to[m] = owner'[s]
                         /\ \A i \in DOMAIN sent[s] : sent[s][i].msg # m,
         \A t \in Sockets : \A i \in DOMAIN sent[t] : owner'[t] = owner[t],
         \A t \in Sockets : t # s => owner'[t] = owner[t],
         to' = to
  PROVE  Delivery'
<1>1. CASE rows = {} /\ UNCHANGED <<sent, backlog>>
  BY <1>1 DEF Delivery, SentToRecipient, AtMostOncePerSocket, BacklogIsDue
<1>2. ASSUME NEW m \in Oldest(rows), Write(s, m, "pending"),
             backlog' = [backlog EXCEPT ![s] = rows \ {m}]
      PROVE  Delivery'
  <2>1. m \in rows /\ m \in Msgs
    BY DEF Oldest
  <2>2. SentToRecipient' /\ AtMostOncePerSocket'
    BY <1>2, <2>1, WriteDelivery
  <2>3. /\ \A t \in Sockets : t # s => sent'[t] = sent[t]
        /\ \A i \in DOMAIN sent'[s] :
             \/ i \in DOMAIN sent[s] /\ sent'[s][i] = sent[s][i]
             \/ sent'[s][i].msg = m
    BY <1>2, <2>1, WriteEffect
  <2>4. \A t \in Sockets : backlog'[t] = IF t = s THEN rows \ {m} ELSE backlog[t]
    BY <1>2 DEF TypeOK
  <2>5. BacklogIsDue'
    BY <2>1, <2>3, <2>4 DEF Delivery, BacklogIsDue
  <2>6. QED
    BY <2>2, <2>5 DEF Delivery
<1>3. QED
  BY <1>1, <1>2 DEF SendNext

LEMMA DeliveryStep ==
  ASSUME TypeOK, Bookkeeping, Delivery, [Next]_vars
  PROVE  Delivery'
<1> USE RelayAssumption
<1>1. ASSUME NEW m \in Msgs, NEW c \in Clients, PostMessage(m, c)
      PROVE  Delivery'
  <2>1. \A n \in Msgs : to'[n] = IF n = m THEN c ELSE to[n]
    BY <1>1 DEF PostMessage, TypeOK
  <2>2. /\ to[m] = NoClient
        /\ UNCHANGED <<owner, backlog>>
    BY <1>1 DEF PostMessage, sockets
  <2>3. \A t \in Sockets : \A i \in DOMAIN sent[t] :
          /\ sent[t][i].msg # m
          /\ to'[sent[t][i].msg] = to[sent[t][i].msg]
    BY <2>1, <2>2, SendsAreRows
  <2>4. \A t \in Sockets : \A n \in backlog[t] : n \in Msgs /\ n # m /\ to'[n] = to[n]
    <3>1. \A t \in Sockets : \A n \in backlog[t] : n \in Msgs /\ owner[t] \in Clients
      BY DEF TypeOK, Bookkeeping
    <3>2. QED
      BY <2>1, <2>2, <3>1 DEF Delivery, BacklogIsDue
  <2>5. CASE UNCHANGED sent
    BY <2>2, <2>3, <2>4, <2>5
       DEF Delivery, SentToRecipient, AtMostOncePerSocket, BacklogIsDue
  <2>6. CASE Connected(c) /\ Write(connections[c], m, "direct")
    <3>1. connections[c] \in Sockets /\ owner[connections[c]] = c
      BY <2>6 DEF Connected, TypeOK, Bookkeeping
    <3>2. SentToRecipient' /\ AtMostOncePerSocket'
      BY <2>1, <2>2, <2>3, <2>6, <3>1, WriteDelivery
    <3>3. \A t \in Sockets : \A i \in DOMAIN sent'[t] :
            \/ i \in DOMAIN sent[t] /\ sent'[t][i] = sent[t][i]
            \/ sent'[t][i].msg = m
      BY <2>6, <3>1, WriteEffect
    <3>4. BacklogIsDue'
      BY <2>2, <2>4, <3>3 DEF Delivery, BacklogIsDue
    <3>5. QED
      BY <3>2, <3>4 DEF Delivery
  <2>7. QED
    BY <1>1, <2>5, <2>6 DEF PostMessage, DeliverIfConnected
<1>2. ASSUME NEW c \in Clients, NEW s \in Sockets, Connect(c, s)
      PROVE  Delivery'
  <2>1. /\ SendNext(s, Pending(c))
        /\ UNCHANGED to
        /\ readyState[s] = "NEW"
    BY <1>2 DEF Connect, database
  <2>2. \A t \in Sockets : owner'[t] = IF t = s THEN c ELSE owner[t]
    BY <1>2 DEF Connect, TypeOK
  <2>3. backlog[s] = {} /\ sent[s] = <<>>
    BY <2>1 DEF Bookkeeping
  <2>4. Pending(c) \in SUBSET Msgs /\ \A m \in Pending(c) : to[m] = c
    BY DEF Pending
  <2>5. QED
    BY <2>1, <2>2, <2>3, <2>4, SendNextDelivery
<1>3. ASSUME NEW s \in Sockets, SendResolved(s) PROVE Delivery'
  <2>1. UNCHANGED <<to, owner>>
    BY <1>3 DEF SendResolved, sockets
  <2>2. backlog[s] \in SUBSET Msgs
    BY DEF TypeOK
  <2>3. CASE SendNext(s, backlog[s])
    BY <2>1, <2>2, <2>3, SendNextDelivery DEF Delivery, BacklogIsDue
  <2>4. CASE ~SendNext(s, backlog[s])
    <3>1. UNCHANGED sent /\ \A t \in Sockets : backlog'[t] \subseteq backlog[t]
      BY <1>3, <2>4 DEF SendResolved, StopLoop, TypeOK
    <3>2. QED
      BY <2>1, <3>1
         DEF Delivery, SentToRecipient, AtMostOncePerSocket, BacklogIsDue
  <2>5. QED
    BY <2>3, <2>4
<1>4. ASSUME UNCHANGED <<to, owner, sent>>,
             \A t \in Sockets : backlog'[t] \subseteq backlog[t]
      PROVE  Delivery'
  BY <1>4 DEF Delivery, SentToRecipient, AtMostOncePerSocket, BacklogIsDue
<1>5. ASSUME NEW s \in Sockets, SendRejected(s) \/ MarkThrows(s)
      PROVE  Delivery'
  <2>1. /\ UNCHANGED <<to, owner, sent>>
        /\ backlog' \in {backlog, [backlog EXCEPT ![s] = {}]}
    BY <1>5 DEF SendRejected, MarkThrows, Abandon, StopLoop, database, sockets
  <2>2. \A t \in Sockets : backlog'[t] \subseteq backlog[t]
    BY <2>1 DEF TypeOK
  <2>3. QED
    BY <1>4, <2>1, <2>2
<1>6. CASE Halt
  BY <1>4, <1>6 DEF Halt, database
<1>7. ASSUME UNCHANGED <<to, owner, sent, backlog>> PROVE Delivery'
  BY <1>4, <1>7
<1>8. ASSUME NEW c \in Clients, Register(c) PROVE Delivery'
  BY <1>7, <1>8 DEF Register, sockets, sending
<1>9. ASSUME NEW s \in Sockets,
             \/ SocketClosed(s) \/ SocketError(s) \/ ClientReads(s)
             \/ PeerLost(s) \/ CloseFrame(s) \/ TransportError(s)
      PROVE  Delivery'
  BY <1>7, <1>9 DEF SocketClosed, SocketError, ClientReads, PeerLost, CloseFrame,
                    TransportError, database, sockets, sending
<1>10. CASE Restart
  BY <1>7, <1>10 DEF Restart, database, sockets, sending
<1>11. CASE UNCHANGED vars
  BY <1>7, <1>11 DEF vars, database, sockets, sending
<1>12. QED
  BY <1>1, <1>2, <1>3, <1>5, <1>6, <1>8, <1>9, <1>10, <1>11
     DEF Next, Relay, Network

LEMMA DeliveryInvariant == Spec => []Delivery
<1>1. Init => Delivery
  BY DEF Init, Delivery, SentToRecipient, AtMostOncePerSocket, BacklogIsDue
<1>2. TypeOK /\ Bookkeeping /\ Delivery /\ [Next]_vars => Delivery'
  BY DeliveryStep
<1>3. QED
  BY <1>1, <1>2, TypeCorrect, BookkeepingInvariant, PTL DEF Spec

\* No connection carries a row twice, however the loop of deliverPending and
\* the direct sends interleave.
THEOREM NoRowTwiceOnASocket == Spec => []AtMostOncePerSocket
<1>1. Delivery => AtMostOncePerSocket
  BY DEF Delivery
<1>2. QED
  BY <1>1, DeliveryInvariant, PTL

\* No connection carries a row of another client.
THEOREM RowsReachTheirRecipient == Spec => []SentToRecipient
<1>1. Delivery => SentToRecipient
  BY DEF Delivery
<1>2. QED
  BY <1>1, DeliveryInvariant, PTL

-----------------------------------------------------------------------------
(***************************************************************************)
(* No row is stranded while its recipient is connected.                    *)
(***************************************************************************)
\* The rows a socket is about to carry: in its loop or in flight.
Due(s) == backlog[s] \cup InFlight(s)

\* A send in flight stays in flight while its callback does not run and the
\* sends of the socket are only extended.
LEMMA InFlightStays ==
  ASSUME TypeOK, NEW s \in Sockets, NEW i \in DOMAIN sent[s],
         settled'[s] \in Nat, settled'[s] < i,
         i \in DOMAIN sent'[s], sent'[s] \in Seq(Send), sent'[s][i] = sent[s][i]
  PROVE  sent[s][i].msg \in InFlight(s)'
<1>1. i \in (settled'[s] + 1)..Len(sent'[s])
  OBVIOUS
<1>2. QED
  BY <1>1 DEF InFlight

\* The loop of deliverPending has every row of its snapshot in hand.
LEMMA SendNextCovers ==
  ASSUME TypeOK, TypeOK', NEW s \in Sockets, NEW rows \in SUBSET Msgs,
         SendNext(s, rows), settled'[s] <= Len(sent[s]), NEW m \in rows
  PROVE  m \in Due(s)'
<1>1. PICK x \in Oldest(rows) : /\ Write(s, x, "pending")
                                /\ backlog' = [backlog EXCEPT ![s] = rows \ {x}]
  BY DEF SendNext
<1>2. x \in Msgs
  BY DEF Oldest
<1>3. CASE m # x
  BY <1>1, <1>3 DEF Due, TypeOK
<1>4. CASE m = x
  <2> DEFINE n == Len(sent[s]) + 1
  <2>1. Len(sent[s]) \in Nat /\ settled'[s] \in Nat
    BY DEF TypeOK
  <2>2. Len(sent'[s]) = n
    BY <1>1, <1>2, WriteEffect
  <2>3. n \in DOMAIN sent'[s] /\ n \notin DOMAIN sent[s]
    BY <2>1, <2>2 DEF TypeOK
  <2>4. sent'[s][n].msg = m
    BY <1>1, <1>2, <1>4, <2>3, WriteEffect
  <2>5. n \in (settled'[s] + 1)..Len(sent'[s])
    BY <2>1, <2>2
  <2>6. QED
    BY <2>4, <2>5 DEF Due, InFlight
<1>5. QED
  BY <1>3, <1>4

LEMMA NoStrandedRowStep ==
  ASSUME ~DbFaults, TypeOK, Bookkeeping, NoStrandedRow, [Next]_vars
  PROVE  NoStrandedRow'
<1> USE RelayAssumption
<1>0. TypeOK' /\ Bookkeeping'
  BY TypeStep, BookkeepingStep
<1> SUFFICES ASSUME NEW m \in Msgs, NEW c \in Clients,
                    to'[m] = c, m \notin delivered', Connected(c)'
             PROVE  m \in Due(connections[c])'
  BY DEF NoStrandedRow, Due
<1>1. PICK s \in Sockets : s = connections'[c] /\ readyState'[s] = "OPEN"
  BY <1>0 DEF Connected, TypeOK
<1>2. ASSUME to[m] = c, m \notin delivered, connections[c] = s,
             readyState[s] = "OPEN"
      PROVE  m \in Due(s)
  BY <1>1, <1>2 DEF NoStrandedRow, Connected, Due
<1>3. ASSUME to[m] = c, m \notin delivered, connections[c] = s,
             readyState[s] = "OPEN",
             sent'[s] = sent[s], backlog'[s] = backlog[s], settled'[s] = settled[s]
      PROVE  m \in Due(s)'
  BY <1>2, <1>3 DEF Due, InFlight
<1>4. ASSUME NEW n \in Msgs, NEW d \in Clients, PostMessage(n, d)
      PROVE  m \in Due(s)'
  <2>1. /\ UNCHANGED <<delivered, connections, readyState, backlog, settled>>
        /\ \A x \in Msgs : to'[x] = IF x = n THEN d ELSE to[x]
    BY <1>4 DEF PostMessage, TypeOK, sockets
  <2>2. connections[c] = s /\ readyState[s] = "OPEN"
    BY <1>1, <2>1
  <2>3. /\ settled[s] \in Nat /\ settled[s] <= Len(sent[s]) /\ Len(sent[s]) \in Nat
        /\ sent[s] \in Seq(Send) /\ sent'[s] \in Seq(Send)
    BY <1>0, <1>1 DEF TypeOK, Bookkeeping
  <2>4. CASE m # n
    <3>1. m \in Due(s)
      BY <1>2, <2>1, <2>2, <2>4
    <3>2. CASE m \in backlog[s]
      BY <2>1, <3>2 DEF Due
    <3>3. ASSUME NEW i \in (settled[s] + 1)..Len(sent[s]), sent[s][i].msg = m
          PROVE  m \in Due(s)'
      <4>1. i \in DOMAIN sent[s] /\ settled'[s] < i /\ settled'[s] \in Nat
        BY <2>1, <2>3, <3>3
      <4>2. i \in DOMAIN sent'[s] /\ sent'[s][i] = sent[s][i]
        <5>1. CASE UNCHANGED sent
          BY <4>1, <5>1
        <5>2. CASE Connected(d) /\ Write(connections[d], n, "direct")
          <6>1. connections[d] \in Sockets
            BY <5>2 DEF Connected, TypeOK
          <6>2. QED
            BY <1>1, <4>1, <5>2, <6>1, WriteEffect
        <5>3. QED
          BY <1>4, <5>1, <5>2 DEF PostMessage, DeliverIfConnected
      <4>3. QED
        BY <1>1, <2>3, <3>3, <4>1, <4>2, InFlightStays DEF Due
    <3>4. QED
      BY <3>1, <3>2, <3>3 DEF Due, InFlight
  <2>5. CASE m = n
    <3>1. d = c /\ Connected(c)
      BY <2>1, <2>2, <2>5, <1>1 DEF Connected
    <3>2. Write(s, m, "direct")
      BY <1>4, <2>2, <2>5, <3>1 DEF PostMessage, DeliverIfConnected
    <3>3. Len(sent'[s]) = Len(sent[s]) + 1
      BY <1>1, <3>2, WriteEffect
    <3>4. Len(sent[s]) + 1 \in DOMAIN sent'[s] /\ Len(sent[s]) + 1 \notin DOMAIN sent[s]
      BY <2>3, <3>3
    <3>5. sent'[s][Len(sent[s]) + 1].msg = m
      BY <1>1, <3>2, <3>4, WriteEffect
    <3>6. Len(sent[s]) + 1 \in (settled'[s] + 1)..Len(sent'[s])
      BY <2>1, <2>3, <3>3
    <3>7. QED
      BY <3>5, <3>6 DEF Due, InFlight
  <2>6. QED
    BY <2>4, <2>5
<1>5. ASSUME NEW d \in Clients, NEW t \in Sockets, Connect(d, t)
      PROVE  m \in Due(s)'
  <2>1. /\ UNCHANGED <<to, delivered, settled>>
        /\ \A e \in Clients : connections'[e] = IF e = d THEN t ELSE connections[e]
        /\ \A u \in Sockets : u # t /\ readyState'[u] = "OPEN" => readyState[u] = "OPEN"
        /\ readyState[t] = "NEW"
        /\ SendNext(t, Pending(d))
    BY <1>5 DEF Connect, TypeOK, database
  <2>2. Pending(d) \in SUBSET Msgs
    BY DEF Pending
  <2>3. CASE c = d
    <3>1. s = t /\ m \in Pending(d)
      BY <1>1, <2>1, <2>3 DEF Pending
    <3>2. settled'[s] <= Len(sent[s])
      BY <1>1, <2>1 DEF Bookkeeping
    <3>3. QED
      BY <1>0, <1>1, <2>1, <2>2, <3>1, <3>2, SendNextCovers
  <2>4. CASE c # d
    <3>1. connections[c] = s
      BY <1>1, <2>1, <2>4
    <3>2. s # t
      BY <1>1, <2>1, <3>1 DEF Bookkeeping
    <3>3. sent'[s] = sent[s] /\ backlog'[s] = backlog[s]
      BY <1>1, <2>1, <2>2, <3>2, SendNextEffect
    <3>4. QED
      BY <1>1, <1>3, <2>1, <3>1, <3>2, <3>3
  <2>5. QED
    BY <2>3, <2>4
<1>6. ASSUME NEW t \in Sockets, SendResolved(t) PROVE m \in Due(s)'
  <2>1. /\ UNCHANGED <<to, connections, readyState>>
        /\ delivered' = delivered \cup {Awaited(t).msg}
        /\ \A u \in Sockets : settled'[u] = IF u = t THEN settled[u] + 1 ELSE settled[u]
        /\ settled[t] < Len(sent[t])
    BY <1>6 DEF SendResolved, Awaiting, sockets, TypeOK
  <2>2. /\ connections[c] = s /\ readyState[s] = "OPEN"
        /\ m \notin delivered /\ m # Awaited(t).msg
    BY <1>1, <2>1
  <2>3. m \in Due(s)
    BY <1>2, <2>1, <2>2
  <2>4. backlog[t] \in SUBSET Msgs
    BY DEF TypeOK
  <2>5. CASE s # t
    <3>1. CASE SendNext(t, backlog[t])
      BY <1>1, <1>3, <2>1, <2>2, <2>4, <2>5, <3>1, SendNextEffect
    <3>2. CASE ~SendNext(t, backlog[t])
      <4>1. sent'[s] = sent[s] /\ backlog'[s] = backlog[s]
        BY <1>1, <1>6, <2>5, <3>2 DEF SendResolved, StopLoop, TypeOK
      <4>2. QED
        BY <1>1, <1>3, <2>1, <2>2, <2>5, <4>1
    <3>3. QED
      BY <3>1, <3>2
  <2>6. CASE s = t
    <3>1. /\ settled[s] \in Nat /\ Len(sent[s]) \in Nat
          /\ sent[s] \in Seq(Send) /\ sent'[s] \in Seq(Send)
          /\ settled'[s] = settled[s] + 1 /\ settled'[s] <= Len(sent[s])
      BY <1>0, <1>1, <2>1, <2>6 DEF TypeOK
    <3>2. SendNext(s, backlog[s]) \/ UNCHANGED <<sent, backlog>>
      BY <1>6, <2>2, <2>6 DEF SendResolved
    <3>3. CASE m \in backlog[s]
      <4>1. CASE SendNext(s, backlog[s])
        BY <1>0, <1>1, <2>4, <2>6, <3>1, <3>3, <4>1, SendNextCovers
      <4>2. CASE UNCHANGED <<sent, backlog>>
        BY <3>3, <4>2 DEF Due
      <4>3. QED
        BY <3>2, <4>1, <4>2
    <3>4. ASSUME NEW i \in (settled[s] + 1)..Len(sent[s]), sent[s][i].msg = m
          PROVE  m \in Due(s)'
      <4>1. i # settled[s] + 1
        BY <2>2, <2>6, <3>4 DEF Awaited
      <4>2. i \in DOMAIN sent[s] /\ settled'[s] < i /\ settled'[s] \in Nat
        BY <3>1, <3>4, <4>1
      <4>3. i \in DOMAIN sent'[s] /\ sent'[s][i] = sent[s][i]
        <5>1. CASE UNCHANGED sent
          BY <4>2, <5>1
        <5>2. ASSUME NEW x \in Oldest(backlog[s]), Write(s, x, "pending")
              PROVE  i \in DOMAIN sent'[s] /\ sent'[s][i] = sent[s][i]
          <6>1. x \in Msgs
            BY <2>4, <2>6 DEF Oldest
          <6>2. QED
            BY <1>1, <4>2, <5>2, <6>1, WriteEffect
        <5>3. QED
          BY <3>2, <5>1, <5>2 DEF SendNext
      <4>4. QED
        BY <1>1, <3>1, <3>4, <4>2, <4>3, InFlightStays DEF Due
    <3>5. QED
      BY <2>3, <3>3, <3>4 DEF Due, InFlight
  <2>7. QED
    BY <2>5, <2>6
<1>7. ASSUME NEW t \in Sockets, SendRejected(t) PROVE m \in Due(s)'
  <2>1. /\ UNCHANGED <<to, delivered, connections, readyState, sent>>
        /\ readyState[t] \in {"DESTROYED", "CLOSED"}
    BY <1>7 DEF SendRejected, Abandon, StopLoop, database, sockets
  <2>2. s # t
    BY <1>1, <2>1
  <2>3. settled'[s] = settled[s] /\ backlog'[s] = backlog[s]
    BY <1>1, <1>7, <2>2 DEF SendRejected, Abandon, StopLoop, TypeOK
  <2>4. QED
    BY <1>1, <1>3, <2>1, <2>3
<1>8. ASSUME NEW t \in Sockets, SocketClosed(t) \/ SocketError(t)
      PROVE  m \in Due(s)'
  <2>1. /\ UNCHANGED <<to, delivered, sent, backlog, settled>>
        /\ connections[c] = s
        /\ readyState'[t] # "OPEN"
        /\ \A u \in Sockets : u # t => readyState'[u] = readyState[u]
    BY <1>1, <1>8 DEF SocketClosed, SocketError, DropEntry, database, sending,
                      TypeOK
  <2>2. QED
    BY <1>1, <1>3, <2>1
<1>9. ASSUME NEW t \in Sockets, CloseFrame(t) \/ TransportError(t)
      PROVE  m \in Due(s)'
  <2>1. /\ UNCHANGED <<to, delivered, sent, backlog, settled, connections>>
        /\ readyState'[t] # "OPEN"
        /\ \A u \in Sockets : u # t => readyState'[u] = readyState[u]
    BY <1>9 DEF CloseFrame, TransportError, database, sending, TypeOK
  <2>2. QED
    BY <1>1, <1>3, <2>1
<1>10. ASSUME UNCHANGED <<to, delivered, sockets, sending>> PROVE m \in Due(s)'
  BY <1>1, <1>3, <1>10 DEF sockets, sending
<1>11. ASSUME NEW d \in Clients, Register(d) PROVE m \in Due(s)'
  BY <1>10, <1>11 DEF Register
<1>12. ASSUME NEW t \in Sockets, ClientReads(t) \/ PeerLost(t) PROVE m \in Due(s)'
  BY <1>10, <1>12 DEF ClientReads, PeerLost, database
<1>13. ASSUME Halt PROVE m \in Due(s)'
  BY <1>1, <1>13 DEF Halt
<1>14. ASSUME Restart PROVE m \in Due(s)'
  BY <1>10, <1>14 DEF Restart, database
<1>15. ASSUME UNCHANGED vars PROVE m \in Due(s)'
  BY <1>10, <1>15 DEF vars, database
<1>16. m \in Due(s)'
  BY <1>4, <1>5, <1>6, <1>7, <1>8, <1>9, <1>11, <1>12, <1>13, <1>14, <1>15
     DEF Next, Relay, Network, MarkThrows
<1>17. QED
  BY <1>1, <1>16 DEF Due, InFlight

\* While the UPDATE of the mark does not throw, no undelivered row is forgotten
\* as long as its recipient has an open socket.
THEOREM NoRowIsStranded ==
  ASSUME ~DbFaults
  PROVE  Spec => []NoStrandedRow
<1>1. Init => NoStrandedRow
  BY DEF Init, NoStrandedRow, Connected
<1>2. TypeOK /\ Bookkeeping /\ NoStrandedRow /\ [Next]_vars => NoStrandedRow'
  BY NoStrandedRowStep
<1>3. QED
  BY <1>1, <1>2, TypeCorrect, BookkeepingInvariant, PTL DEF Spec

-----------------------------------------------------------------------------
(***************************************************************************)
(* The order of rows on a socket.                                          *)
(***************************************************************************)
LEMMA SendTypes ==
  ASSUME TypeOK, NEW t \in Sockets, NEW i \in DOMAIN sent[t]
  PROVE  /\ sent[t][i].msg \in Msgs
         /\ sent[t][i].task \in {"pending", "direct"}
<1>1. sent[t] \in Seq(Send)
  BY DEF TypeOK
<1>2. sent[t][i] \in Send
  BY <1>1
<1>3. QED
  BY <1>2 DEF Send

\* A step of the loop of deliverPending takes an oldest row.
LEMMA SendNextOrdering ==
  ASSUME TypeOK, Ordering, NEW s \in Sockets, NEW rows \in SUBSET Msgs,
         SendNext(s, rows), UNCHANGED <<createdAt, clock>>,
         \A m \in rows : \A i \in DOMAIN sent[s] :
           IF sent[s][i].task = "pending"
             THEN createdAt[sent[s][i].msg] <= createdAt[m]
             ELSE createdAt[m] <= createdAt[sent[s][i].msg]
  PROVE  Ordering'
<1>1. CASE UNCHANGED <<sent, backlog>>
  BY <1>1 DEF Ordering, OnlyBacklogIsOvertaken, BacklogIsBetween
<1>2. ASSUME NEW x \in Oldest(rows), Write(s, x, "pending"),
             backlog' = [backlog EXCEPT ![s] = rows \ {x}]
      PROVE  Ordering'
  <2> DEFINE n == Len(sent[s]) + 1
  <2>1. x \in rows /\ x \in Msgs /\ \A m \in rows : createdAt[x] <= createdAt[m]
    BY DEF Oldest
  <2>2. /\ \A t \in Sockets : t # s => sent'[t] = sent[t]
        /\ \A i \in DOMAIN sent'[s] :
             \/ i \in DOMAIN sent[s] /\ sent'[s][i] = sent[s][i]
             \/ i = n /\ sent'[s][i].msg = x /\ sent'[s][i].task = "pending"
    BY <1>2, <2>1, WriteEffect
  <2>3. \A t \in Sockets : backlog'[t] = IF t = s THEN rows \ {x} ELSE backlog[t]
    BY <1>2 DEF TypeOK
  <2>4. OnlyBacklogIsOvertaken'
    <3> SUFFICES ASSUME NEW t \in Sockets, NEW i \in DOMAIN sent'[t],
                        NEW j \in DOMAIN sent'[t], i < j,
                        createdAt[sent'[t][j].msg] < createdAt[sent'[t][i].msg]
                 PROVE  sent'[t][i].task = "direct" /\ sent'[t][j].task = "pending"
      BY DEF OnlyBacklogIsOvertaken
    <3>1. CASE /\ i \in DOMAIN sent[t] /\ sent'[t][i] = sent[t][i]
               /\ j \in DOMAIN sent[t] /\ sent'[t][j] = sent[t][j]
      BY <3>1 DEF Ordering, OnlyBacklogIsOvertaken
    <3>2. CASE /\ t = s /\ i \in DOMAIN sent[s] /\ sent'[s][i] = sent[s][i]
               /\ sent'[s][j].msg = x /\ sent'[s][j].task = "pending"
      <4>1. /\ sent[s][i].task \in {"pending", "direct"}
            /\ createdAt[x] \in Nat /\ createdAt[sent[s][i].msg] \in Nat
        BY <2>1, <3>2, SendTypes DEF TypeOK
      <4>2. CASE sent[s][i].task = "pending"
        BY <2>1, <3>2, <4>1, <4>2
      <4>3. QED
        BY <3>2, <4>1, <4>2
    <3>3. CASE t = s /\ i = n
      <4>1. sent[s] \in Seq(Send) /\ sent'[s] = Append(sent[s], [msg |-> x, task |-> "pending"])
        BY <1>2 DEF TypeOK, Write
      <4>2. Len(sent'[s]) = n /\ n \in Nat
        BY <1>2, <2>1, <4>1, WriteEffect
      <4>3. j \in 1..n
        BY <1>2, <2>1, <2>2, <3>3, <4>1, <4>2
      <4>4. QED
        BY <3>3, <4>2, <4>3
    <3>4. QED
      BY <2>2, <3>1, <3>2, <3>3
  <2>5. BacklogIsBetween'
    <3> SUFFICES ASSUME NEW t \in Sockets, NEW m \in backlog'[t],
                        NEW i \in DOMAIN sent'[t]
                 PROVE  IF sent'[t][i].task = "pending"
                          THEN createdAt[sent'[t][i].msg] <= createdAt[m]
                          ELSE createdAt[m] <= createdAt[sent'[t][i].msg]
      BY <1>2 DEF BacklogIsBetween
    <3>1. CASE t # s
      BY <2>2, <2>3, <3>1 DEF Ordering, BacklogIsBetween
    <3>2. CASE t = s
      BY <2>1, <2>2, <2>3, <3>2
    <3>3. QED
      BY <3>1, <3>2
  <2>6. \A m \in Msgs : createdAt'[m] <= clock'
    BY DEF Ordering
  <2>7. QED
    BY <2>4, <2>5, <2>6 DEF Ordering
<1>3. QED
  BY <1>1, <1>2 DEF SendNext

\* A new row is not older than anything in the table.
LEMMA PostOrdering ==
  ASSUME TypeOK, Bookkeeping, Delivery, Ordering,
         NEW m \in Msgs, NEW c \in Clients, PostMessage(m, c)
  PROVE  Ordering'
<1> USE RelayAssumption
<1>1. /\ clock \in Nat /\ clock' \in Nat /\ clock <= clock'
      /\ \A n \in Msgs : createdAt'[n] = IF n = m THEN clock' ELSE createdAt[n]
      /\ to[m] = NoClient
      /\ UNCHANGED backlog
  BY DEF PostMessage, TypeOK
<1>2. \A n \in Msgs : createdAt[n] \in Nat /\ createdAt[n] <= clock
  BY DEF TypeOK, Ordering
<1>3. \A n \in Msgs : createdAt'[n] \in Nat /\ createdAt'[n] <= clock'
  BY <1>1, <1>2
<1>4. \A t \in Sockets : \A i \in DOMAIN sent[t] :
        /\ sent[t][i].msg \in Msgs
        /\ createdAt'[sent[t][i].msg] = createdAt[sent[t][i].msg]
  BY <1>1, SendsAreRows
<1>5. \A t \in Sockets : \A n \in backlog[t] :
        n \in Msgs /\ createdAt'[n] = createdAt[n]
  <2>1. \A t \in Sockets : \A n \in backlog[t] : n \in Msgs /\ owner[t] \in Clients
    BY DEF TypeOK, Bookkeeping
  <2>2. QED
    BY <1>1, <2>1 DEF Delivery, BacklogIsDue
<1>6. CASE UNCHANGED sent
  BY <1>1, <1>3, <1>4, <1>5, <1>6
     DEF Ordering, OnlyBacklogIsOvertaken, BacklogIsBetween
<1>7. CASE Connected(c) /\ Write(connections[c], m, "direct")
  <2>1. PICK s \in Sockets : s = connections[c]
    BY <1>7 DEF Connected, TypeOK
  <2> DEFINE n == Len(sent[s]) + 1
  <2>2. /\ \A t \in Sockets : t # s => sent'[t] = sent[t]
        /\ \A i \in DOMAIN sent'[s] :
             \/ i \in DOMAIN sent[s] /\ sent'[s][i] = sent[s][i]
             \/ i = n /\ sent'[s][i].msg = m /\ sent'[s][i].task = "direct"
    BY <1>7, <2>1, WriteEffect
  <2>3. Len(sent'[s]) = n /\ n \in Nat /\ sent[s] \in Seq(Send) /\ sent'[s] \in Seq(Send)
    <3>1. sent[s] \in Seq(Send)
      BY DEF TypeOK
    <3>2. sent'[s] \in Seq(Send)
      BY <1>7, <2>1, WriteType, SMTT(30)
    <3>3. Len(sent'[s]) = n
      BY <1>7, <2>1, WriteEffect, SMTT(30)
    <3>4. QED
      BY <3>1, <3>2, <3>3
  <2>4. OnlyBacklogIsOvertaken'
    <3> SUFFICES ASSUME NEW t \in Sockets, NEW i \in DOMAIN sent'[t],
                        NEW j \in DOMAIN sent'[t], i < j,
                        createdAt'[sent'[t][j].msg] < createdAt'[sent'[t][i].msg]
                 PROVE  sent'[t][i].task = "direct" /\ sent'[t][j].task = "pending"
      BY DEF OnlyBacklogIsOvertaken
    <3>1. CASE /\ i \in DOMAIN sent[t] /\ sent'[t][i] = sent[t][i]
               /\ j \in DOMAIN sent[t] /\ sent'[t][j] = sent[t][j]
      BY <1>4, <3>1 DEF Ordering, OnlyBacklogIsOvertaken
    <3>2. CASE t = s /\ i \in DOMAIN sent[s] /\ sent'[s][i] = sent[s][i]
               /\ sent'[s][j].msg = m
      <4>1. createdAt'[m] = clock' /\ createdAt'[sent[s][i].msg] <= clock'
        BY <1>1, <1>3, <1>4, <3>2
      <4>2. createdAt'[sent[s][i].msg] \in Nat
        BY <1>3, <1>4, <3>2
      <4>3. QED
        BY <1>1, <3>2, <4>1, <4>2
    <3>3. CASE t = s /\ i = n
      BY <2>3, <3>3
    <3>4. QED
      BY <2>2, <3>1, <3>2, <3>3
  <2>5. BacklogIsBetween'
    <3> SUFFICES ASSUME NEW t \in Sockets, NEW b \in backlog[t],
                        NEW i \in DOMAIN sent'[t]
                 PROVE  IF sent'[t][i].task = "pending"
                          THEN createdAt'[sent'[t][i].msg] <= createdAt'[b]
                          ELSE createdAt'[b] <= createdAt'[sent'[t][i].msg]
      BY <1>1 DEF BacklogIsBetween
    <3>1. CASE i \in DOMAIN sent[t] /\ sent'[t][i] = sent[t][i]
      BY <1>4, <1>5, <3>1 DEF Ordering, BacklogIsBetween
    <3>2. CASE sent'[t][i].msg = m /\ sent'[t][i].task = "direct"
      BY <1>1, <1>3, <1>5, <3>2
    <3>3. QED
      BY <2>2, <3>1, <3>2
  <2>6. QED
    BY <1>3, <2>4, <2>5 DEF Ordering
<1>8. QED
  BY <1>6, <1>7 DEF PostMessage, DeliverIfConnected

LEMMA OrderingStep ==
  ASSUME TypeOK, Bookkeeping, Delivery, Ordering, [Next]_vars
  PROVE  Ordering'
<1>1. ASSUME NEW m \in Msgs, NEW c \in Clients, PostMessage(m, c)
      PROVE  Ordering'
  BY <1>1, PostOrdering
<1>2. ASSUME NEW c \in Clients, NEW s \in Sockets, Connect(c, s)
      PROVE  Ordering'
  <2>1. sent[s] = <<>>
    BY <1>2 DEF Connect, Bookkeeping
  <2>2. Pending(c) \in SUBSET Msgs
    BY DEF Pending
  <2>3. SendNext(s, Pending(c)) /\ UNCHANGED <<createdAt, clock>>
    BY <1>2 DEF Connect, database
  <2>4. QED
    BY <2>1, <2>2, <2>3, SendNextOrdering
<1>3. ASSUME UNCHANGED <<createdAt, clock, sent>>,
             \A t \in Sockets : backlog'[t] \subseteq backlog[t]
      PROVE  Ordering'
  BY <1>3 DEF Ordering, OnlyBacklogIsOvertaken, BacklogIsBetween
<1>4. ASSUME NEW s \in Sockets, SendResolved(s) PROVE Ordering'
  <2>1. UNCHANGED <<createdAt, clock>> /\ backlog[s] \in SUBSET Msgs
    BY <1>4 DEF SendResolved, TypeOK
  <2>2. CASE SendNext(s, backlog[s])
    BY <2>1, <2>2, SendNextOrdering DEF Ordering, BacklogIsBetween
  <2>3. CASE ~SendNext(s, backlog[s])
    <3>1. UNCHANGED sent /\ \A t \in Sockets : backlog'[t] \subseteq backlog[t]
      BY <1>4, <2>3 DEF SendResolved, StopLoop, TypeOK
    <3>2. QED
      BY <1>3, <2>1, <3>1
  <2>4. QED
    BY <2>2, <2>3
<1>5. ASSUME NEW s \in Sockets, SendRejected(s) \/ MarkThrows(s)
      PROVE  Ordering'
  <2>1. /\ UNCHANGED <<createdAt, clock, sent>>
        /\ backlog' \in {backlog, [backlog EXCEPT ![s] = {}]}
    BY <1>5 DEF SendRejected, MarkThrows, Abandon, StopLoop, database
  <2>2. \A t \in Sockets : backlog'[t] \subseteq backlog[t]
    BY <2>1 DEF TypeOK
  <2>3. QED
    BY <1>3, <2>1, <2>2
<1>6. CASE Halt
  BY <1>3, <1>6 DEF Halt, database
<1>7. ASSUME UNCHANGED <<createdAt, clock, sent, backlog>> PROVE Ordering'
  BY <1>3, <1>7
<1>8. ASSUME NEW c \in Clients, Register(c) PROVE Ordering'
  BY <1>7, <1>8 DEF Register, sending
<1>9. ASSUME NEW s \in Sockets,
             \/ SocketClosed(s) \/ SocketError(s) \/ ClientReads(s)
             \/ PeerLost(s) \/ CloseFrame(s) \/ TransportError(s)
      PROVE  Ordering'
  BY <1>7, <1>9 DEF SocketClosed, SocketError, ClientReads, PeerLost, CloseFrame,
                    TransportError, database, sending
<1>10. CASE Restart
  BY <1>7, <1>10 DEF Restart, database, sending
<1>11. CASE UNCHANGED vars
  BY <1>7, <1>11 DEF vars, database, sending
<1>12. QED
  BY <1>1, <1>2, <1>4, <1>5, <1>6, <1>8, <1>9, <1>10, <1>11
     DEF Next, Relay, Network

LEMMA OrderingInvariant == Spec => []Ordering
<1>1. Init => Ordering
  BY DEF Init, Ordering, OnlyBacklogIsOvertaken, BacklogIsBetween
<1>2. TypeOK /\ Bookkeeping /\ Delivery /\ Ordering /\ [Next]_vars => Ordering'
  BY OrderingStep
<1>3. QED
  BY <1>1, <1>2, TypeCorrect, BookkeepingInvariant, DeliveryInvariant, PTL DEF Spec

\* On one connection only a row posted after the client connected overtakes an
\* older one, and only one of the backlog.
THEOREM OrderOnASocket == Spec => []OnlyBacklogIsOvertaken
<1>1. Ordering => OnlyBacklogIsOvertaken
  BY DEF Ordering
<1>2. QED
  BY <1>1, OrderingInvariant, PTL

-----------------------------------------------------------------------------
(***************************************************************************)
(* Marks and answers.                                                      *)
(***************************************************************************)
\* No step takes back a send.
LEMMA SendsStay ==
  ASSUME TypeOK, [Next]_vars, NEW t \in Sockets, NEW i \in DOMAIN sent[t]
  PROVE  i \in DOMAIN sent'[t] /\ sent'[t][i] = sent[t][i]
<1>1. ASSUME NEW s \in Sockets, NEW m \in Msgs, NEW task \in {"pending", "direct"},
             Write(s, m, task)
      PROVE  i \in DOMAIN sent'[t] /\ sent'[t][i] = sent[t][i]
  BY <1>1, WriteEffect
<1>2. ASSUME NEW s \in Sockets, NEW rows \in SUBSET Msgs, SendNext(s, rows)
      PROVE  i \in DOMAIN sent'[t] /\ sent'[t][i] = sent[t][i]
  BY <1>1, <1>2 DEF SendNext, Oldest
<1>3. ASSUME NEW m \in Msgs, NEW c \in Clients, PostMessage(m, c)
      PROVE  i \in DOMAIN sent'[t] /\ sent'[t][i] = sent[t][i]
  <2>1. CASE Connected(c) /\ Write(connections[c], m, "direct")
    <3>1. connections[c] \in Sockets
      BY <2>1 DEF Connected, TypeOK
    <3>2. QED
      BY <1>1, <2>1, <3>1
  <2>2. QED
    BY <1>3, <2>1 DEF PostMessage, DeliverIfConnected
<1>4. ASSUME NEW c \in Clients, NEW s \in Sockets, Connect(c, s)
      PROVE  i \in DOMAIN sent'[t] /\ sent'[t][i] = sent[t][i]
  BY <1>2, <1>4 DEF Connect, Pending
<1>5. ASSUME NEW s \in Sockets, SendResolved(s)
      PROVE  i \in DOMAIN sent'[t] /\ sent'[t][i] = sent[t][i]
  BY <1>2, <1>5 DEF SendResolved, StopLoop, TypeOK
<1>6. CASE UNCHANGED sent
  BY <1>6
<1>7. QED
  BY <1>3, <1>4, <1>5, <1>6
     DEF Next, Relay, Network, vars, sending, Register, SendRejected, MarkThrows,
         Abandon, StopLoop, SocketClosed, SocketError, Halt, Restart,
         ClientReads, PeerLost, CloseFrame, TransportError

LEMMA MarkingStep ==
  ASSUME TypeOK, Marking, [Next]_vars
  PROVE  Marking'
<1>1. Handed \subseteq Handed'
  BY SendsStay DEF Handed
<1>2. ASSUME UNCHANGED delivered,
             \A m \in Msgs : reply'[m] = "delivered" => reply[m] = "delivered"
      PROVE  Marking'
  BY <1>1, <1>2 DEF Marking, ReplyImpliesMarked
<1>3. ASSUME NEW m \in Msgs, NEW c \in Clients, PostMessage(m, c)
      PROVE  Marking'
  BY <1>2, <1>3 DEF PostMessage, DeliverIfConnected, TypeOK
<1>4. ASSUME NEW s \in Sockets, SendResolved(s) PROVE Marking'
  <2>1. /\ settled[s] + 1 \in DOMAIN sent[s]
        /\ Awaited(s).msg \in Msgs
    BY <1>4, AwaitedType DEF SendResolved
  <2>2. Awaited(s).msg \in Handed
    BY <2>1 DEF Awaited, Handed
  <2>3. delivered' = delivered \cup {Awaited(s).msg}
    BY <1>4 DEF SendResolved
  <2>4. \A m \in Msgs : reply'[m] = "delivered"
                          => reply[m] = "delivered" \/ m = Awaited(s).msg
    BY <1>4 DEF SendResolved, TypeOK
  <2>5. QED
    BY <1>1, <2>2, <2>3, <2>4 DEF Marking, ReplyImpliesMarked
<1>5. ASSUME NEW s \in Sockets, SendRejected(s) \/ MarkThrows(s)
      PROVE  Marking'
  BY <1>2, <1>5 DEF SendRejected, MarkThrows, Abandon, database, TypeOK
<1>6. CASE UNCHANGED <<delivered, reply>>
  BY <1>2, <1>6
<1>7. ASSUME NEW c \in Clients, NEW s \in Sockets, Connect(c, s)
      PROVE  Marking'
  BY <1>6, <1>7 DEF Connect, database
<1>8. QED
  BY <1>3, <1>4, <1>5, <1>6, <1>7
     DEF Next, Relay, Network, vars, database, Register, SocketClosed,
         SocketError, Halt, Restart, ClientReads, PeerLost, CloseFrame,
         TransportError

LEMMA MarkingInvariant == Spec => []Marking
<1>1. Init => Marking
  BY DEF Init, Marking, ReplyImpliesMarked
<1>2. TypeOK /\ Marking /\ [Next]_vars => Marking'
  BY MarkingStep
<1>3. QED
  BY <1>1, <1>2, TypeCorrect, PTL DEF Spec

\* A sender told "delivered: true" can rely on the mark.
THEOREM RepliesAreTrue == Spec => []ReplyImpliesMarked
<1>1. Marking => ReplyImpliesMarked
  BY DEF Marking
<1>2. QED
  BY <1>1, MarkingInvariant, PTL

\* The inductive invariant.
THEOREM Invariance == Spec => []IInv
<1>1. Bookkeeping /\ Delivery /\ Ordering /\ Marking => IInv
  BY DEF IInv
<1>2. QED
  BY <1>1, BookkeepingInvariant, DeliveryInvariant, OrderingInvariant,
     MarkingInvariant, PTL

-----------------------------------------------------------------------------
(***************************************************************************)
(* The relay implements the mailbox: every step of RelayServer is a step   *)
(* of Mailbox, or leaves the mailbox alone.                                *)
(***************************************************************************)
\* The mailbox the client c of the relay sees.
HeardFun == [c \in Clients |-> HeardBy(c)]

\* A write hands over one row.
LEMMA WriteHandsOver ==
  ASSUME TypeOK, NEW s \in Sockets, NEW m \in Msgs,
         NEW task \in {"pending", "direct"}, Write(s, m, task)
  PROVE  Handed' = Handed \cup {m}
<1>1. /\ \A t \in Sockets : t # s => sent'[t] = sent[t]
      /\ \A i \in DOMAIN sent[s] : i \in DOMAIN sent'[s] /\ sent'[s][i] = sent[s][i]
      /\ \A i \in DOMAIN sent'[s] :
           \/ i \in DOMAIN sent[s] /\ sent'[s][i] = sent[s][i]
           \/ sent'[s][i].msg = m
  BY WriteEffect
<1>2. \E i \in DOMAIN sent'[s] : sent'[s][i].msg = m
  <2> DEFINE n == Len(sent[s]) + 1
  <2>1. Len(sent[s]) \in Nat /\ sent[s] \in Seq(Send) /\ sent'[s] \in Seq(Send)
    BY WriteType DEF TypeOK
  <2>2. n \in DOMAIN sent'[s] /\ n \notin DOMAIN sent[s]
    BY <2>1, WriteEffect
  <2>3. sent'[s][n].msg = m
    BY <2>2, WriteEffect
  <2>4. QED
    BY <2>2, <2>3
<1>3. Handed' \subseteq Handed \cup {m}
  BY <1>1 DEF Handed
<1>4. Handed \cup {m} \subseteq Handed'
  BY <1>1, <1>2 DEF Handed
<1>5. QED
  BY <1>3, <1>4

\* The loop of deliverPending hands over one row, or none.
LEMMA SendNextHandsOver ==
  ASSUME TypeOK, NEW s \in Sockets, NEW rows \in SUBSET Msgs, SendNext(s, rows)
  PROVE  Handed' = Handed \/ \E m \in rows : Handed' = Handed \cup {m}
<1>1. CASE UNCHANGED sent
  BY <1>1 DEF Handed
<1>2. ASSUME NEW m \in Oldest(rows), Write(s, m, "pending")
      PROVE  \E n \in rows : Handed' = Handed \cup {n}
  BY <1>2, WriteHandsOver DEF Oldest
<1>3. QED
  BY <1>1, <1>2 DEF SendNext

\* Rows handed over are stored rows.
LEMMA HandedAreStored ==
  ASSUME TypeOK, Bookkeeping, Delivery
  PROVE  Handed \subseteq {m \in Msgs : to[m] # NoClient}
<1> USE RelayAssumption
<1>1. QED
  BY SendsAreRows DEF Handed

\* What clients have read does not change while nothing is read: sends stay,
\* and a socket that gets an owner has not been read.
LEMMA HeardStays ==
  ASSUME TypeOK, Bookkeeping, [Next]_vars, UNCHANGED heard,
         \A t \in Sockets : owner'[t] = owner[t] \/ sent[t] = <<>>
  PROVE  HeardFun' = HeardFun
<1>1. ASSUME NEW t \in Sockets, NEW i \in 1..heard[t]
      PROVE  /\ i \in DOMAIN sent[t]
             /\ sent'[t][i] = sent[t][i]
             /\ owner'[t] = owner[t]
  <2>1. heard[t] \in Nat /\ heard[t] <= Len(sent[t]) /\ sent[t] \in Seq(Send)
    BY DEF TypeOK, Bookkeeping
  <2>2. i \in DOMAIN sent[t] /\ sent[t] # <<>>
    BY <2>1
  <2>3. QED
    BY <2>2, SendsStay
<1>2. ASSUME NEW c \in Clients PROVE HeardBy(c)' = HeardBy(c)
  <2>1. HeardBy(c)' \subseteq HeardBy(c)
    BY <1>1 DEF HeardBy
  <2>2. HeardBy(c) \subseteq HeardBy(c)'
    BY <1>1 DEF HeardBy
  <2>3. QED
    BY <2>1, <2>2
<1>3. QED
  BY <1>2 DEF HeardFun

\* Reading a socket is hearing one row.
LEMMA ReadHears ==
  ASSUME TypeOK, Bookkeeping, Delivery, NEW s \in Sockets, ClientReads(s)
  PROVE  \E m \in Handed :
           HeardFun' = [HeardFun EXCEPT ![to[m]] = @ \cup {m}]
<1> DEFINE n == heard[s] + 1
<1> DEFINE m == sent[s][n].msg
<1>1. heard[s] \in Nat /\ heard[s] < Len(sent[s]) /\ sent[s] \in Seq(Send)
  BY DEF TypeOK, ClientReads
<1>2. n \in DOMAIN sent[s]
  BY <1>1
<1>3. m \in Handed
  BY <1>2 DEF Handed
<1>4. to[m] = owner[s] /\ to[m] \in Clients
  BY <1>2, SendsAreRows DEF Delivery, SentToRecipient
<1>5. /\ \A t \in Sockets : heard'[t] = IF t = s THEN n ELSE heard[t]
      /\ UNCHANGED <<sent, owner>>
  BY DEF ClientReads, TypeOK, sockets, sending
<1>6. 1..n = (1..heard[s]) \cup {n}
  BY <1>1
<1> HIDE DEF n
<1>7. ASSUME NEW c \in Clients
      PROVE  HeardBy(c)' = IF c = owner[s] THEN HeardBy(c) \cup {m} ELSE HeardBy(c)
  BY <1>5, <1>6 DEF HeardBy
<1> HIDE DEF m
<1>8. HeardFun' = [HeardFun EXCEPT ![to[m]] = @ \cup {m}]
  BY <1>4, <1>7 DEF HeardFun
<1>9. QED
  BY <1>3, <1>8

-----------------------------------------------------------------------------
LEMMA RefinementInit == Init => Box!Init
<1> SUFFICES ASSUME Init PROVE Box!Init
  OBVIOUS
<1>1. Handed = {}
  BY DEF Init, Handed
<1>2. \A c \in Clients : HeardBy(c) = {}
  BY DEF Init, HeardBy
<1>3. QED
  BY <1>1, <1>2 DEF Init, Box!Init

LEMMA RefinementStep ==
  ASSUME TypeOK, Bookkeeping, Delivery, [Next]_vars
  PROVE  [Box!Next]_Box!mailbox
<1> USE RelayAssumption
<1>1. ASSUME NEW m \in Msgs, NEW c \in Clients, PostMessage(m, c)
      PROVE  Box!Next
  <2>1. HeardFun' = HeardFun
    BY <1>1, HeardStays DEF PostMessage, sockets, remote
  <2>2. Handed' \in {Handed, Handed \cup {m}}
    <3>1. CASE UNCHANGED sent
      BY <3>1 DEF Handed
    <3>2. CASE Connected(c) /\ Write(connections[c], m, "direct")
      <4>1. connections[c] \in Sockets
        BY <3>2 DEF Connected, TypeOK
      <4>2. QED
        BY <3>2, <4>1, WriteHandsOver
    <3>3. QED
      BY <1>1, <3>1, <3>2 DEF PostMessage, DeliverIfConnected
  <2>3. to[m] = NoClient /\ to' = [to EXCEPT ![m] = c] /\ UNCHANGED delivered
    BY <1>1 DEF PostMessage
  <2>4. Box!Accept(m, c)
    BY <2>1, <2>2, <2>3 DEF Box!Accept, HeardFun
  <2>5. QED
    BY <2>4 DEF Box!Next
<1>2. ASSUME NEW c \in Clients, NEW s \in Sockets, Connect(c, s)
      PROVE  Box!Next
  <2>1. \A t \in Sockets : owner'[t] = owner[t] \/ sent[t] = <<>>
    BY <1>2 DEF Connect, Bookkeeping, TypeOK
  <2>2. UNCHANGED <<heard, to, delivered>> /\ SendNext(s, Pending(c))
    BY <1>2 DEF Connect, database
  <2>3. HeardFun' = HeardFun
    BY <2>1, <2>2, HeardStays
  <2>4. Pending(c) \in SUBSET Msgs /\ \A m \in Pending(c) : to[m] # NoClient
    BY DEF Pending
  <2>5. Handed' = Handed \/ \E m \in Pending(c) : Handed' = Handed \cup {m}
    BY <2>2, <2>4, SendNextHandsOver
  <2>6. Box!Offer
    BY <2>2, <2>3, <2>4, <2>5 DEF Box!Offer, Box!HandOver, Box!Accepted, HeardFun
  <2>7. QED
    BY <2>6 DEF Box!Next
<1>3. ASSUME NEW s \in Sockets, SendResolved(s) PROVE Box!Next
  <2>1. /\ UNCHANGED <<to, owner, heard>>
        /\ delivered' = delivered \cup {Awaited(s).msg}
    BY <1>3 DEF SendResolved, sockets, remote
  <2>2. /\ settled[s] + 1 \in DOMAIN sent[s]
        /\ Awaited(s).msg \in Msgs
    BY <1>3, AwaitedType DEF SendResolved
  <2>3. Awaited(s).msg \in Handed
    BY <2>2 DEF Awaited, Handed
  <2>4. HeardFun' = HeardFun
    BY <2>1, HeardStays
  <2>5. backlog[s] \in SUBSET Msgs /\ \A m \in backlog[s] : to[m] # NoClient
    <3>1. backlog[s] # {} => owner[s] \in Clients
      BY DEF Bookkeeping
    <3>2. QED
      BY <3>1 DEF Delivery, BacklogIsDue, TypeOK
  <2>6. Handed' = Handed \/ \E m \in backlog[s] : Handed' = Handed \cup {m}
    <3>1. CASE SendNext(s, backlog[s])
      BY <2>5, <3>1, SendNextHandsOver
    <3>2. CASE UNCHANGED sent
      BY <3>2 DEF Handed
    <3>3. QED
      BY <1>3, <3>1, <3>2 DEF SendResolved, StopLoop
  <2>7. Box!Settle(Awaited(s).msg)
    BY <2>1, <2>3, <2>4, <2>5, <2>6
       DEF Box!Settle, Box!HandOver, Box!Accepted, HeardFun
  <2>8. QED
    BY <2>2, <2>7 DEF Box!Next
<1>4. ASSUME NEW s \in Sockets, ClientReads(s) PROVE Box!Next
  <2>1. PICK m \in Handed : HeardFun' = [HeardFun EXCEPT ![to[m]] = @ \cup {m}]
    BY <1>4, ReadHears
  <2>2. m \in Msgs
    BY HandedAreStored
  <2>3. UNCHANGED <<to, delivered, Handed>>
    BY <1>4 DEF ClientReads, database, sending, Handed
  <2>4. Box!Hear(m)
    BY <2>1, <2>3 DEF Box!Hear, HeardFun
  <2>5. QED
    BY <2>2, <2>4 DEF Box!Next
<1>5. ASSUME UNCHANGED <<to, delivered, sent, owner, heard>>
      PROVE  UNCHANGED Box!mailbox
  BY <1>5 DEF Box!mailbox, Handed, HeardBy
<1>6. ASSUME NEW s \in Sockets,
             \/ SendRejected(s) \/ MarkThrows(s) \/ SocketClosed(s)
             \/ SocketError(s) \/ PeerLost(s) \/ CloseFrame(s) \/ TransportError(s)
      PROVE  UNCHANGED Box!mailbox
  BY <1>5, <1>6 DEF SendRejected, MarkThrows, Abandon, StopLoop, SocketClosed,
                    SocketError, PeerLost, CloseFrame, TransportError, database,
                    sockets, sending, remote
<1>7. CASE Halt \/ Restart \/ UNCHANGED vars \/ \E c \in Clients : Register(c)
  BY <1>5, <1>7 DEF Halt, Restart, vars, Register, database, sockets, sending, remote
<1>8. QED
  BY <1>1, <1>2, <1>3, <1>4, <1>6, <1>7 DEF Next, Relay, Network

\* The relay implements the mailbox: no row is accepted twice, marked before it
\* was written to a socket of its recipient, or unmarked, whatever sockets,
\* halts and restarts do.
THEOREM Refinement == Spec => ImplementsMailbox
<1>1. TypeOK /\ Bookkeeping /\ Delivery /\ [Next]_vars => [Box!Next]_Box!mailbox
  BY RefinementStep
<1>2. QED
  BY <1>1, RefinementInit, TypeCorrect, BookkeepingInvariant, DeliveryInvariant,
     PTL DEF Spec, ImplementsMailbox, Box!Spec
=============================================================================
