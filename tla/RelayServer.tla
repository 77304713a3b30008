---------------------------- MODULE RelayServer ----------------------------
(***************************************************************************)
(* The message path of the relay (packages/relay-server/src/index.ts): the *)
(* users and messages tables, the connections map, and the two ways a row  *)
(* reaches a WebSocket, deliverIfConnected (a message just posted) and     *)
(* deliverPending (the rows found undelivered when a client connects).     *)
(*                                                                         *)
(* Node runs one callback at a time and better-sqlite3 is synchronous, so  *)
(* an action is the code between two awaits.  The only await of the two    *)
(* delivery functions is on the callback of ws.send: a send is therefore   *)
(* two steps, the write (sent grows) and its callback (settled grows), and *)
(* any other handler may run in between.  The callback reports that the    *)
(* bytes left the process, not that the client has them.                   *)
(***************************************************************************)
EXTENDS Integers, Sequences, FiniteSets

CONSTANTS
  Clients,      \* identities that may register
  Msgs,         \* message ids: randomUUID never returns one twice
  Sockets,      \* WebSocket objects: every upgrade makes a new one
  NoClient,     \* the recipient of a message that is not in the table
  NoSocket,     \* connections.get(id) of an id without an entry
  DbFaults      \* may the UPDATE of the delivered flag throw?

ASSUME RelayAssumption ==
  /\ NoClient \notin Clients
  /\ NoSocket \notin Sockets
  /\ DbFaults \in BOOLEAN

VARIABLES
  up,           \* the relay process is running
  users,        \* table users
  to,           \* table messages: recipient of each row, NoClient if no row
  createdAt,    \* table messages: created_at
  delivered,    \* table messages: the rows with delivered = 1
  clock,        \* Date.now() at the last insert
  connections,  \* the connections map
  owner,        \* the clientId each socket was accepted for
  readyState,   \* see ReadyStates
  backlog,      \* rows deliverPending has not sent yet, per socket
  sent,         \* sends on each socket, in order: the row and who awaits it
  settled,      \* how many of those sends have had their callback
  peer,         \* the client still reads this socket
  heard,        \* how many sends of each socket its client has read
  reply         \* what POST /v1/messages answered for a row

database == <<users, to, createdAt, delivered, clock>>
sockets  == <<connections, owner, readyState>>
sending  == <<backlog, sent, settled>>
remote   == <<peer, heard>>
vars == <<up, database, sockets, sending, remote, reply>>

\* ws has CLOSING for both CLOSING and DESTROYED: in the first the TCP socket
\* still flushes what was written, in the second it is gone.
ReadyStates == {"NEW", "OPEN", "CLOSING", "DESTROYED", "CLOSED"}

Send == [msg : Msgs, task : {"pending", "direct"}]

TypeOK ==
  /\ up \in BOOLEAN
  /\ users \subseteq Clients
  /\ to \in [Msgs -> Clients \cup {NoClient}]
  /\ createdAt \in [Msgs -> Nat]
  /\ delivered \subseteq Msgs
  /\ clock \in Nat
  /\ connections \in [Clients -> Sockets \cup {NoSocket}]
  /\ owner \in [Sockets -> Clients \cup {NoClient}]
  /\ readyState \in [Sockets -> ReadyStates]
  /\ backlog \in [Sockets -> SUBSET Msgs]
  /\ sent \in [Sockets -> Seq(Send)]
  /\ settled \in [Sockets -> Nat]
  /\ peer \in [Sockets -> BOOLEAN]
  /\ heard \in [Sockets -> Nat]
  /\ reply \in [Msgs -> {"none", "delivered", "queued"}]

Init ==
  /\ up = TRUE
  /\ users = {}
  /\ to = [m \in Msgs |-> NoClient]
  /\ createdAt = [m \in Msgs |-> 0]
  /\ delivered = {}
  /\ clock = 0
  /\ connections = [c \in Clients |-> NoSocket]
  /\ owner = [s \in Sockets |-> NoClient]
  /\ readyState = [s \in Sockets |-> "NEW"]
  /\ backlog = [s \in Sockets |-> {}]
  /\ sent = [s \in Sockets |-> <<>>]
  /\ settled = [s \in Sockets |-> 0]
  /\ peer = [s \in Sockets |-> FALSE]
  /\ heard = [s \in Sockets |-> 0]
  /\ reply = [m \in Msgs |-> "none"]

-----------------------------------------------------------------------------
(***************************************************************************)
(* Helpers: queries and the two halves of a send.                          *)
(***************************************************************************)
\* stmtMsgPending: the undelivered rows of a recipient.
Pending(c) == {m \in Msgs : to[m] = c /\ m \notin delivered}

\* Mutant of Oldest: the query forgets its ORDER BY.
AnyOf(rows) == rows

\* ORDER BY created_at ASC leaves the order of equal timestamps open.
Oldest(rows) == {m \in rows : \A n \in rows : createdAt[m] <= createdAt[n]}

\* sendWsMessage up to its await, by the function that awaits it.
Write(s, m, task) ==
  sent' = [sent EXCEPT ![s] = Append(@, [msg |-> m, task |-> task])]

\* The loop of deliverPending from one await to the next.
SendNext(s, rows) ==
  \/ /\ rows = {}
     /\ UNCHANGED <<sent, backlog>>
  \/ \E m \in Oldest(rows) :
       /\ Write(s, m, "pending")
       /\ backlog' = [backlog EXCEPT ![s] = rows \ {m}]

\* The break of deliverPending: the rest of the rows stays in the table.
StopLoop(s) ==
  /\ backlog' = [backlog EXCEPT ![s] = {}]
  /\ UNCHANGED sent

\* The open socket of a client, if the map has one.
Connected(c) ==
  /\ connections[c] # NoSocket
  /\ readyState[connections[c]] = "OPEN"

\* The loop of deliverPending awaits a send on the socket.
LoopRuns(s) == \E i \in (settled[s] + 1)..Len(sent[s]) : sent[s][i].task = "pending"

\* Mutant of DeliverIfConnected: leaves a new row to the loop that is running.
DeferToLoop(m, c) ==
  \/ /\ Connected(c) /\ ~LoopRuns(connections[c])
     /\ Write(connections[c], m, "direct")
     /\ UNCHANGED reply
  \/ /\ Connected(c) => LoopRuns(connections[c])
     /\ reply' = [reply EXCEPT ![m] = "queued"]
     /\ UNCHANGED sent

\* deliverIfConnected up to its await, for the row just inserted.
DeliverIfConnected(m, c) ==
  \/ /\ Connected(c)
     /\ Write(connections[c], m, "direct")
     /\ UNCHANGED reply
  \/ /\ ~Connected(c)
     /\ reply' = [reply EXCEPT ![m] = "queued"]
     /\ UNCHANGED sent

\* The send whose callback runs next: callbacks run in the order of the writes.
Awaited(s) == sent[s][settled[s] + 1]
Awaiting(s) == up /\ settled[s] < Len(sent[s])

\* Mutant of Abandon: deliverIfConnected returns true from its catch.
AbandonTrue(s) ==
  \/ /\ Awaited(s).task = "pending"
     /\ StopLoop(s)
     /\ UNCHANGED reply
  \/ /\ Awaited(s).task = "direct"
     /\ reply' = [reply EXCEPT ![Awaited(s).msg] = "delivered"]
     /\ UNCHANGED <<backlog, sent>>

\* The catch blocks of the two delivery functions.
Abandon(s) ==
  \/ /\ Awaited(s).task = "pending"
     /\ StopLoop(s)
     /\ UNCHANGED reply
  \/ /\ Awaited(s).task = "direct"
     /\ reply' = [reply EXCEPT ![Awaited(s).msg] = "queued"]
     /\ UNCHANGED <<backlog, sent>>

\* Mutant of DropEntry: the guard is dropped.
DropEntryOfClient(s) ==
  connections' = [connections EXCEPT ![owner[s]] = NoSocket]

\* The guard of the close and error handlers: only this socket's own entry.
DropEntry(s) ==
  connections' = [c \in Clients |->
                    IF connections[c] = s THEN NoSocket ELSE connections[c]]

-----------------------------------------------------------------------------
(***************************************************************************)
(* Steps of the relay.                                                     *)
(***************************************************************************)
\* POST /v1/register: INSERT OR IGNORE.
Register(c) ==
  /\ up
  /\ users' = users \cup {c}
  /\ UNCHANGED <<up, to, createdAt, delivered, clock, sockets, sending, remote,
                 reply>>

\* Mutant of PostMessage: marks the row when it is inserted.
PostMessageMarked(m, c) ==
  /\ up
  /\ c \in users
  /\ to[m] = NoClient
  /\ clock' \in {clock, clock + 1}
  /\ to' = [to EXCEPT ![m] = c]
  /\ createdAt' = [createdAt EXCEPT ![m] = clock']
  /\ delivered' = delivered \cup {m}
  /\ DeliverIfConnected(m, c)
  /\ UNCHANGED <<up, users, sockets, backlog, settled, remote>>

\* POST /v1/messages, from the end of readJson to the await on the send: look
\* up the recipient, insert the row, try the direct delivery.  An unknown
\* recipient is a 404 that changes nothing.
PostMessage(m, c) ==
  /\ up
  /\ c \in users
  /\ to[m] = NoClient
  /\ clock' \in {clock, clock + 1}
  /\ to' = [to EXCEPT ![m] = c]
  /\ createdAt' = [createdAt EXCEPT ![m] = clock']
  /\ DeliverIfConnected(m, c)
  /\ UNCHANGED <<up, users, delivered, sockets, backlog, settled, remote>>

\* The upgrade and the connection handler: supersede the socket in the map,
\* take its place, read the pending rows and send the oldest of them.
Connect(c, s) ==
  /\ up
  /\ c \in users
  /\ readyState[s] = "NEW"
  /\ owner' = [owner EXCEPT ![s] = c]
  /\ readyState' = [t \in Sockets |->
                      IF t = s THEN "OPEN"
                      ELSE IF t = connections[c] /\ readyState[t] = "OPEN"
                             THEN "CLOSING" ELSE readyState[t]]
  /\ connections' = [connections EXCEPT ![c] = s]
  /\ peer' = [peer EXCEPT ![s] = TRUE]
  /\ SendNext(s, Pending(c))
  /\ UNCHANGED <<up, database, settled, heard, reply>>

\* Mutant of SendResolved: the loop queries the table again for its next row.
SendResolvedRequery(s) ==
  /\ Awaiting(s)
  /\ readyState[s] \in {"OPEN", "CLOSING"}
  /\ settled' = [settled EXCEPT ![s] = @ + 1]
  /\ delivered' = delivered \cup {Awaited(s).msg}
  /\ \/ /\ Awaited(s).task = "pending"
        /\ SendNext(s, Pending(owner[s]) \ {Awaited(s).msg})
        /\ UNCHANGED reply
     \/ /\ Awaited(s).task = "direct"
        /\ reply' = [reply EXCEPT ![Awaited(s).msg] = "delivered"]
        /\ UNCHANGED <<backlog, sent>>
  /\ UNCHANGED <<up, users, to, createdAt, clock, sockets, remote>>

\* The send resolved: mark the row; deliverPending goes on with the next row,
\* whose send fails at once on a socket that is no longer open;
\* deliverIfConnected returns true and the request is answered.
SendResolved(s) ==
  /\ Awaiting(s)
  /\ readyState[s] \in {"OPEN", "CLOSING"}
  /\ settled' = [settled EXCEPT ![s] = @ + 1]
  /\ delivered' = delivered \cup {Awaited(s).msg}
  /\ \/ /\ Awaited(s).task = "pending"
        /\ IF readyState[s] = "OPEN" THEN SendNext(s, backlog[s]) ELSE StopLoop(s)
        /\ UNCHANGED reply
     \/ /\ Awaited(s).task = "direct"
        /\ reply' = [reply EXCEPT ![Awaited(s).msg] = "delivered"]
        /\ UNCHANGED <<backlog, sent>>
  /\ UNCHANGED <<up, users, to, createdAt, clock, sockets, remote>>

\* The send rejected: the socket was destroyed before the bytes left.
SendRejected(s) ==
  /\ Awaiting(s)
  /\ readyState[s] \in {"DESTROYED", "CLOSED"}
  /\ settled' = [settled EXCEPT ![s] = @ + 1]
  /\ Abandon(s)
  /\ UNCHANGED <<up, database, sockets, remote>>

\* The send resolved but the UPDATE threw: the same catch blocks run.
MarkThrows(s) ==
  /\ DbFaults
  /\ Awaiting(s)
  /\ readyState[s] \in {"OPEN", "CLOSING"}
  /\ settled' = [settled EXCEPT ![s] = @ + 1]
  /\ Abandon(s)
  /\ UNCHANGED <<up, database, sockets, remote>>

\* ws emits "close".
SocketClosed(s) ==
  /\ up
  /\ readyState[s] \in {"CLOSING", "DESTROYED"}
  /\ readyState' = [readyState EXCEPT ![s] = "CLOSED"]
  /\ DropEntry(s)
  /\ UNCHANGED <<up, database, owner, sending, remote, reply>>

\* ws emits "error" (a frame it cannot parse), having started to close.
SocketError(s) ==
  /\ up
  /\ readyState[s] = "OPEN"
  /\ readyState' = [readyState EXCEPT ![s] = "CLOSING"]
  /\ DropEntry(s)
  /\ UNCHANGED <<up, database, owner, sending, remote, reply>>

\* The process ends: the SIGINT handler has no await, so it leaves what a
\* crash leaves.  The tables stay, the map, the loops and the pending
\* callbacks and requests are gone.
Halt ==
  /\ up
  /\ up' = FALSE
  /\ connections' = [c \in Clients |-> NoSocket]
  /\ readyState' = [s \in Sockets |->
                      IF readyState[s] = "NEW" THEN "NEW" ELSE "CLOSED"]
  /\ backlog' = [s \in Sockets |-> {}]
  /\ settled' = [s \in Sockets |-> Len(sent[s])]
  /\ UNCHANGED <<database, owner, sent, remote, reply>>

Restart ==
  /\ ~up
  /\ up' = TRUE
  /\ UNCHANGED <<database, sockets, sending, remote, reply>>

-----------------------------------------------------------------------------
(***************************************************************************)
(* Steps of the network and of the clients.                                *)
(***************************************************************************)
\* The client reads the next message of its socket; also what was flushed
\* before the relay closed the socket.
ClientReads(s) ==
  /\ peer[s]
  /\ heard[s] < Len(sent[s])
  /\ heard' = [heard EXCEPT ![s] = @ + 1]
  /\ UNCHANGED <<up, database, sockets, sending, peer, reply>>

\* The client process or its network goes away; the relay is not told.
PeerLost(s) ==
  /\ peer[s]
  /\ peer' = [peer EXCEPT ![s] = FALSE]
  /\ UNCHANGED <<up, database, sockets, sending, heard, reply>>

\* The close frame of a client that left reaches the relay; ws answers it.
CloseFrame(s) ==
  /\ up
  /\ ~peer[s]
  /\ readyState[s] = "OPEN"
  /\ readyState' = [readyState EXCEPT ![s] = "CLOSING"]
  /\ UNCHANGED <<up, database, connections, owner, sending, remote, reply>>

\* A reset, a TCP timeout, or the 30 s ws grants a closing handshake.
TransportError(s) ==
  /\ up
  /\ readyState[s] \in {"OPEN", "CLOSING"}
  /\ readyState' = [readyState EXCEPT ![s] = "DESTROYED"]
  /\ UNCHANGED <<up, database, connections, owner, sending, remote, reply>>

-----------------------------------------------------------------------------
Relay ==
  \/ \E c \in Clients : Register(c)
  \/ \E m \in Msgs, c \in Clients : PostMessage(m, c)
  \/ \E c \in Clients, s \in Sockets : Connect(c, s)
  \/ \E s \in Sockets : SendResolved(s)
  \/ \E s \in Sockets : SendRejected(s)
  \/ \E s \in Sockets : MarkThrows(s)
  \/ \E s \in Sockets : SocketClosed(s)
  \/ \E s \in Sockets : SocketError(s)
  \/ Halt
  \/ Restart

Network ==
  \/ \E s \in Sockets : ClientReads(s)
  \/ \E s \in Sockets : PeerLost(s)
  \/ \E s \in Sockets : CloseFrame(s)
  \/ \E s \in Sockets : TransportError(s)

Next == Relay \/ Network

Spec == Init /\ [][Next]_vars

\* The event loop runs the callback of a send whose client keeps reading; a
\* client that keeps reading reads on; ws finishes a close it started.  A send
\* to a client that reads no more may wait for ever: the relay has no
\* heartbeat, so nothing makes TransportError happen.
Fairness ==
  /\ \A s \in Sockets : WF_vars(peer[s] /\ SendResolved(s))
  /\ \A s \in Sockets : WF_vars(ClientReads(s))
  /\ \A s \in Sockets : WF_vars(SocketClosed(s))

FairSpec == Spec /\ Fairness
-----------------------------------------------------------------------------
(***************************************************************************)
(* Properties.                                                             *)
(***************************************************************************)
\* An open socket is the one the map holds for its client, so a client has at
\* most one and every other socket it had is on its way out: the handlers of a
\* superseded socket, which run after its successor took the entry, must not
\* remove it (the guards at lines 560 and 565).
OpenIsRegistered ==
  \A s \in Sockets : readyState[s] = "OPEN" => connections[owner[s]] = s

\* The sends of a socket that wait for their callback.
InFlight(s) == {sent[s][i].msg : i \in (settled[s] + 1)..Len(sent[s])}

\* No undelivered row is forgotten while its recipient has an open socket: it
\* waits in that socket's loop or its send is in flight.  A row posted while
\* the snapshot of deliverPending is being sent, or whose direct send was on a
\* socket superseded meanwhile, must not fall between the two functions.
NoStrandedRow ==
  \A m \in Msgs, c \in Clients :
    to[m] = c /\ m \notin delivered /\ Connected(c)
      => m \in backlog[connections[c]] \cup InFlight(connections[c])

\* One connection never carries a row twice, whatever interleaving of
\* deliverPending with direct sends: duplicates need a reconnection.
AtMostOncePerSocket ==
  \A s \in Sockets : \A i, j \in DOMAIN sent[s] :
    i # j => sent[s][i].msg # sent[s][j].msg

\* On one connection rows travel in the order of created_at, with one
\* exception: a row posted while the backlog is being sent overtakes the rest
\* of the backlog.
OnlyBacklogIsOvertaken ==
  \A s \in Sockets : \A i, j \in DOMAIN sent[s] :
    i < j /\ createdAt[sent[s][j].msg] < createdAt[sent[s][i].msg]
      => sent[s][i].task = "direct" /\ sent[s][j].task = "pending"

\* A row is written only to sockets of its recipient.
SentToRecipient ==
  \A s \in Sockets : \A i \in DOMAIN sent[s] : to[sent[s][i].msg] = owner[s]

\* A sender told "delivered: true" can rely on the row being marked, also after
\* a restart.
ReplyImpliesMarked ==
  \A m \in Msgs : reply[m] = "delivered" => m \in delivered

\* The mailbox the relay implements: a row counts as handed over once it was
\* written to a socket, and as heard once its client has read it from one.
Handed == UNION {{sent[s][i].msg : i \in DOMAIN sent[s]} : s \in Sockets}
HeardBy(c) ==
  UNION {{sent[s][i].msg : i \in 1..heard[s]} :
           s \in {t \in Sockets : owner[t] = c}}

Box == INSTANCE Mailbox
         WITH handed <- Handed, heard <- [c \in Clients |-> HeardBy(c)]

\* The relay implements the mailbox: rows are accepted once, marked only after
\* they were written to a socket of their recipient, never unmarked, and kept
\* across Halt and Restart.
ImplementsMailbox == Box!Spec

\* A client is online on a socket that is open and that it keeps reading.
Online(s) == readyState[s] = "OPEN" /\ peer[s]

\* The queue drains: while a client stays online on one socket, each of its
\* undelivered rows gets marked and reaches it.  Reconnecting does not count as
\* staying online: a row marked on the old socket may be lost with it.
QueueDrains ==
  \A m \in Msgs, s \in Sockets :
    (to[m] = owner[s] /\ m \notin delivered /\ Online(s))
      ~> ((m \in delivered /\ m \in HeardBy(owner[s])) \/ ~Online(s))

\* What line 17 ("RELIABLE DELIVERY") and line 255 ("1=delivered") say of a
\* marked row: its recipient has it, or is still reading the socket it is on.
DeliveredReachesClient ==
  \A m \in delivered : \E s \in Sockets : \E i \in DOMAIN sent[s] :
    sent[s][i].msg = m /\ (i <= heard[s] \/ peer[s])

-----------------------------------------------------------------------------
(***************************************************************************)
(* What makes those properties inductive, in layers: each layer is kept by *)
(* every step that starts from the layers before it.                       *)
(***************************************************************************)
\* The sockets and the map agree on who is connected where.
Bookkeeping ==
  /\ \A s \in Sockets : settled[s] <= Len(sent[s]) /\ heard[s] <= Len(sent[s])
  /\ \A s \in Sockets :
       IF readyState[s] = "NEW"
         THEN owner[s] = NoClient /\ backlog[s] = {} /\ sent[s] = <<>>
         ELSE owner[s] \in Clients
  /\ \A c \in Clients : connections[c] # NoSocket =>
       owner[connections[c]] = c /\ readyState[connections[c]] # "NEW"
  /\ OpenIsRegistered

\* The rows of a socket's loop belong to its client and were not sent on it.
BacklogIsDue ==
  \A s \in Sockets : \A m \in backlog[s] :
    /\ to[m] = owner[s]
    /\ \A i \in DOMAIN sent[s] : sent[s][i].msg # m

Delivery == SentToRecipient /\ AtMostOncePerSocket /\ BacklogIsDue

\* What is left of a backlog is not older than what was sent of it, and not
\* younger than what was posted since.
BacklogIsBetween ==
  \A s \in Sockets : \A m \in backlog[s] : \A i \in DOMAIN sent[s] :
    IF sent[s][i].task = "pending"
      THEN createdAt[sent[s][i].msg] <= createdAt[m]
      ELSE createdAt[m] <= createdAt[sent[s][i].msg]

Ordering ==
  /\ \A m \in Msgs : createdAt[m] <= clock
  /\ OnlyBacklogIsOvertaken
  /\ BacklogIsBetween

\* Marks and answers follow the sends.
Marking ==
  /\ delivered \subseteq Handed
  /\ ReplyImpliesMarked

IInv == Bookkeeping /\ Delivery /\ Ordering /\ Marking
=============================================================================
