-------------------------------- MODULE Chat --------------------------------
(***************************************************************************)
(* The web application as the client of one relay identity, alice:         *)
(* sendPromptToSysmaint sends a prompt to the agent and waits for its reply*)
(* (lib/signal.ts), pullDirectMessages collects what arrives in a window   *)
(* (lib/e2ee-chat.ts), and both read the same mailbox, each over a         *)
(* WebSocket of its own.  Pages submit prompts; callers of the API pull.   *)
(*                                                                         *)
(* The relay is what its clients see of RelayServer: a durable mailbox, one*)
(* connection per identity, a new one supersedes the old, a connection     *)
(* carries a message at most once, and a row that is not marked is offered *)
(* to the next connection.                                                 *)
(* The agent is external: it answers a prompt at most once, or never.      *)
(* An action is what the code does between two awaits.                     *)
(***************************************************************************)
EXTENDS Naturals, FiniteSets, Sequences, SequencesExt

CONSTANTS
  Prompts,    \* prompts submitted by pages; also the names of their replies
  Pulls,      \* calls of pullDirectMessages for alice
  Directs,    \* direct messages sent to alice
  NoReader,   \* no socket in the relay's map
  MaxErrors   \* bound: HTTP calls, connections and delivered marks that fail

Readers == Prompts \cup Pulls     \* each opens one socket
Msgs == Prompts \cup Directs

ASSUME ChatAssumption ==
  /\ NoReader \notin Readers
  /\ Prompts \cap Pulls = {} /\ Prompts \cap Directs = {}
  /\ MaxErrors \in Nat

VARIABLES
  accepted,  \* messages for alice that the relay has stored
  delivered, \* those whose rows are marked delivered
  conn,      \* the reader whose socket the relay serves
  link,      \* link[r]: the socket of the reader r
  wire,      \* wire[r]: messages written to that socket, not yet received
  unmarked,  \* those that the socket of conn carried and that are not marked
  stage,     \* stage[r]: how far the call r is
  prompted,  \* prompts that the relay holds for the agent
  queue,     \* chatPromptQueue: prompts that wait for their turn, or have it
  reading,   \* reading[r]: messages whose decryption r has begun
  pending,   \* pending[r]: those that a pull waits for after its window
  received,  \* received[r]: messages that r has opened and keeps
  opened,    \* messages that a reader has opened
  late,      \* <<r, m>>: m reached r after its window or its wait
  errors     \* how much of the bound is used

relayVars == <<accepted, delivered, conn, unmarked>>
socketVars == <<link, wire>>
readVars == <<reading, pending, received, opened, late>>
vars == <<accepted, delivered, conn, unmarked, link, wire, stage, prompted, queue,
          reading, pending, received, opened, late, errors>>

TypeOK ==
  /\ accepted \subseteq Msgs
  /\ delivered \subseteq accepted /\ unmarked \subseteq accepted
  /\ conn \in Readers \cup {NoReader}
  /\ link \in [Readers -> {"none", "connecting", "open", "closing", "closed"}]
  /\ \A f \in {wire, reading, pending, received} : f \in [Readers -> SUBSET Msgs]
  /\ stage \in [Readers -> {"idle", "queued", "reading", "finishing",
                            "aborting", "answered", "failed"}]
  /\ prompted \subseteq Prompts
  /\ queue \in Seq(Prompts)
  /\ opened \subseteq Msgs
  /\ late \subseteq Readers \X Msgs
  /\ errors \in 0..MaxErrors

Init ==
  /\ accepted = {}
  /\ delivered = {}
  /\ conn = NoReader
  /\ link = [r \in Readers |-> "none"]
  /\ wire = [r \in Readers |-> {}]
  /\ unmarked = {}
  /\ stage = [r \in Readers |-> "idle"]
  /\ prompted = {}
  /\ queue = <<>>
  /\ reading = [r \in Readers |-> {}]
  /\ pending = [r \in Readers |-> {}]
  /\ received = [r \in Readers |-> {}]
  /\ opened = {}
  /\ late = {}
  /\ errors = 0

-----------------------------------------------------------------------------
(* The relay and the network.                                              *)

\* The message m is written to the socket that the relay serves.  Its row is
\* marked delivered by the callback of the send, unless that fails or comes
\* after the next connection has read the backlog.
Write(m) ==
  /\ wire' = [wire EXCEPT ![conn] = @ \cup {m}]
  /\ \/ /\ delivered' = delivered \cup {m}
        /\ UNCHANGED <<unmarked, errors>>
     \/ /\ errors < MaxErrors
        /\ errors' = errors + 1
        /\ unmarked' = unmarked \cup {m}
        /\ UNCHANGED delivered

\* A message for alice is stored, and written to her socket if she has one.
Deliver(m) ==
  /\ m \notin accepted
  /\ accepted' = accepted \cup {m}
  /\ IF conn # NoReader THEN Write(m)
     ELSE UNCHANGED <<wire, unmarked, delivered, errors>>
  /\ UNCHANGED <<conn, link, stage, prompted, queue, readVars>>

\* The backlog: a row that is not marked is written to the current socket,
\* unless it was written to it before.
Offer(m) ==
  /\ conn # NoReader
  /\ m \in accepted \ (delivered \cup unmarked)
  /\ Write(m)
  /\ UNCHANGED <<accepted, conn, link, stage, prompted, queue, readVars>>

\* The relay accepts the upgrade of r and closes the socket it supersedes.
Upgrade(r) ==
  /\ link[r] = "connecting"
  /\ conn' = r
  /\ unmarked' = {}
  /\ link' = [x \in Readers |->
                CASE x = r -> "open"
                  [] x = conn /\ link[x] = "open" -> "closing"
                  [] OTHER -> link[x]]
  /\ UNCHANGED <<accepted, delivered, wire, stage, prompted, queue,
                 readVars, errors>>

-----------------------------------------------------------------------------
(* Ending a call.                                                          *)

\* Mutant of Continued: the queue goes on after a task that succeeded only.
ContinuedIfAnswered(p, result) == IF result = "answered" THEN Tail(queue) ELSE queue

\* runChatPromptSerial: the next task follows, whatever became of this one.
Continued(p, result) == Tail(queue)

\* ws.close: frames are received until the closing handshake is over.  A
\* connection that is not open yet is abandoned; the relay never sees it.
CloseSocket(r) ==
  link' = [link EXCEPT ![r] = IF @ \in {"open", "closing"} THEN "closing" ELSE "closed"]

\* done of waitForChatReply: first call only.
SettlePrompt(p, result) ==
  /\ stage[p] = "reading"
  /\ stage' = [stage EXCEPT ![p] = result]
  /\ queue' = Continued(p, result)

\* Mutant of Awaited: done does not wait for the decryptions.
AwaitedNone(q) == {}

Awaited(q) == reading[q]

\* done of pullDirectMessages, after an error or not: it waits for the
\* decryptions it knows of.
SettlePull(q, next) ==
  /\ stage[q] = "reading"
  /\ stage' = [stage EXCEPT ![q] = next]
  /\ pending' = [pending EXCEPT ![q] = Awaited(q)]

\* The promise of done: the socket is closed; what was received is returned,
\* or dropped after an error.
PullReturns(q) ==
  /\ stage[q] \in {"finishing", "aborting"}
  /\ pending[q] = {}
  /\ stage' = [stage EXCEPT ![q] = IF @ = "finishing" THEN "answered" ELSE "failed"]
  /\ CloseSocket(q)
  /\ UNCHANGED <<relayVars, wire, prompted, queue, readVars, errors>>

-----------------------------------------------------------------------------
(* sendPromptToSysmaint.                                                   *)

\* Mutant of MayRun: tasks do not wait for each other.
MayRunAtOnce(p) == stage[p] = "queued"

MayRun(p) == stage[p] = "queued" /\ Head(queue) = p

NextPrompt == CHOOSE p \in Prompts : stage[p] = "idle"

\* A page submits a prompt: the task joins the queue.
Submit(p) ==
  /\ stage[p] = "idle"
  /\ p = NextPrompt
  /\ stage' = [stage EXCEPT ![p] = "queued"]
  /\ queue' = Append(queue, p)
  /\ UNCHANGED <<relayVars, socketVars, prompted, readVars, errors>>

\* The task has its turn: alice is bootstrapped, the prompt is encrypted and
\* accepted by the relay, and waitForChatReply opens its socket.
Post(p) ==
  /\ MayRun(p)
  /\ stage' = [stage EXCEPT ![p] = "reading"]
  /\ prompted' = prompted \cup {p}
  /\ link' = [link EXCEPT ![p] = "connecting"]
  /\ UNCHANGED <<relayVars, wire, queue, readVars, errors>>

\* A call on that way fails, maybe only the response to the POST.
TaskFails(p) ==
  /\ MayRun(p)
  /\ errors < MaxErrors
  /\ errors' = errors + 1
  /\ stage' = [stage EXCEPT ![p] = "failed"]
  /\ prompted' \in {prompted, prompted \cup {p}}
  /\ queue' = Continued(p, "failed")
  /\ UNCHANGED <<relayVars, socketVars, readVars>>

\* A pull has bootstrapped alice and opens its socket.
StartPull(q) ==
  /\ stage[q] = "idle"
  /\ stage' = [stage EXCEPT ![q] = "reading"]
  /\ link' = [link EXCEPT ![q] = "connecting"]
  /\ UNCHANGED <<relayVars, wire, prompted, queue, readVars, errors>>

\* The agent (external) answers a prompt that it has read.
AgentReplies(p) == p \in prompted /\ Deliver(p)

\* A peer (external) sends a direct message.
PeerSends(d) == Deliver(d)

-----------------------------------------------------------------------------
(* The handlers of a reader's socket.                                      *)

\* ws.on("message"): the decryption begins, even after done.
OnMessage(r, m) ==
  /\ m \in wire[r]
  /\ link[r] \in {"open", "closing"}
  /\ wire' = [wire EXCEPT ![r] = @ \ {m}]
  /\ reading' = [reading EXCEPT ![r] = @ \cup {m}]
  /\ late' = IF stage[r] = "reading" THEN late ELSE late \cup {<<r, m>>}
  /\ UNCHANGED <<relayVars, link, stage, prompted, queue, pending, received, opened, errors>>

\* Mutant of IsReplyTo: any chat.reply will do.
IsAnyReply(p, m) == m \in Prompts

IsReplyTo(p, m) == m = p

\* What a handler keeps: the reply it waits for, or any direct message until
\* the result of the pull is made.
Wanted(r, m) ==
  IF r \in Prompts THEN IsReplyTo(r, m) /\ stage[r] = "reading"
  ELSE m \in Directs /\ stage[r] \in {"reading", "finishing", "aborting"}

\* The decryption of m at r ends.  libsignal opens a message once; the second
\* time, and for a frame that the handler has no use for, nothing happens.
Decrypted(r, m) ==
  /\ m \in reading[r]
  /\ reading' = [reading EXCEPT ![r] = @ \ {m}]
  /\ pending' = [pending EXCEPT ![r] = @ \ {m}]
  /\ late' = late \ {<<r, m>>}
  /\ opened' = opened \cup {m}
  /\ IF m \notin opened /\ Wanted(r, m)
     THEN /\ received' = [received EXCEPT ![r] = @ \cup {m}]
          /\ IF r \in Prompts THEN SettlePrompt(r, "answered") /\ CloseSocket(r)
                             ELSE UNCHANGED <<stage, queue, link>>
     ELSE UNCHANGED <<received, stage, queue, link>>
  /\ UNCHANGED <<relayVars, wire, prompted, errors>>

\* The timer of the wait, or the end of the window of the pull.
Timeout(r) ==
  /\ \/ /\ r \in Prompts
        /\ SettlePrompt(r, "failed")
        /\ CloseSocket(r)
        /\ UNCHANGED pending
     \/ /\ r \in Pulls
        /\ SettlePull(r, "finishing")
        /\ UNCHANGED <<queue, link>>
  /\ UNCHANGED <<relayVars, wire, prompted, reading, received, opened, late, errors>>

\* The close event.  The closing handshake delivers the frames that were sent
\* before it; a connection that breaks loses them, and may be an error too.
Closed(r) ==
  /\ \/ link[r] = "closing" /\ wire[r] = {} /\ UNCHANGED errors
     \/ link[r] \in {"connecting", "open"} /\ errors < MaxErrors /\ errors' = errors + 1
  /\ wire' = [wire EXCEPT ![r] = {}]
  /\ link' = [link EXCEPT ![r] = "closed"]
  /\ IF conn = r THEN conn' = NoReader /\ unmarked' = {} ELSE UNCHANGED <<conn, unmarked>>
  /\ \/ stage[r] # "reading" /\ UNCHANGED <<stage, queue, pending>>
     \/ r \in Prompts /\ SettlePrompt(r, "failed") /\ UNCHANGED pending
     \/ /\ r \in Pulls /\ link[r] # "connecting"
        /\ SettlePull(r, "finishing")
        /\ UNCHANGED queue
     \/ /\ r \in Pulls /\ link[r] # "closing"
        /\ SettlePull(r, "aborting")
        /\ UNCHANGED queue
  /\ UNCHANGED <<accepted, delivered, prompted, reading, received, opened, late>>

Next ==
  \/ \E p \in Prompts : \/ Submit(p) \/ Post(p) \/ TaskFails(p) \/ AgentReplies(p)
  \/ \E q \in Pulls : StartPull(q) \/ PullReturns(q)
  \/ \E d \in Directs : PeerSends(d)
  \/ \E m \in Msgs : Offer(m)
  \/ \E r \in Readers : Upgrade(r) \/ Timeout(r) \/ Closed(r)
  \/ \E r \in Readers, m \in Msgs : OnMessage(r, m) \/ Decrypted(r, m)

Spec == Init /\ [][Next]_vars

\* HTTP calls and decryptions end, and timers fire.  Nothing makes the agent
\* answer, the relay accept a connection or a message arrive.
Fairness ==
  /\ WF_vars(\E p \in Prompts : Post(p))
  /\ WF_vars(\E r \in Readers : Timeout(r))
  /\ WF_vars(\E q \in Pulls : PullReturns(q))
  /\ WF_vars(\E r \in Readers, m \in Msgs : Decrypted(r, m))

FairSpec == Spec /\ Fairness

-----------------------------------------------------------------------------
(* Properties.                                                             *)

InProgress(r) == stage[r] \in {"queued", "reading", "finishing", "aborting"}

\* A prompt is answered with its own reply, although replies that come after
\* the timeout of an earlier prompt are read by the wait of a later one.
OwnReply ==
  \A p \in Prompts : received[p] = IF stage[p] = "answered" THEN {p} ELSE {}

\* In this step r opens the message m.
Opens(r, m) == m \in opened' \ opened /\ m \in reading[r] \ reading'[r]

\* A prompt that still waits loses its reply to another reader of the mailbox
\* only if that reader is a pull, or got the reply after its own wait was over
\* and before its socket was closed: two waits never compete.
LostReplyHasCause ==
  [][\A p \in Prompts, r \in Readers :
       Opens(r, p) /\ r # p /\ stage[p] = "reading" => r \in Pulls \/ <<r, p>> \in late]_vars

\* Every direct message that a pull opens is in its result, which is still to
\* be returned (or dropped, after an error), unless the message came after the
\* window of the pull.
PullKeepsWhatItOpens ==
  [][\A q \in Pulls, d \in Directs : Opens(q, d) /\ <<q, d>> \notin late =>
       d \in received'[q] /\ stage[q] \in {"reading", "finishing", "aborting"}]_vars

\* Every prompt is answered or fails, whatever became of those before it in
\* the queue, and every pull returns: the pages are never left busy.
CallsEnd == (\E r \in Readers : InProgress(r)) ~> (\A r \in Readers : ~InProgress(r))
=============================================================================
