------------------------------- MODULE Agent -------------------------------
(***************************************************************************)
(* The operator agent, src/apps/sysmaint-agent: listenLoop keeps one       *)
(* WebSocket to the relay open until a signal, and every frame starts a    *)
(* handleMessage of its own, which stores a telemetry report or answers a  *)
(* chat prompt with an LLM.  Handlers interleave at their awaits, and a    *)
(* handler that fails only logs its error.                                 *)
(*                                                                         *)
(* The relay is external here: it holds the messages for the agent, offers *)
(* them to the open connection, and again to the next one if it could not  *)
(* mark them.  A message is opened once (Session), so a second copy ends   *)
(* in an error.  The LLM is external: it asks for tools or answers.        *)
(***************************************************************************)
EXTENDS Integers, FiniteSets, Sequences, SequencesExt

CONSTANTS
  Prompts, Reports,  \* messages sent to the agent
  NoSocket,          \* activeWs is null
  Metadata,          \* Metadata[p]: the counts in the last response to a prompt
  MaxRounds,         \* rounds of tool calls, 5 in the code
  MaxTroubles        \* bound: connections that break, messages offered although
                     \* they were written, calls that fail, ends of the process

ASSUME AgentAssumption ==
  /\ Prompts \cap Reports = {}
  /\ MaxRounds \in Nat /\ MaxTroubles \in Nat
  /\ NoSocket \notin Nat
  /\ Metadata \in [Prompts -> [input : Seq(Int), output : Seq(Int), total : Seq(Int)]]

Msgs == Prompts \cup Reports
Sockets == 1..(MaxTroubles + 1)

VARIABLES
  loop,        \* where main and listenLoop are
  shouldStop,  \* a signal was handled
  activeWs,    \* the socket that a signal closes
  sock,        \* sock[s]: the state of the s-th socket
  queued,      \* messages that the relay holds for the agent
  wire,        \* messages written to the socket in use and not received
  stage,       \* stage[m]: how far the handler of m is
  rounds,      \* rounds[m]: rounds of tool calls so far
  chatLogs,    \* chat_messages and tool_calls: <<m, kind>> in order of insertion
  snapshots,   \* snapshots: reports in order of insertion
  usage,       \* usage[p]: the columns of the row of its reply, 0 before
  replies,     \* prompts whose reply the relay has accepted
  troubles     \* how much of the bound is used

vars == <<loop, shouldStop, activeWs, sock, queued, wire, stage, rounds,
          chatLogs, snapshots, usage, replies, troubles>>
loopVars == <<loop, shouldStop, activeWs, sock>>
storeVars == <<chatLogs, snapshots, usage, replies>>

Busy == {"decrypting", "thinking", "tools", "answered", "replying"}

TypeOK ==
  /\ loop \in {"boot", "waiting", "pausing", "ended", "exited"}
  /\ shouldStop \in BOOLEAN
  /\ activeWs \in Sockets \cup {NoSocket}
  /\ sock \in [Sockets -> {"none", "connecting", "open", "closing", "broken", "closed"}]
  /\ queued \subseteq Msgs /\ wire \subseteq Msgs
  /\ stage \in [Msgs -> Busy \cup {"none", "done", "failed", "lost"}]
  /\ rounds \in [Prompts -> 0..MaxRounds]
  /\ chatLogs \in Seq(Prompts \X {"in", "tool", "out"})
  /\ snapshots \in Seq(Reports)
  /\ usage \in [Prompts -> [inputTokens : Nat, outputTokens : Nat, totalTokens : Nat]]
  /\ replies \subseteq Prompts
  /\ troubles \in 0..MaxTroubles

NoUsage == [inputTokens |-> 0, outputTokens |-> 0, totalTokens |-> 0]

Init ==
  /\ loop = "boot"
  /\ shouldStop = FALSE
  /\ activeWs = NoSocket
  /\ sock = [s \in Sockets |-> "none"]
  /\ queued = Msgs
  /\ wire = {}
  /\ stage = [m \in Msgs |-> "none"]
  /\ rounds = [p \in Prompts |-> 0]
  /\ chatLogs = <<>>
  /\ snapshots = <<>>
  /\ usage = [p \in Prompts |-> NoUsage]
  /\ replies = {}
  /\ troubles = 0

Trouble == troubles < MaxTroubles /\ troubles' = troubles + 1

-----------------------------------------------------------------------------
(* main and listenLoop.                                                    *)

\* The sockets are created in order; the last one belongs to this round.
LastSocket == Cardinality({s \in Sockets : sock[s] # "none"})

\* The condition of the loop, and the socket of its next round.
NextRound ==
  IF shouldStop
  THEN loop' = "ended" /\ UNCHANGED <<activeWs, sock>>
  ELSE LET s == LastSocket + 1 IN
       /\ s \in Sockets
       /\ loop' = "waiting"
       /\ activeWs' = s
       /\ sock' = [sock EXCEPT ![s] = "connecting"]

Bootstrapped ==
  /\ loop = "boot"
  /\ NextRound
  /\ UNCHANGED <<shouldStop, queued, wire, stage, rounds, storeVars, troubles>>

\* ensureIdentityBootstrapped throws: exit code 1.
BootstrapFails ==
  /\ loop = "boot"
  /\ Trouble
  /\ loop' = "exited"
  /\ UNCHANGED <<shouldStop, activeWs, sock, queued, wire, stage, rounds, storeVars>>

\* The relay accepts the connection.
Opened(s) ==
  /\ sock[s] = "connecting"
  /\ sock' = [sock EXCEPT ![s] = "open"]
  /\ UNCHANGED <<loop, shouldStop, activeWs, queued, wire, stage, rounds, storeVars, troubles>>

\* Mutant of OnError: the handler of the error event resolves the promise too.
ResolveOnError(s) == loop' = IF loop = "waiting" THEN "pausing" ELSE loop

\* The handler of the error event only logs.
OnError(s) == UNCHANGED loop

\* The connection fails or breaks: the error event; the close event follows.
Breaks(s) ==
  /\ sock[s] \in {"connecting", "open"}
  /\ Trouble
  /\ sock' = [sock EXCEPT ![s] = "broken"]
  /\ OnError(s)
  /\ wire' = {}
  /\ UNCHANGED <<shouldStop, activeWs, queued, stage, rounds, storeVars>>

\* The close event: the promise of the round resolves.
OnClose(s) ==
  /\ sock[s] \in {"closing", "broken"}
  /\ sock' = [sock EXCEPT ![s] = "closed"]
  /\ activeWs' = NoSocket
  /\ loop' = CASE loop # "waiting" \/ s # LastSocket -> loop
               [] shouldStop -> "ended"
               [] OTHER -> "pausing"
  /\ wire' = {}
  /\ UNCHANGED <<shouldStop, queued, stage, rounds, storeVars, troubles>>

\* The pause of one second is over.
PauseOver ==
  /\ loop = "pausing"
  /\ NextRound
  /\ UNCHANGED <<shouldStop, queued, wire, stage, rounds, storeVars, troubles>>

\* Mutant of CloseActive: only an open socket is closed.
CloseActiveIfOpen ==
  sock' = [s \in Sockets |->
             IF s = activeWs /\ sock[s] = "open" THEN "closing" ELSE sock[s]]

\* activeWs?.close: a connection that is being opened is aborted, which is an
\* error event and a close event.
CloseActive ==
  sock' = [s \in Sockets |->
             CASE s = activeWs /\ sock[s] = "open" -> "closing"
               [] s = activeWs /\ sock[s] = "connecting" -> "broken"
               [] OTHER -> sock[s]]

\* SIGINT or SIGTERM.
Signal ==
  /\ loop \notin {"ended", "exited"}
  /\ ~shouldStop
  /\ shouldStop' = TRUE
  /\ CloseActive
  /\ UNCHANGED <<loop, activeWs, queued, wire, stage, rounds, storeVars, troubles>>

\* The process ends and is started again.  Handlers are gone.
Crash ==
  /\ loop # "exited"
  /\ Trouble
  /\ loop' = "boot"
  /\ shouldStop' = FALSE
  /\ activeWs' = NoSocket
  /\ sock' = [s \in Sockets |-> IF sock[s] = "none" THEN "none" ELSE "closed"]
  /\ wire' = {}
  /\ stage' = [m \in Msgs |-> IF stage[m] \in Busy THEN "lost" ELSE stage[m]]
  /\ UNCHANGED <<queued, rounds, storeVars>>

-----------------------------------------------------------------------------
(* Frames and handlers.                                                    *)

\* The relay writes a message to the open connection, and marks it or not.
Offer(m) ==
  /\ m \in queued
  /\ \E s \in Sockets : sock[s] = "open"
  /\ wire' = wire \cup {m}
  /\ \/ queued' = queued \ {m} /\ UNCHANGED troubles
     \/ Trouble /\ UNCHANGED queued
  /\ UNCHANGED <<loopVars, stage, rounds, storeVars>>

\* A frame arrives, also after close was called: a handler starts.  That of a
\* second copy fails to decrypt, and changes nothing.
OnMessage(m) ==
  /\ m \in wire
  /\ wire' = wire \ {m}
  /\ stage' = [stage EXCEPT ![m] = IF @ = "none" THEN "decrypting" ELSE @]
  /\ UNCHANGED <<loopVars, queued, rounds, storeVars, troubles>>

Log(p, kind) == chatLogs' = Append(chatLogs, <<p, kind>>)

RecordTelemetry(m) == snapshots' = Append(snapshots, m)

\* The message is decrypted and decoded.
Decrypted(m) ==
  /\ stage[m] = "decrypting"
  /\ \/ /\ m \in Reports
        /\ RecordTelemetry(m)
        /\ stage' = [stage EXCEPT ![m] = "done"]
        /\ UNCHANGED chatLogs
     \/ /\ m \in Prompts
        /\ Log(m, "in")
        /\ stage' = [stage EXCEPT ![m] = "thinking"]
        /\ UNCHANGED snapshots
  /\ UNCHANGED <<loopVars, queued, wire, rounds, usage, replies, troubles>>

\* The response of the LLM asks for tools.
AskForTools(p) ==
  /\ stage[p] = "thinking"
  /\ rounds[p] < MaxRounds
  /\ stage' = [stage EXCEPT ![p] = "tools"]
  /\ UNCHANGED <<loopVars, queued, wire, rounds, storeVars, troubles>>

\* A tool reads the snapshots and records its call; the LLM is invoked with
\* its result.  One call per round stands for any number.
CallTool(p) == Log(p, "tool")

RunTools(p) ==
  /\ stage[p] = "tools"
  /\ CallTool(p)
  /\ stage' = [stage EXCEPT ![p] = "thinking"]
  /\ rounds' = [rounds EXCEPT ![p] = @ + 1]
  /\ UNCHANGED <<loopVars, queued, wire, snapshots, usage, replies, troubles>>

\* toSafeNonNegativeNumber, pickFirstNumber: the counts are looked for in several
\* places.  A negative number stands for every value that is not one.
ToSafeNonNegativeNumber(value) == IF value < 0 THEN 0 ELSE value

PickFirstNumber(values) ==
  LET first == {i \in DOMAIN values : values[i] >= 0 /\ \A j \in 1..(i - 1) : values[j] < 0}
  IN IF first = {} THEN 0 ELSE values[CHOOSE i \in first : TRUE]

\* The usage is that of the last response, whatever the earlier ones have used.
ExtractUsageStats(message) ==
  LET input == PickFirstNumber(message.input)
      output == PickFirstNumber(message.output)
      total == PickFirstNumber(Append(message.total, input + output))
  IN [inputTokens |-> ToSafeNonNegativeNumber(input),
      outputTokens |-> ToSafeNonNegativeNumber(output),
      totalTokens |-> ToSafeNonNegativeNumber(IF total = 0 THEN input + output ELSE total)]

LastUsage == [p \in Prompts |-> ExtractUsageStats(Metadata[p])]

\* Mutant of Answer: the reply is logged when it has been posted.
AnswerUnlogged(p) ==
  /\ stage[p] = "thinking"
  /\ stage' = [stage EXCEPT ![p] = "answered"]
  /\ UNCHANGED <<loopVars, queued, wire, rounds, storeVars, troubles>>

\* Mutant of Answer: after the last round only another call of tools is awaited.
AnswerBeforeLimit(p) ==
  /\ stage[p] = "thinking"
  /\ rounds[p] < MaxRounds
  /\ Log(p, "out")
  /\ usage' = [usage EXCEPT ![p] = LastUsage[p]]
  /\ stage' = [stage EXCEPT ![p] = "answered"]
  /\ UNCHANGED <<loopVars, queued, wire, rounds, snapshots, replies, troubles>>

\* The last response: its text, or a default text, is the reply.
Answer(p) ==
  /\ stage[p] = "thinking"
  /\ Log(p, "out")
  /\ usage' = [usage EXCEPT ![p] = LastUsage[p]]
  /\ stage' = [stage EXCEPT ![p] = "answered"]
  /\ UNCHANGED <<loopVars, queued, wire, rounds, snapshots, replies, troubles>>

\* ensureSessionWith: there is a session with the peer, or there is one now.
HasSession(p) ==
  /\ stage[p] = "answered"
  /\ stage' = [stage EXCEPT ![p] = "replying"]
  /\ UNCHANGED <<loopVars, queued, wire, rounds, storeVars, troubles>>

\* encryptMessage and the POST succeed.
PostReply(p) ==
  /\ stage[p] = "replying"
  /\ replies' = replies \cup {p}
  /\ stage' = [stage EXCEPT ![p] = "done"]
  /\ UNCHANGED <<loopVars, queued, wire, rounds, chatLogs, snapshots, usage, troubles>>

\* A call throws, or the relay's response to the POST is lost.
HandlerFails(m) ==
  /\ stage[m] \in Busy
  /\ Trouble
  /\ stage' = [stage EXCEPT ![m] = "failed"]
  /\ replies' \in {replies, replies \cup {p \in {m} : stage[p] = "replying"}}
  /\ UNCHANGED <<loopVars, queued, wire, rounds, chatLogs, snapshots, usage>>

Next ==
  \/ Bootstrapped \/ BootstrapFails \/ PauseOver \/ Signal \/ Crash
  \/ \E s \in Sockets : Opened(s) \/ Breaks(s) \/ OnClose(s)
  \/ \E m \in Msgs : Offer(m) \/ OnMessage(m) \/ Decrypted(m) \/ HandlerFails(m)
  \/ \E p \in Prompts : AskForTools(p) \/ RunTools(p) \/ Answer(p)
                        \/ HasSession(p) \/ PostReply(p)

Spec == Init /\ [][Next]_vars

\* A handler is at one call at a time.
HandlerGoesOn(m) ==
  \/ Decrypted(m)
  \/ m \in Prompts /\ (AskForTools(m) \/ RunTools(m) \/ Answer(m) \/ HasSession(m) \/ PostReply(m))

\* Bootstraps, timers, closing handshakes and the calls of a handler end.  The
\* LLM responds, as it likes.  Nothing makes the relay accept a connection.
Fairness ==
  /\ WF_vars(Bootstrapped) /\ WF_vars(PauseOver)
  /\ WF_vars(\E s \in Sockets : OnClose(s))
  /\ \A m \in Msgs : WF_vars(HandlerGoesOn(m))

FairSpec == Spec /\ Fairness

-----------------------------------------------------------------------------
(* Properties.                                                             *)

\* A connection that is open, or being opened, is the one that a signal
\* closes: events of an earlier socket never detach it, and there are never two.
SignalReachesSocket ==
  \A s \in Sockets : sock[s] \in {"connecting", "open"} => activeWs = s /\ s = LastSocket

Entries(p, kind) == {i \in DOMAIN chatLogs : chatLogs[i] = <<p, kind>>}

\* The chat log agrees with the handlers, whatever their interleaving and
\* however often the relay offers a message: a prompt is logged once, its reply
\* at most once and later, the calls of tools between them, and a reply that the
\* relay has is in the log, with a total of tokens unless it has used none.  A
\* prompt without a reply is being answered, or its handler failed or was lost.
LogMatchesReplies ==
  \A p \in Prompts :
    LET in == Entries(p, "in")
        out == Entries(p, "out")
    IN /\ Cardinality(in) <= 1 /\ Cardinality(out) <= 1
       /\ \A i \in Entries(p, "tool") \cup out : \E j \in in : j < i
       /\ \A i \in Entries(p, "tool"), o \in out : i < o
       /\ p \in replies => out # {}
       /\ usage[p].totalTokens = 0 => usage[p].inputTokens + usage[p].outputTokens = 0
       /\ in # {} /\ out = {} => stage[p] \in {"thinking", "tools", "failed", "lost"}

\* After a signal the loop ends, whether it comes during the bootstrap, while a
\* connection is being opened, used or closed, or in the pause between two.
LoopEnds == shouldStop ~> (loop \in {"ended", "exited"} \/ ~shouldStop)

\* Every handler ends, even if the LLM asks for tools in every round.
HandlersEnd == \A m \in Msgs : stage[m] \in Busy ~> stage[m] \notin Busy
=============================================================================
