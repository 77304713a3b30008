---------------------------- MODULE Agent_proofs ----------------------------
(***************************************************************************)
(* Agent: type correctness, SignalReachesSocket and LogMatchesReplies, for *)
(* any sets of messages and any bounds.                                    *)
(***************************************************************************)
EXTENDS Agent, FiniteSetTheorems, SequenceTheorems, TLAPS

-----------------------------------------------------------------------------
(***************************************************************************)
(* Types.  The counter of rounds stays below its limit because tools are   *)
(* asked for below it only.                                                *)
(***************************************************************************)
ToolsBelowLimit == \A p \in Prompts : stage[p] = "tools" => rounds[p] < MaxRounds

\* Only prompts are answered.
ReportsAreStored ==
  \A m \in Reports : stage[m] \notin {"thinking", "tools", "answered", "replying"}

TInv == TypeOK /\ ToolsBelowLimit /\ ReportsAreStored

\* The first number among the candidates, or 0.
LEMMA PickFirstNumberType ==
  ASSUME NEW values \in Seq(Int)
  PROVE  PickFirstNumber(values) \in Nat
  BY DEF PickFirstNumber

LEMMA UsageType ==
  ASSUME NEW p \in Prompts
  PROVE  /\ LastUsage[p] \in [inputTokens : Nat, outputTokens : Nat, totalTokens : Nat]
         /\ LastUsage[p].totalTokens = 0 => LastUsage[p].inputTokens + LastUsage[p].outputTokens = 0
<1> DEFINE md == Metadata[p]
<1>1. md.input \in Seq(Int) /\ md.output \in Seq(Int) /\ md.total \in Seq(Int)
  BY AgentAssumption
<1> HIDE DEF md
<1>2. PICK input, output \in Nat :
        input = PickFirstNumber(md.input) /\ output = PickFirstNumber(md.output)
  BY <1>1, PickFirstNumberType
<1>3. PICK total \in Nat : total = PickFirstNumber(Append(md.total, input + output))
  <2>1. Append(md.total, input + output) \in Seq(Int)
    BY <1>1, <1>2, AppendProperties
  <2>2. QED
    BY <2>1, PickFirstNumberType
<1>4. LastUsage[p] = [inputTokens |-> input, outputTokens |-> output,
                      totalTokens |-> IF total = 0 THEN input + output ELSE total]
  BY <1>2, <1>3 DEF LastUsage, ExtractUsageStats, ToSafeNonNegativeNumber, md
<1>5. QED
  BY <1>4

LEMMA InitTInv == Init => TInv
<1> SUFFICES ASSUME Init PROVE TInv
  OBVIOUS
<1>1. chatLogs \in Seq(Prompts \X {"in", "tool", "out"}) /\ snapshots \in Seq(Reports)
  BY EmptySeq DEF Init
<1>2. /\ rounds \in [Prompts -> 0..MaxRounds] /\ troubles \in 0..MaxTroubles
      /\ usage \in [Prompts -> [inputTokens : Nat, outputTokens : Nat, totalTokens : Nat]]
  BY AgentAssumption DEF Init, NoUsage
<1>3. /\ loop \in {"boot", "waiting", "pausing", "ended", "exited"}
      /\ shouldStop \in BOOLEAN /\ activeWs \in Sockets \cup {NoSocket}
      /\ queued \subseteq Msgs /\ wire \subseteq Msgs /\ replies \subseteq Prompts
  BY DEF Init
<1>4. /\ sock \in [Sockets -> {"none", "connecting", "open", "closing", "broken", "closed"}]
      /\ stage \in [Msgs -> Busy \cup {"none", "done", "failed", "lost"}]
  BY DEF Init
<1>5. ToolsBelowLimit /\ ReportsAreStored
  BY DEF Init, ToolsBelowLimit, ReportsAreStored, Msgs
<1>6. QED
  BY <1>1, <1>2, <1>3, <1>4, <1>5 DEF TInv, TypeOK

LEMMA NextRoundType ==
  ASSUME TypeOK, NextRound
  PROVE  /\ loop' \in {"waiting", "ended"}
         /\ activeWs' \in Sockets \cup {NoSocket}
         /\ sock' \in [Sockets -> {"none", "connecting", "open", "closing", "broken", "closed"}]
  BY DEF TypeOK, NextRound

LEMMA TroubleType ==
  ASSUME TypeOK, Trouble
  PROVE  troubles' \in 0..MaxTroubles
  BY AgentAssumption DEF TypeOK, Trouble

LEMMA LogType ==
  ASSUME TypeOK, NEW p \in Prompts, NEW kind \in {"in", "tool", "out"}, Log(p, kind)
  PROVE  chatLogs' \in Seq(Prompts \X {"in", "tool", "out"})
  BY AppendProperties DEF TypeOK, Log

LEMMA NextTInv == TInv /\ [Next]_vars => TInv'
<1> SUFFICES ASSUME TInv, [Next]_vars PROVE TInv'
  OBVIOUS
<1> USE DEF TInv
<1>1. CASE Bootstrapped
  BY <1>1, NextRoundType DEF Bootstrapped, TypeOK, ToolsBelowLimit, ReportsAreStored, storeVars
<1>2. CASE BootstrapFails
  BY <1>2, TroubleType DEF BootstrapFails, TypeOK, ToolsBelowLimit, ReportsAreStored, storeVars
<1>3. CASE PauseOver
  BY <1>3, NextRoundType DEF PauseOver, TypeOK, ToolsBelowLimit, ReportsAreStored, storeVars
<1>4. CASE Signal
  BY <1>4 DEF Signal, CloseActive, TypeOK, ToolsBelowLimit, ReportsAreStored, storeVars
<1>5. CASE Crash
  BY <1>5, TroubleType DEF Crash, TypeOK, ToolsBelowLimit, ReportsAreStored, storeVars, Msgs
<1>6. ASSUME NEW s \in Sockets, Opened(s) \/ Breaks(s) \/ OnClose(s) PROVE TInv'
  <2>1. CASE Opened(s)
    BY <2>1 DEF Opened, TypeOK, ToolsBelowLimit, ReportsAreStored, storeVars
  <2>2. CASE Breaks(s)
    BY <2>2, TroubleType DEF Breaks, OnError, TypeOK, ToolsBelowLimit, ReportsAreStored, storeVars
  <2>3. CASE OnClose(s)
    BY <2>3 DEF OnClose, TypeOK, ToolsBelowLimit, ReportsAreStored, storeVars
  <2>4. QED
    BY <1>6, <2>1, <2>2, <2>3
<1>7. ASSUME NEW m \in Msgs, Offer(m) PROVE TInv'
  BY <1>7, TroubleType DEF Offer, TypeOK, ToolsBelowLimit, ReportsAreStored, storeVars, loopVars
<1>8. ASSUME NEW m \in Msgs, OnMessage(m) PROVE TInv'
  BY <1>8 DEF OnMessage, TypeOK, ToolsBelowLimit, ReportsAreStored, storeVars, loopVars, Busy, Msgs
<1>9. ASSUME NEW m \in Msgs, Decrypted(m) PROVE TInv'
  <2>1. stage' \in [Msgs -> Busy \cup {"none", "done", "failed", "lost"}]
    BY <1>9 DEF Decrypted, TypeOK, Busy
  <2>2. chatLogs' \in Seq(Prompts \X {"in", "tool", "out"}) /\ snapshots' \in Seq(Reports)
    <3>1. CASE m \in Reports /\ RecordTelemetry(m) /\ UNCHANGED chatLogs
      BY <3>1, AppendProperties DEF RecordTelemetry, TypeOK
    <3>2. CASE m \in Prompts /\ Log(m, "in") /\ UNCHANGED snapshots
      BY <3>2, LogType DEF TypeOK
    <3>3. QED
      BY <1>9, <3>1, <3>2 DEF Decrypted
  <2>3. QED
    BY <1>9, <2>1, <2>2, AgentAssumption DEF Decrypted, TypeOK, ToolsBelowLimit, ReportsAreStored, loopVars, Msgs
<1>10. ASSUME NEW m \in Msgs, HandlerFails(m) PROVE TInv'
  <2>1. replies' \subseteq Prompts
    BY <1>10 DEF HandlerFails, TypeOK, Msgs, ReportsAreStored
  <2>2. QED
    BY <1>10, <2>1, TroubleType
    DEF HandlerFails, TypeOK, ToolsBelowLimit, ReportsAreStored, loopVars, Msgs
<1>11. ASSUME NEW p \in Prompts, AskForTools(p) PROVE TInv'
  BY <1>11, AgentAssumption
  DEF AskForTools, TypeOK, ToolsBelowLimit, ReportsAreStored, loopVars, storeVars, Msgs, Busy
<1>12. ASSUME NEW p \in Prompts, RunTools(p) PROVE TInv'
  <2>1. chatLogs' \in Seq(Prompts \X {"in", "tool", "out"})
    BY <1>12, LogType DEF RunTools, CallTool
  <2>2. rounds' \in [Prompts -> 0..MaxRounds]
    BY <1>12, AgentAssumption DEF RunTools, TypeOK, ToolsBelowLimit
  <2>3. QED
    BY <1>12, <2>1, <2>2, AgentAssumption
    DEF RunTools, TypeOK, ToolsBelowLimit, ReportsAreStored, loopVars, Msgs, Busy
<1>13. ASSUME NEW p \in Prompts, Answer(p) PROVE TInv'
  BY <1>13, LogType, UsageType, AgentAssumption DEF Answer, TypeOK, ToolsBelowLimit, ReportsAreStored, loopVars, Msgs, Busy
<1>14. ASSUME NEW p \in Prompts, HasSession(p) PROVE TInv'
  BY <1>14, AgentAssumption DEF HasSession, TypeOK, ToolsBelowLimit, ReportsAreStored, loopVars, storeVars, Msgs, Busy
<1>15. ASSUME NEW p \in Prompts, PostReply(p) PROVE TInv'
  BY <1>15, AgentAssumption DEF PostReply, TypeOK, ToolsBelowLimit, ReportsAreStored, loopVars, Msgs, Busy
<1>16. CASE UNCHANGED vars
  BY <1>16 DEF vars, TypeOK, ToolsBelowLimit, ReportsAreStored
<1>17. QED
  BY <1>1, <1>2, <1>3, <1>4, <1>5, <1>6, <1>7, <1>8, <1>9, <1>10, <1>11, <1>12,
     <1>13, <1>14, <1>15, <1>16 DEF Next

\* The variables of Agent keep their types: sockets within the bound, stages,
\* rounds within the limit of the code, logs of prompts and of reports.
THEOREM TypeCorrect == Spec => []TypeOK
<1>1. Spec => []TInv
  BY InitTInv, NextTInv, PTL DEF Spec
<1>2. QED
  BY <1>1, PTL DEF TInv

-----------------------------------------------------------------------------
(***************************************************************************)
(* Sockets.  They are used in order, and only the last one can be alive,   *)
(* while the loop waits for its close event.                               *)
(***************************************************************************)
Used == {s \in Sockets : sock[s] # "none"}

Alive == {"connecting", "open", "closing", "broken"}

OneSocket ==
  /\ \E n \in 0..(MaxTroubles + 1) : Used = 1..n
  /\ \A s \in Sockets : sock[s] \in Alive => s = LastSocket /\ loop = "waiting"
  /\ \A s \in Sockets : sock[s] \in {"connecting", "open"} => activeWs = s

LEMMA LastOfUsed ==
  ASSUME NEW n \in 0..(MaxTroubles + 1), Used = 1..n
  PROVE  LastSocket = n
<1>1. n \in Nat /\ 1 \in Int /\ n \in Int
  BY AgentAssumption
<1>2. Cardinality(1..n) = n
  BY <1>1, FS_Interval
<1>3. QED
  BY <1>2 DEF Used, LastSocket

\* A step that leaves the unused sockets unused keeps LastSocket.
LEMMA SameUsed ==
  ASSUME \A s \in Sockets : sock'[s] = "none" <=> sock[s] = "none"
  PROVE  Used' = Used /\ LastSocket' = LastSocket
<1>1. Used' = Used
  BY DEF Used
<1>2. QED
  BY <1>1 DEF Used, LastSocket

LEMMA NextRoundOneSocket ==
  ASSUME TypeOK, OneSocket, loop # "waiting", NextRound
  PROVE  OneSocket'
<1>1. PICK n \in 0..(MaxTroubles + 1) : Used = 1..n
  BY DEF OneSocket
<1>2. LastSocket = n
  BY <1>1, LastOfUsed
<1>3. \A s \in Sockets : sock[s] \notin Alive
  BY DEF OneSocket
<1>4. CASE shouldStop
  <2>1. UNCHANGED sock
    BY <1>4 DEF NextRound
  <2>2. Used' = Used /\ LastSocket' = LastSocket
    BY <2>1, SameUsed
  <2>3. QED
    BY <1>3, <2>1, <2>2 DEF OneSocket, Alive
<1>5. CASE ~shouldStop
  <2>1. /\ n + 1 \in Sockets /\ loop' = "waiting" /\ activeWs' = n + 1
        /\ sock' = [sock EXCEPT ![n + 1] = "connecting"]
    BY <1>2, <1>5 DEF NextRound
  <2>2. \A s \in Sockets : sock'[s] = IF s = n + 1 THEN "connecting" ELSE sock[s]
    BY <2>1 DEF TypeOK
  <2>3. Used' = 1..(n + 1)
    BY <1>1, <2>1, <2>2, AgentAssumption DEF Used, Sockets
  <2>4. n + 1 \in 0..(MaxTroubles + 1)
    BY <2>1, AgentAssumption DEF Sockets
  <2>5. Cardinality(1..(n + 1)) = n + 1
    BY <2>4, FS_Interval, AgentAssumption
  <2>6. LastSocket' = n + 1
    BY <2>3, <2>5 DEF Used, LastSocket
  <2>7. QED
    BY <1>3, <2>1, <2>2, <2>3, <2>4, <2>6 DEF OneSocket, Alive
<1>6. QED
  BY <1>4, <1>5

LEMMA NextOneSocket == TypeOK /\ OneSocket /\ [Next]_vars => OneSocket'
<1> SUFFICES ASSUME TypeOK, OneSocket, [Next]_vars PROVE OneSocket'
  OBVIOUS
<1>1. ASSUME UNCHANGED <<loop, activeWs, sock>> PROVE OneSocket'
  <2>1. Used' = Used /\ LastSocket' = LastSocket
    BY <1>1, SameUsed
  <2>2. QED
    BY <1>1, <2>1 DEF OneSocket
<1>2. CASE Bootstrapped \/ PauseOver
  BY <1>2, NextRoundOneSocket DEF Bootstrapped, PauseOver
<1>3. CASE BootstrapFails
  <2>1. UNCHANGED sock
    BY <1>3 DEF BootstrapFails
  <2>2. Used' = Used /\ LastSocket' = LastSocket
    BY <2>1, SameUsed
  <2>3. QED
    BY <1>3, <2>1, <2>2 DEF BootstrapFails, OneSocket, Alive
<1>4. CASE Signal
  <2>1. \A s \in Sockets : sock'[s] = CASE s = activeWs /\ sock[s] = "open" -> "closing"
                                        [] s = activeWs /\ sock[s] = "connecting" -> "broken"
                                        [] OTHER -> sock[s]
    BY <1>4 DEF Signal, CloseActive
  <2>2. \A s \in Sockets : sock'[s] = "none" <=> sock[s] = "none"
    BY <2>1
  <2>3. \A s \in Sockets : /\ sock'[s] \in Alive => sock[s] \in Alive
                           /\ sock'[s] \notin {"connecting", "open"}
    BY <2>1 DEF OneSocket, Alive
  <2>4. Used' = Used /\ LastSocket' = LastSocket
    BY <2>2, SameUsed
  <2>5. QED
    BY <1>4, <2>3, <2>4 DEF Signal, OneSocket
<1>5. CASE Crash
  <2>1. \A s \in Sockets : sock'[s] = IF sock[s] = "none" THEN "none" ELSE "closed"
    BY <1>5 DEF Crash
  <2>2. Used' = Used /\ LastSocket' = LastSocket
    BY <2>1, SameUsed
  <2>3. QED
    BY <2>1, <2>2 DEF OneSocket, Alive
<1>6. ASSUME NEW s \in Sockets, Opened(s) PROVE OneSocket'
  <2>1. /\ \A u \in Sockets : sock'[u] = IF u = s THEN "open" ELSE sock[u]
        /\ sock[s] = "connecting" /\ UNCHANGED <<loop, activeWs>>
    BY <1>6 DEF Opened, TypeOK
  <2>2. Used' = Used /\ LastSocket' = LastSocket
    BY <2>1, SameUsed
  <2>3. QED
    BY <2>1, <2>2 DEF OneSocket, Alive
<1>7. ASSUME NEW s \in Sockets, Breaks(s) PROVE OneSocket'
  <2>1. /\ \A u \in Sockets : sock'[u] = IF u = s THEN "broken" ELSE sock[u]
        /\ sock[s] \in {"connecting", "open"} /\ UNCHANGED <<loop, activeWs>>
    BY <1>7 DEF Breaks, OnError, TypeOK
  <2>2. Used' = Used /\ LastSocket' = LastSocket
    BY <2>1, SameUsed
  <2>3. QED
    BY <2>1, <2>2 DEF OneSocket, Alive
<1>8. ASSUME NEW s \in Sockets, OnClose(s) PROVE OneSocket'
  <2>1. /\ \A u \in Sockets : sock'[u] = IF u = s THEN "closed" ELSE sock[u]
        /\ sock[s] \in {"closing", "broken"}
    BY <1>8 DEF OnClose, TypeOK
  <2>2. Used' = Used /\ LastSocket' = LastSocket
    BY <2>1, SameUsed
  <2>3. s = LastSocket /\ \A u \in Sockets : sock'[u] \notin Alive
    BY <2>1 DEF OneSocket, Alive
  <2>4. QED
    BY <2>2, <2>3 DEF OneSocket, Alive
<1>9. ASSUME NEW m \in Msgs, Offer(m) \/ OnMessage(m) \/ Decrypted(m) \/ HandlerFails(m)
      PROVE  OneSocket'
  BY <1>1, <1>9 DEF Offer, OnMessage, Decrypted, HandlerFails, loopVars
<1>10. ASSUME NEW p \in Prompts,
              AskForTools(p) \/ RunTools(p) \/ Answer(p) \/ HasSession(p) \/ PostReply(p)
       PROVE  OneSocket'
  BY <1>1, <1>10 DEF AskForTools, RunTools, Answer, HasSession, PostReply, loopVars
<1>11. CASE UNCHANGED vars
  BY <1>1, <1>11 DEF vars
<1>12. QED
  BY <1>2, <1>3, <1>4, <1>5, <1>6, <1>7, <1>8, <1>9, <1>10, <1>11 DEF Next

LEMMA InitOneSocket == Init => OneSocket
<1> SUFFICES ASSUME Init PROVE OneSocket
  OBVIOUS
<1>1. Used = 1..0
  BY DEF Init, Used
<1>2. 0 \in 0..(MaxTroubles + 1)
  BY AgentAssumption
<1>3. QED
  BY <1>1, <1>2 DEF Init, OneSocket, Alive

\* SignalReachesSocket: whatever the order of events of old and new sockets,
\* failures and restarts, the socket in use is the one that a signal closes.
THEOREM SocketReached == Spec => []SignalReachesSocket
<1>1. TypeOK /\ OneSocket => SignalReachesSocket
  BY DEF OneSocket, Alive, SignalReachesSocket
<1>2. Spec => []OneSocket
  <2>1. Spec => []TypeOK
    BY TypeCorrect
  <2>2. TypeOK /\ OneSocket /\ [Next]_vars => OneSocket'
    BY NextOneSocket
  <2>3. QED
    BY <2>1, <2>2, InitOneSocket, PTL DEF Spec
<1>3. QED
  BY <1>1, <1>2, TypeCorrect, PTL

-----------------------------------------------------------------------------
(***************************************************************************)
(* The chat log.  What it says of a prompt follows from the stage of its   *)
(* handler; after a failure it may say anything that one of them allows.   *)
(***************************************************************************)
Kinds == {"in", "tool", "out"}

Logged(p) ==
  LET in == Entries(p, "in")
      tool == Entries(p, "tool")
      out == Entries(p, "out")
  IN /\ \A i, j \in in : i = j
     /\ \A i, j \in out : i = j
     /\ \A i \in tool \cup out : \E j \in in : j < i
     /\ \A i \in tool, o \in out : i < o
     /\ p \in replies => out # {}
     /\ stage[p] \in {"none", "decrypting"} => in = {}
     /\ stage[p] \in {"thinking", "tools"} => in # {} /\ out = {}
     /\ stage[p] \in {"answered", "replying", "done"} => out # {}

LogInv == \A p \in Prompts : Logged(p)

LEMMA SameEntries ==
  ASSUME UNCHANGED chatLogs, NEW p \in Prompts, NEW k \in Kinds
  PROVE  Entries(p, k)' = Entries(p, k)
  BY DEF Entries

LEMMA EntriesAfterLog ==
  ASSUME TypeOK, NEW q \in Prompts, NEW kind \in Kinds, Log(q, kind),
         NEW p \in Prompts, NEW k \in Kinds
  PROVE  /\ Entries(p, k)' = Entries(p, k) \cup
              (IF p = q /\ k = kind THEN {Len(chatLogs) + 1} ELSE {})
         /\ \A i \in Entries(p, k) : i \in Nat /\ i < Len(chatLogs) + 1
<1>1. /\ chatLogs \in Seq(Prompts \X Kinds) /\ <<q, kind>> \in Prompts \X Kinds
      /\ chatLogs' = Append(chatLogs, <<q, kind>>)
  BY DEF TypeOK, Log, Kinds
<1>2. /\ Len(chatLogs) \in Nat /\ DOMAIN chatLogs = 1..Len(chatLogs)
      /\ DOMAIN chatLogs' = 1..(Len(chatLogs) + 1)
      /\ \A i \in 1..Len(chatLogs) : chatLogs'[i] = chatLogs[i]
      /\ chatLogs'[Len(chatLogs) + 1] = <<q, kind>>
  BY <1>1, AppendProperties, LenProperties
<1>3. Entries(p, k)' = {i \in DOMAIN chatLogs' : chatLogs'[i] = <<p, k>>}
  BY DEF Entries
<1>4. QED
  BY <1>2, <1>3 DEF Entries

\* A handler goes on without logging anything.
LEMMA LoggedSame ==
  ASSUME LogInv, NEW p \in Prompts, UNCHANGED chatLogs,
         p \in replies' => p \in replies \/ stage[p] = "replying",
         \/ stage'[p] \in {stage[p], "failed", "lost"}
         \/ stage[p] = "none" /\ stage'[p] = "decrypting"
         \/ stage[p] \in {"thinking", "tools"} /\ stage'[p] \in {"thinking", "tools"}
         \/ stage[p] \in {"answered", "replying"} /\ stage'[p] \in {"replying", "done"}
  PROVE  Logged(p)'
<1>1. \A k \in Kinds : Entries(p, k)' = Entries(p, k)
  BY SameEntries
<1>2. Logged(p)
  BY DEF LogInv
<1>3. QED
  BY <1>1, <1>2 DEF Logged, Kinds

\* The handler of q logs something; that of p does not move.
LEMMA LoggedOther ==
  ASSUME TypeOK, LogInv, NEW q \in Prompts, NEW kind \in Kinds, Log(q, kind),
         NEW p \in Prompts \ {q}, stage'[p] = stage[p], replies' = replies
  PROVE  Logged(p)'
<1>1. ASSUME NEW k \in Kinds PROVE Entries(p, k)' = Entries(p, k)
  <2>1. Entries(p, k)' = Entries(p, k) \cup
          (IF p = q /\ k = kind THEN {Len(chatLogs) + 1} ELSE {})
    BY EntriesAfterLog
  <2>2. QED
    BY <2>1
<1>2. Logged(p)
  BY DEF LogInv
<1>3. QED
  BY <1>1, <1>2 DEF Logged, Kinds

LEMMA NextLogInv == TypeOK /\ LogInv /\ [Next]_vars => LogInv'
<1> SUFFICES ASSUME TypeOK, LogInv, [Next]_vars, NEW p \in Prompts PROVE Logged(p)'
  BY DEF LogInv
<1> USE DEF Kinds
<1>1. CASE UNCHANGED <<stage, chatLogs, replies>>
  BY <1>1, LoggedSame
<1>2. CASE Bootstrapped \/ BootstrapFails \/ PauseOver \/ Signal
  BY <1>1, <1>2 DEF Bootstrapped, BootstrapFails, PauseOver, Signal, storeVars
<1>3. CASE Crash
  <2>1. stage'[p] \in {stage[p], "lost"} /\ UNCHANGED <<chatLogs, replies>>
    BY <1>3 DEF Crash, storeVars, Msgs
  <2>2. QED
    BY <2>1, LoggedSame
<1>4. ASSUME NEW s \in Sockets, Opened(s) \/ Breaks(s) \/ OnClose(s) PROVE Logged(p)'
  BY <1>1, <1>4 DEF Opened, Breaks, OnClose, storeVars
<1>5. ASSUME NEW m \in Msgs, Offer(m) PROVE Logged(p)'
  BY <1>1, <1>5 DEF Offer, storeVars
<1>6. ASSUME NEW m \in Msgs, OnMessage(m) PROVE Logged(p)'
  <2>1. /\ stage'[p] = stage[p] \/ (stage[p] = "none" /\ stage'[p] = "decrypting")
        /\ UNCHANGED <<chatLogs, replies>>
    BY <1>6 DEF OnMessage, storeVars, TypeOK, Msgs
  <2>2. QED
    BY <2>1, LoggedSame
<1>7. ASSUME NEW m \in Msgs, Decrypted(m) PROVE Logged(p)'
  <2>1. CASE m \in Reports /\ UNCHANGED chatLogs /\ stage' = [stage EXCEPT ![m] = "done"]
    <3>1. m # p
      BY <2>1, AgentAssumption
    <3>2. stage'[p] = stage[p] /\ UNCHANGED replies
      BY <1>7, <2>1, <3>1 DEF Decrypted, TypeOK, Msgs
    <3>3. QED
      BY <2>1, <3>2, LoggedSame
  <2>2. CASE m \in Prompts /\ Log(m, "in") /\ stage' = [stage EXCEPT ![m] = "thinking"]
    <3>1. stage[m] = "decrypting" /\ UNCHANGED replies
      BY <1>7 DEF Decrypted
    <3>2. CASE p # m
      BY <2>2, <3>1, <3>2, LoggedOther DEF TypeOK, Msgs
    <3>3. CASE p = m
      <4>1. Logged(p) /\ stage'[p] = "thinking"
        BY <2>2, <3>3 DEF LogInv, TypeOK, Msgs
      <4>2. /\ Entries(p, "in") = {} /\ Entries(p, "out") = {} /\ Entries(p, "tool") = {}
            /\ p \notin replies
        BY <3>1, <3>3, <4>1 DEF Logged
      <4>3. /\ Entries(p, "in")' = {Len(chatLogs) + 1}
            /\ Entries(p, "tool")' = {} /\ Entries(p, "out")' = {}
        BY <2>2, <3>3, <4>2, EntriesAfterLog
      <4>4. QED
        BY <3>1, <4>1, <4>2, <4>3 DEF Logged
    <3>4. QED
      BY <3>2, <3>3
  <2>3. QED
    BY <1>7, <2>1, <2>2 DEF Decrypted
<1>8. ASSUME NEW m \in Msgs, HandlerFails(m) PROVE Logged(p)'
  <2>1. /\ stage'[p] \in {stage[p], "failed"} /\ UNCHANGED chatLogs
        /\ p \in replies' => p \in replies \/ stage[p] = "replying"
    BY <1>8 DEF HandlerFails, TypeOK, Msgs
  <2>2. QED
    BY <2>1, LoggedSame
<1>9. ASSUME NEW q \in Prompts, AskForTools(q) \/ HasSession(q) \/ PostReply(q)
      PROVE  Logged(p)'
  <2>1. CASE p # q
    <3>1. stage'[p] = stage[p] /\ UNCHANGED chatLogs /\ (p \in replies' => p \in replies)
      BY <1>9, <2>1 DEF AskForTools, HasSession, PostReply, TypeOK, Msgs, storeVars
    <3>2. QED
      BY <3>1, LoggedSame
  <2>2. CASE p = q
    <3>1. /\ UNCHANGED chatLogs
          /\ p \in replies' => p \in replies \/ stage[p] = "replying"
          /\ \/ stage[p] = "thinking" /\ stage'[p] = "tools"
             \/ stage[p] \in {"answered", "replying"} /\ stage'[p] \in {"replying", "done"}
      BY <1>9, <2>2 DEF AskForTools, HasSession, PostReply, TypeOK, Msgs, storeVars
    <3>2. QED
      BY <3>1, LoggedSame
  <2>3. QED
    BY <2>1, <2>2
<1>10. ASSUME NEW q \in Prompts, RunTools(q) PROVE Logged(p)'
  <2>1. /\ stage[q] = "tools" /\ Log(q, "tool") /\ UNCHANGED replies
        /\ stage' = [stage EXCEPT ![q] = "thinking"]
    BY <1>10 DEF RunTools, CallTool
  <2>2. CASE p # q
    BY <2>1, <2>2, LoggedOther DEF TypeOK, Msgs
  <2>3. CASE p = q
    <3>1. Logged(p) /\ stage'[p] = "thinking"
      BY <2>1, <2>3 DEF LogInv, TypeOK, Msgs
    <3>2. /\ Entries(p, "in")' = Entries(p, "in") /\ Entries(p, "out")' = Entries(p, "out")
          /\ Entries(p, "tool")' = Entries(p, "tool") \cup {Len(chatLogs) + 1}
          /\ \A i \in Entries(p, "in") : i < Len(chatLogs) + 1
      BY <2>1, <2>3, EntriesAfterLog
    <3>3. Entries(p, "in") # {} /\ Entries(p, "out") = {}
      BY <2>1, <2>3, <3>1 DEF Logged
    <3>4. QED
      BY <2>1, <3>1, <3>2, <3>3 DEF Logged
  <2>4. QED
    BY <2>2, <2>3
<1>11. ASSUME NEW q \in Prompts, Answer(q) PROVE Logged(p)'
  <2>1. /\ stage[q] = "thinking" /\ Log(q, "out") /\ UNCHANGED replies
        /\ stage' = [stage EXCEPT ![q] = "answered"]
    BY <1>11 DEF Answer
  <2>2. CASE p # q
    BY <2>1, <2>2, LoggedOther DEF TypeOK, Msgs
  <2>3. CASE p = q
    <3>1. Logged(p) /\ stage'[p] = "answered"
      BY <2>1, <2>3 DEF LogInv, TypeOK, Msgs
    <3>2. /\ Entries(p, "in")' = Entries(p, "in") /\ Entries(p, "tool")' = Entries(p, "tool")
          /\ Entries(p, "out")' = Entries(p, "out") \cup {Len(chatLogs) + 1}
          /\ \A i \in Entries(p, "in") : i < Len(chatLogs) + 1
          /\ \A i \in Entries(p, "tool") : i < Len(chatLogs) + 1
      BY <2>1, <2>3, EntriesAfterLog
    <3>3. Entries(p, "in") # {} /\ Entries(p, "out") = {}
      BY <2>1, <2>3, <3>1 DEF Logged
    <3>4. QED
      BY <2>1, <3>1, <3>2, <3>3 DEF Logged
  <2>4. QED
    BY <2>2, <2>3
<1>12. CASE UNCHANGED vars
  BY <1>1, <1>12 DEF vars
<1>13. QED
  BY <1>2, <1>3, <1>4, <1>5, <1>6, <1>7, <1>8, <1>9, <1>10, <1>11, <1>12 DEF Next

LEMMA InitLogInv == Init => LogInv
<1> SUFFICES ASSUME Init, NEW p \in Prompts PROVE Logged(p)
  BY DEF LogInv
<1>1. \A k \in Kinds : Entries(p, k) = {}
  BY DEF Init, Entries
<1>2. stage[p] = "none" /\ p \notin replies
  BY DEF Init, Msgs
<1>3. QED
  BY <1>1, <1>2 DEF Logged, Kinds

\* Rows of replies, and the 0 of those without one, show a total or no tokens.
Totalled ==
  \A p \in Prompts : usage[p].totalTokens = 0 => usage[p].inputTokens + usage[p].outputTokens = 0

LEMMA NextTotalled == TypeOK /\ Totalled /\ [Next]_vars => Totalled'
<1> SUFFICES ASSUME TypeOK, Totalled, [Next]_vars PROVE Totalled'
  OBVIOUS
<1>1. ASSUME NEW q \in Prompts, Answer(q) PROVE Totalled'
  <2>1. usage' = [usage EXCEPT ![q] = LastUsage[q]]
    BY <1>1 DEF Answer
  <2>2. QED
    BY <2>1, UsageType DEF Totalled, TypeOK
<1>2. CASE UNCHANGED usage
  BY <1>2 DEF Totalled
<1>3. ASSUME ~(\E q \in Prompts : Answer(q)) PROVE UNCHANGED usage
  BY <1>3 DEF Next, vars, storeVars, Bootstrapped, BootstrapFails, PauseOver, Signal, Crash,
     Opened, Breaks, OnClose, Offer, OnMessage, Decrypted, HandlerFails, AskForTools,
     RunTools, HasSession, PostReply
<1>4. QED
  BY <1>1, <1>2, <1>3

\* A set of numbers that are all equal has at most one element.
LEMMA AtMostOne ==
  ASSUME NEW S, \A i, j \in S : i = j
  PROVE  Cardinality(S) <= 1
<1>1. CASE S = {}
  BY <1>1, FS_EmptySet
<1>2. CASE S # {}
  <2>1. PICK x \in S : S = {x}
    BY <1>2
  <2>2. QED
    BY <2>1, FS_Singleton
<1>3. QED
  BY <1>1, <1>2

\* LogMatchesReplies: however the handlers of any number of prompts interleave,
\* fail and are lost, each is logged once, in order, and no reply that the relay
\* has is missing from the log, nor its total of tokens.
THEOREM LogsMatch == Spec => []LogMatchesReplies
<1>1. TypeOK /\ LogInv /\ Totalled => LogMatchesReplies
  <2> SUFFICES ASSUME TypeOK, LogInv, Totalled, NEW p \in Prompts
               PROVE  LET in == Entries(p, "in")
                          out == Entries(p, "out")
                      IN /\ Cardinality(in) <= 1 /\ Cardinality(out) <= 1
                         /\ \A i \in Entries(p, "tool") \cup out : \E j \in in : j < i
                         /\ \A i \in Entries(p, "tool"), o \in out : i < o
                         /\ p \in replies => out # {}
                         /\ usage[p].totalTokens = 0 =>
                              usage[p].inputTokens + usage[p].outputTokens = 0
                         /\ in # {} /\ out = {} =>
                              stage[p] \in {"thinking", "tools", "failed", "lost"}
    BY DEF LogMatchesReplies
  <2>1. Logged(p)
    BY DEF LogInv
  <2>2. Cardinality(Entries(p, "in")) <= 1 /\ Cardinality(Entries(p, "out")) <= 1
    BY <2>1, AtMostOne DEF Logged
  <2>3. stage[p] \in Busy \cup {"none", "done", "failed", "lost"}
    BY DEF TypeOK, Msgs
  <2>4. QED
    BY <2>1, <2>2, <2>3 DEF Logged, Busy, Totalled
<1>2. Spec => []LogInv
  <2>1. Spec => []TypeOK
    BY TypeCorrect
  <2>2. TypeOK /\ LogInv /\ [Next]_vars => LogInv'
    BY NextLogInv
  <2>3. QED
    BY <2>1, <2>2, InitLogInv, PTL DEF Spec
<1>3. Spec => []Totalled
  <2>1. Init => Totalled
    BY DEF Init, Totalled, NoUsage
  <2>2. QED
    BY <2>1, NextTotalled, TypeCorrect, PTL DEF Spec
<1>4. QED
  BY <1>1, <1>2, <1>3, TypeCorrect, PTL
=============================================================================
