-------------------------- MODULE Telemetry_proofs --------------------------
(***************************************************************************)
(* Telemetry: its invariants, for any samples of the host and any bound.   *)
(***************************************************************************)
EXTENDS Telemetry, FiniteSetTheorems, SequenceTheorems, WellFoundedInduction, TLAPS

-----------------------------------------------------------------------------
(***************************************************************************)
(* Greatest elements: the queries of lib/state-db.ts ask for the row with  *)
(* the greatest created_at.                                                *)
(***************************************************************************)
LEMMA SmallestExists ==
  ASSUME NEW T \in SUBSET Nat, T # {}
  PROVE  \E x \in T : \A y \in T : x <= y
<1>1. IsWellFoundedOn(OpToRel(<, Nat), Nat)
  BY NatLessThanWellFounded
<1>2. PICK x \in T : \A y \in T : ~(<<y, x>> \in OpToRel(<, Nat))
  BY <1>1, WFMin
<1>3. \A y \in T : ~(y < x)
  BY <1>2 DEF OpToRel
<1>4. QED
  BY <1>3

Greatest(S) == CHOOSE x \in S : \A y \in S : y <= x

LEMMA GreatestIs ==
  ASSUME NEW n \in Nat, NEW S \in SUBSET (0..n), S # {}
  PROVE  Greatest(S) \in S /\ \A y \in S : y <= Greatest(S)
<1> DEFINE T == {k \in Nat : \E x \in S : k = n - x}
<1>1. T \in SUBSET Nat /\ T # {}
  <2>1. PICK x \in S : TRUE
    OBVIOUS
  <2>2. n - x \in T
    OBVIOUS
  <2>3. QED
    BY <2>2
<1>2. PICK k \in T : \A l \in T : k <= l
  BY <1>1, SmallestExists
<1>3. PICK x \in S : k = n - x
  OBVIOUS
<1>4. \A y \in S : n - y \in T
  OBVIOUS
<1>5. \A y \in S : y <= x
  BY <1>2, <1>3, <1>4
<1>6. QED
  BY <1>5 DEF Greatest

-----------------------------------------------------------------------------
(***************************************************************************)
(* The tables as values: what the queries return for any rows l and s.     *)
(***************************************************************************)
Entry == [kind : {"out", "reset"}, at : Times]

EntriesOf(l, kind) == {i \in DOMAIN l : l[i].kind = kind}

ResetTimes(l) == {0} \cup {l[i].at : i \in EntriesOf(l, "reset")}

LEMMA WindowIs ==
  ASSUME NEW l \in Seq(Entry)
  PROVE  /\ Greatest(ResetTimes(l)) \in {0} \cup Times
         /\ \A i \in EntriesOf(l, "reset") : l[i].at <= Greatest(ResetTimes(l))
         /\ \/ Greatest(ResetTimes(l)) = 0
            \/ \E i \in EntriesOf(l, "reset") : l[i].at = Greatest(ResetTimes(l))
<1>1. \A i \in DOMAIN l : l[i] \in Entry
  BY LenProperties
<1>2. ResetTimes(l) \in SUBSET (0..(MaxInputs + 1)) /\ ResetTimes(l) # {}
  BY <1>1, TelemetryAssumption DEF ResetTimes, EntriesOf, Entry, Times
<1>3. PICK w : w = Greatest(ResetTimes(l))
  OBVIOUS
<1>4. w \in ResetTimes(l) /\ \A t \in ResetTimes(l) : t <= w
  <2>1. MaxInputs + 1 \in Nat
    BY TelemetryAssumption
  <2>2. QED
    BY <1>2, <1>3, <2>1, GreatestIs
<1>5. w \in {0} \cup Times
  BY <1>1, <1>4 DEF ResetTimes, EntriesOf, Entry
<1>6. \A i \in EntriesOf(l, "reset") : l[i].at <= w
  BY <1>4 DEF ResetTimes
<1>7. w = 0 \/ \E i \in EntriesOf(l, "reset") : l[i].at = w
  BY <1>4 DEF ResetTimes
<1>8. QED
  BY <1>3, <1>5, <1>6, <1>7

Latest(s) == IF s = <<>> THEN 0 ELSE Greatest(Range(s))

LEMMA LatestIs ==
  ASSUME NEW s \in Seq(Rounds)
  PROVE  /\ Latest(s) \in {0} \cup Range(s)
         /\ Range(s) \subseteq Rounds
         /\ \A k \in Range(s) : k <= Latest(s)
<1>1. DOMAIN s = 1..Len(s) /\ Len(s) \in Nat /\ Range(s) \subseteq Rounds
  BY LenProperties DEF Range
<1>2. CASE s = <<>>
  BY <1>1, <1>2 DEF Latest, Range
<1>3. CASE s # <<>>
  <2>1. Range(s) # {}
    <3>1. 1 \in DOMAIN s
      BY <1>1, <1>3, EmptySeq
    <3>2. QED
      BY <3>1 DEF Range
  <2>2. Range(s) \in SUBSET (0..MaxInputs)
    BY <1>1, TelemetryAssumption DEF Rounds
  <2>3. QED
    BY <1>1, <1>3, <2>1, <2>2, GreatestIs, TelemetryAssumption DEF Latest
<1>4. QED
  BY <1>2, <1>3

CountedOf(l) == {i \in EntriesOf(l, "out") : l[i].at > Greatest(ResetTimes(l))}

LEMMA CountedIs ==
  ASSUME NEW l \in Seq(Entry)
  PROVE  /\ IsFiniteSet(CountedOf(l))
         /\ Cardinality(CountedOf(l)) \in 0..Len(l)
<1>1. CountedOf(l) \in SUBSET (1..Len(l)) /\ Len(l) \in Nat
  BY LenProperties DEF CountedOf, EntriesOf
<1>2. IsFiniteSet(1..Len(l)) /\ Cardinality(1..Len(l)) = Len(l)
  <2>1. 1 \in Int /\ Len(l) \in Int
    BY <1>1
  <2>2. IsFiniteSet(1..Len(l)) /\ Cardinality(1..Len(l)) = IF 1 > Len(l) THEN 0 ELSE Len(l) - 1 + 1
    BY <2>1, FS_Interval
  <2>3. QED
    BY <1>1, <2>2
<1>3. /\ IsFiniteSet(CountedOf(l))
      /\ Cardinality(CountedOf(l)) <= Len(l)
  BY <1>1, <1>2, FS_Subset
<1>4. QED
  BY <1>1, <1>3, FS_CardinalityType

\* What the web application answers is a function of the tables.
LEMMA StatusOfTables ==
  /\ LatestSnapshot = Latest(snapshots) /\ LatestSnapshot' = Latest(snapshots')
  /\ UsageWindowStart = Greatest(ResetTimes(log))
  /\ UsageWindowStart' = Greatest(ResetTimes(log'))
  /\ Counted = CountedOf(log) /\ Counted' = CountedOf(log')
  BY DEF LatestSnapshot, Latest, Greatest, UsageWindowStart, Entries, ResetTimes,
         EntriesOf, Counted, CountedOf

-----------------------------------------------------------------------------
(***************************************************************************)
(* Types.  The rows of the log are inputs, so their number is bounded.     *)
(* Rounds are counted from 1.                                              *)
(***************************************************************************)
LogShort == Len(log) <= MaxInputs

Started == probe \notin {"boot", "exited"} => round \in Rounds

TInv == TypeOK /\ LogShort /\ Started

LEMMA LogType ==
  ASSUME TypeOK
  PROVE  log \in Seq(Entry) /\ Len(log) \in Nat
  BY LenProperties DEF TypeOK, Entry

LEMMA InputLeaves ==
  ASSUME TypeOK, Input
  PROVE  round < MaxInputs /\ Len(log) < MaxInputs /\ now < MaxInputs + 1 /\ faults < MaxInputs
<1>1. Len(log) \in Nat
  BY LogType
<1>2. round + Len(log) + now - 1 + faults < MaxInputs
  BY DEF Input, Spent
<1>3. round \in Nat /\ now \in Nat /\ now >= 1 /\ faults \in Nat
  BY TelemetryAssumption DEF TypeOK, Rounds, Times
<1>4. QED
  BY <1>1, <1>2, <1>3, TelemetryAssumption

LEMMA FaultType ==
  ASSUME TypeOK, Fault
  PROVE  faults' \in 0..MaxInputs
  BY InputLeaves, TelemetryAssumption DEF TypeOK, Fault

LEMMA StatusType ==
  ASSUME TInv
  PROVE  CurrentStatus \in Status
<1>1. Latest(snapshots) \in {0} \cup Rounds
  BY LatestIs DEF TInv, TypeOK
<1>2. Greatest(ResetTimes(log)) \in {0} \cup Times
  BY LogType, WindowIs DEF TInv
<1>3. Cardinality(CountedOf(log)) \in 0..MaxInputs
  <2>1. Cardinality(CountedOf(log)) \in 0..Len(log) /\ Len(log) \in Nat
    BY LogType, CountedIs DEF TInv
  <2>2. QED
    BY <2>1, TelemetryAssumption DEF TInv, LogShort
<1>4. QED
  BY <1>1, <1>2, <1>3, StatusOfTables DEF CurrentStatus, Status

LEMMA ShownType ==
  ASSUME TypeOK
  PROVE  Shown \in Status /\ NoStatus \in Status
  BY TelemetryAssumption DEF Shown, TypeOK, NoStatus, Status

LEMMA InsertType ==
  ASSUME TInv, NEW kind \in {"out", "reset"}, Insert(kind)
  PROVE  /\ log' \in Seq([kind : {"out", "reset"}, at : Times])
         /\ LogShort'
<1>1. log' = Append(log, [kind |-> kind, at |-> now])
  BY DEF Insert
<1>2. [kind |-> kind, at |-> now] \in Entry /\ log \in Seq(Entry)
  BY LogType DEF TInv, TypeOK, Entry
<1>3. log' \in Seq(Entry) /\ Len(log') = Len(log) + 1
  BY <1>1, <1>2, AppendProperties
<1>4. Len(log) < MaxInputs /\ Len(log) \in Nat
  BY InputLeaves, LogType DEF Insert, TInv
<1>5. QED
  BY <1>3, <1>4, TelemetryAssumption DEF LogShort, Entry

\* The dictionary of the reports after one was accepted.
LEMMA AcceptIs ==
  ASSUME Accept
  PROVE  /\ DOMAIN reports' = DOMAIN reports \cup {round}
         /\ reports'[round] = host
         /\ \A k \in DOMAIN reports \ {round} : reports'[k] = reports[k]
  BY DEF Accept

\* A percentage is negative only if the part is.
LEMMA PctType ==
  ASSUME NEW a \in Int, NEW b \in Int, NEW c \in Nat
  PROVE  c > 0 => /\ ((a - b) * 100) \div c \in Int
                  /\ a >= b => ((a - b) * 100) \div c >= 0
  OBVIOUS

LEMMA MetricsType ==
  ASSUME TypeOK, NEW sample \in Samples
  PROVE  HostMetrics(sample) \in [cpuPct : Int, memPct : Int, odd : BOOLEAN]
<1>1. MemPct(sample) \in Int
  BY PctType, TelemetryAssumption DEF MemPct
<1>2. ASSUME lastCpuSample # NoSample PROVE ComputeCpuPct(lastCpuSample, sample) \in Int
  <2>1. lastCpuSample \in Samples
    BY <1>2 DEF TypeOK
  <2>2. QED
    BY <2>1, PctType, TelemetryAssumption DEF ComputeCpuPct
<1>3. QED
  BY <1>1, <1>2 DEF HostMetrics

\* Requests with a new entry.
Request == [step : {"none", "asked", "read"}, reply : Status, seen : Status]

LEMMA RequestType ==
  ASSUME TypeOK, NEW i \in Requests, NEW r \in Request,
         request' = [request EXCEPT ![i] = r]
  PROVE  request' \in [Requests -> Request]
  BY DEF TypeOK, Request

LEMMA IdleType == Idle \in Request
  BY TelemetryAssumption DEF Idle, Request, NoStatus, Status

LEMMA AskType ==
  ASSUME TypeOK, NEW i \in Requests, Ask(i)
  PROVE  request' \in [Requests -> Request]
<1>1. [step |-> "asked", reply |-> NoStatus, seen |-> Shown] \in Request
  BY ShownType DEF Request
<1>2. QED
  BY <1>1, RequestType DEF Ask

LEMMA SetDataType ==
  ASSUME TypeOK, NEW i \in Requests, SetData(i)
  PROVE  data' \in Status \cup {NoData} /\ request' \in [Requests -> Request]
<1>1. data' = request[i].reply /\ request[i].reply \in Status
  BY DEF SetData, TypeOK
<1>2. request' \in [Requests -> Request]
  BY IdleType, RequestType DEF SetData
<1>3. QED
  BY <1>1, <1>2

LEMMA InitTInv == Init => TInv
<1> SUFFICES ASSUME Init PROVE TInv
  OBVIOUS
<1>1. /\ snapshots \in Seq(Rounds) /\ log \in Seq([kind : {"out", "reset"}, at : Times])
      /\ LogShort
  BY EmptySeq, TelemetryAssumption DEF Init, LogShort
<1>2. request \in [Requests -> Request]
  BY IdleType DEF Init
<1>3. now \in Times /\ faults \in 0..MaxInputs
  BY TelemetryAssumption DEF Init, Times
<1>4. host \in [cpuPct : Int, memPct : Int, odd : BOOLEAN] /\ DOMAIN reports \subseteq Rounds
  BY DEF Init, NoHost
<1>5. QED
  BY <1>1, <1>2, <1>3, <1>4 DEF Init, TInv, TypeOK, Started, Request

\* Steps of the page, and of the probe, leave the other's variables alone.
LEMMA PageTypes ==
  ASSUME TInv, UNCHANGED <<probeVars, agentVars>>,
         data' \in Status \cup {NoData},
         resetInfo' \in {0} \cup Times,
         reset' \in [step : {"idle", "posted", "stored", "fetching"}, at : {0} \cup Times],
         request' \in [Requests -> Request],
         faults' \in 0..MaxInputs
  PROVE  TInv'
  BY DEF TInv, TypeOK, LogShort, Started, Request, probeVars, agentVars

LEMMA ProbeTypes ==
  ASSUME TInv, UNCHANGED <<snapshots, rejected, now, log, pageVars>>,
         probe' \in {"boot", "session", "collect", "relayKnown", "post", "pause", "exited"},
         round' \in {0} \cup Rounds,
         probe' \notin {"boot", "exited"} => round' \in Rounds,
         sampling' \in BOOLEAN,
         {lastCpuSample', lastRead'} \subseteq Samples \cup {NoSample},
         host' \in [cpuPct : Int, memPct : Int, odd : BOOLEAN],
         DOMAIN reports' \subseteq Rounds,
         faults' \in 0..MaxInputs
  PROVE  TInv'
  BY DEF TInv, TypeOK, LogShort, Started, pageVars

LEMMA NextTInv == TInv /\ [Next]_vars => TInv'
<1> SUFFICES ASSUME TInv, [Next]_vars PROVE TInv'
  OBVIOUS
<1> USE DEF TInv
<1>1. CASE Bootstrapped
  <2>1. 1 \in Rounds
    BY <1>1, InputLeaves, TelemetryAssumption DEF Bootstrapped, TypeOK, Rounds
  <2>2. QED
    BY <1>1, <2>1 DEF Bootstrapped, TypeOK, LogShort, Started, agentVars, pageVars
<1>2. CASE BootstrapFails
  BY <1>2, FaultType DEF BootstrapFails, TypeOK, LogShort, Started, agentVars, pageVars
<1>3. CASE HasSession
  BY <1>3 DEF HasSession, TypeOK, LogShort, Started, agentVars, pageVars
<1>4. CASE RelayFetched
  BY <1>4 DEF RelayFetched, TypeOK, LogShort, Started, agentVars, pageVars
<1>5. CASE Posted
  <2>1. DOMAIN reports' = DOMAIN reports \cup {round}
    BY <1>5, AcceptIs DEF Posted
  <2>2. round \in Rounds
    BY <1>5 DEF Posted, TypeOK, Started
  <2>3. QED
    BY <1>5, <2>1 DEF Posted, TypeOK, LogShort, Started, pageVars
<1>6. CASE RoundFails
  <2>1. DOMAIN reports' \subseteq Rounds
    <3>1. CASE UNCHANGED reports
      BY <3>1 DEF TypeOK
    <3>2. CASE probe = "post" /\ Accept
      BY <3>2, AcceptIs DEF TypeOK, Started
    <3>3. QED
      BY <1>6, <3>1, <3>2 DEF RoundFails
  <2>2. /\ probe' = "pause" /\ sampling' \in BOOLEAN /\ round' \in Rounds
        /\ UNCHANGED <<lastCpuSample, lastRead, host, snapshots, rejected, now, log,
                       pageVars, faults>>
    BY <1>6 DEF RoundFails, InHttpCall, TypeOK, Started
  <2>3. QED
    BY <2>1, <2>2, ProbeTypes DEF TypeOK
<1>7. CASE PauseOver
  <2>1. round' \in Rounds
    BY <1>7, InputLeaves, TelemetryAssumption DEF PauseOver, TypeOK, Rounds
  <2>2. QED
    BY <1>7, <2>1, ProbeTypes DEF PauseOver, TypeOK, agentVars
<1>8. ASSUME NEW sample \in Samples, Sampled(sample) PROVE TInv'
  <2>1. /\ probe' = (IF probe = "relayKnown" THEN "post" ELSE probe)
        /\ sampling' = FALSE /\ host' = HostMetrics(sample)
        /\ lastCpuSample' = sample /\ lastRead' = sample
        /\ UNCHANGED <<round, reports, snapshots, rejected, now, log, pageVars, faults>>
    BY <1>8 DEF Sampled, NextCpuSample, agentVars
  <2>2. /\ probe' \in {"boot", "session", "collect", "relayKnown", "post", "pause", "exited"}
        /\ probe' \notin {"boot", "exited"} => round' \in Rounds
    BY <2>1 DEF TypeOK, Started
  <2>3. QED
    BY <2>1, <2>2, MetricsType, ProbeTypes DEF TypeOK
<1>9. ASSUME NEW k \in Rounds, RecordTelemetry(k) PROVE TInv'
  <2>1. snapshots' \in Seq(Rounds)
    <3>1. snapshots' = Append(snapshots, k) \/ snapshots' = snapshots
      BY <1>9 DEF RecordTelemetry
    <3>2. snapshots \in Seq(Rounds)
      BY DEF TypeOK
    <3>3. QED
      BY <3>1, <3>2, AppendProperties
  <2>2. QED
    BY <1>9, <2>1 DEF RecordTelemetry, TypeOK, LogShort, Started, probeVars, pageVars
<1>10. CASE LogReply
  BY <1>10, InsertType DEF LogReply, TypeOK, Started, probeVars, pageVars
<1>11. CASE Tick
  <2>1. now' \in Times
    BY <1>11, InputLeaves, TelemetryAssumption DEF Tick, TypeOK, Times
  <2>2. QED
    BY <1>11, <2>1 DEF Tick, TypeOK, LogShort, Started, probeVars, pageVars
<1>12. CASE StoreReset
  BY <1>12, InsertType DEF StoreReset, ResetUsageTotals, TypeOK, Started, probeVars
<1>13. ASSUME NEW i \in Requests, ReadStatus(i) PROVE TInv'
  <2>1. PICK answer \in Status : answer = CurrentStatus
    BY StatusType
  <2>2. request' = [request EXCEPT ![i].step = "read", ![i].reply = answer]
    BY <1>13, <2>1 DEF ReadStatus
  <2>3. request' \in [Requests -> Request]
    <3>1. request \in [Requests -> Request]
      BY DEF TypeOK, Request
    <3>2. QED
      BY <2>1, <2>2, <3>1 DEF Request
  <2>4. QED
    BY <1>13, <2>3, PageTypes DEF ReadStatus, TypeOK
<1>14. ASSUME NEW i \in Polls, Poll(i) PROVE TInv'
  <2>1. i \in Requests
    BY DEF Requests
  <2>2. request' \in [Requests -> Request]
    BY <1>14, <2>1, AskType DEF Poll
  <2>3. QED
    BY <1>14, <2>2, PageTypes DEF Poll, TypeOK
<1>15. ASSUME NEW i \in Polls, PollArrives(i) PROVE TInv'
  <2>1. SetData(i) /\ UNCHANGED <<probeVars, agentVars, resetInfo, reset, faults>> /\ i \in Requests
    BY <1>15 DEF PollArrives, Requests
  <2>2. QED
    BY <2>1, SetDataType, PageTypes DEF TypeOK
<1>16. ASSUME NEW i \in Polls, PollFails(i) PROVE TInv'
  <2>1. request' \in [Requests -> Request]
    BY <1>16, IdleType, RequestType DEF PollFails, Requests
  <2>2. QED
    BY <1>16, <2>1, FaultType, PageTypes DEF PollFails, TypeOK
<1>17. CASE OnResetUsage
  BY <1>17 DEF OnResetUsage, TypeOK, LogShort, Started, probeVars, agentVars
<1>18. CASE ResetConfirmed
  <2>1. 0 \in Requests
    BY DEF Requests
  <2>2. request' \in [Requests -> Request]
    BY <1>18, <2>1, AskType DEF ResetConfirmed
  <2>3. QED
    BY <1>18, <2>2, PageTypes DEF ResetConfirmed, TypeOK
<1>19. CASE ResetDone
  <2>1. /\ SetData(0) /\ 0 \in Requests /\ resetInfo' = reset.at
        /\ reset' = [step |-> "idle", at |-> 0] /\ UNCHANGED <<probeVars, agentVars, faults>>
    BY <1>19 DEF ResetDone, Requests
  <2>2. resetInfo' \in {0} \cup Times
    BY <2>1 DEF TypeOK
  <2>3. QED
    BY <2>1, <2>2, SetDataType, PageTypes DEF TypeOK
<1>20. CASE ResetFails
  <2>1. request' \in [Requests -> Request]
    BY <1>20, IdleType, RequestType DEF ResetFails, Requests
  <2>2. QED
    BY <1>20, <2>1, FaultType, PageTypes DEF ResetFails, TypeOK
<1>21. CASE UNCHANGED vars
  BY <1>21 DEF vars, probeVars, agentVars, pageVars, TypeOK, LogShort, Started
<1>22. QED
  BY <1>1, <1>2, <1>3, <1>4, <1>5, <1>6, <1>7, <1>8, <1>9, <1>10, <1>11, <1>12, <1>13,
     <1>14, <1>15, <1>16, <1>17, <1>18, <1>19, <1>20, <1>21 DEF Next

LEMMA TInvInvariant == Spec => []TInv
  BY InitTInv, NextTInv, PTL DEF Spec

\* The variables of Telemetry keep their types: what the page shows has a
\* snapshot that was reported, a count of rows and a time of the clock.
THEOREM TypeCorrect == Spec => []TypeOK
<1>1. TInv => TypeOK
  BY DEF TInv
<1>2. QED
  BY <1>1, TInvInvariant, PTL

-----------------------------------------------------------------------------
(***************************************************************************)
(* Reports.  The module keeps the last sample whatever becomes of its      *)
(* round, a round has at most one report, and a percentage is negative     *)
(* only after something odd.                                               *)
(***************************************************************************)
OneReport ==
  /\ probe \in {"boot", "exited"} => round = 0
  /\ \A k \in DOMAIN reports : k <= round /\ (probe # "pause" => k < round)

Explained(report) ==
  /\ report \in [cpuPct : Int, memPct : Int, odd : BOOLEAN]
  /\ ~Valid(report) => report.odd

Explanations ==
  /\ lastCpuSample = lastRead
  /\ Explained(host)
  /\ \A k \in DOMAIN reports : Explained(reports[k])
  /\ rejected \subseteq DOMAIN reports
  /\ \A k \in rejected : ~Valid(reports[k])

RInv == OneReport /\ Explanations

LEMMA MetricsExplained ==
  ASSUME TypeOK, lastCpuSample = lastRead, NEW sample \in Samples
  PROVE  Explained(HostMetrics(sample))
<1> DEFINE m == HostMetrics(sample)
<1>1. m \in [cpuPct : Int, memPct : Int, odd : BOOLEAN]
  BY MetricsType
<1>2. sample \in [idle : Nat, total : Nat, memTotal : Nat, memAvail : Nat]
  BY TelemetryAssumption
<1>3. ASSUME ~(m.memPct >= 0) PROVE m.odd
  <2>1. m.memPct = MemPct(sample)
    BY DEF HostMetrics
  <2>2. sample.memTotal < sample.memAvail
    BY <1>2, <1>3, <2>1, PctType DEF MemPct
  <2>3. QED
    BY <2>2 DEF HostMetrics
<1>4. ASSUME ~(m.cpuPct >= 0) PROVE m.odd
  <2>1. lastRead # NoSample /\ m.cpuPct = ComputeCpuPct(lastRead, sample)
    BY <1>4 DEF HostMetrics
  <2>2. PICK prev : prev = lastRead
    OBVIOUS
  <2>3. prev \in [idle : Nat, total : Nat, memTotal : Nat, memAvail : Nat]
    BY <2>1, <2>2, TelemetryAssumption DEF TypeOK
  <2>4. PICK td, id \in Int : td = sample.total - prev.total /\ id = sample.idle - prev.idle
    BY <1>2, <2>3
  <2>5. ~((IF td <= 0 THEN 0 ELSE ((td - id) * 100) \div td) >= 0)
    BY <1>4, <2>1, <2>2, <2>4 DEF ComputeCpuPct
  <2>6. td < id
    BY <2>4, <2>5, PctType
  <2>7. Busy(sample) < Busy(lastRead)
    BY <1>2, <2>2, <2>3, <2>4, <2>6 DEF Busy
  <2>8. QED
    BY <2>1, <2>7 DEF HostMetrics
<1>5. QED
  BY <1>1, <1>3, <1>4 DEF Explained, Valid

LEMMA AcceptKeeps ==
  ASSUME TInv, RInv, probe = "post", Accept, probe' = "pause",
         UNCHANGED <<round, lastCpuSample, lastRead, host, rejected>>
  PROVE  RInv'
<1>1. /\ DOMAIN reports' = DOMAIN reports \cup {round} /\ reports'[round] = host
      /\ \A k \in DOMAIN reports \ {round} : reports'[k] = reports[k]
  BY AcceptIs
<1>2. round \in Nat /\ round \notin DOMAIN reports
  BY TelemetryAssumption DEF TInv, TypeOK, Rounds, RInv, OneReport
<1>3. OneReport'
  BY <1>1, <1>2 DEF RInv, OneReport, TInv, TypeOK, Rounds
<1>4. Explanations'
  BY <1>1, <1>2 DEF RInv, Explanations, Explained, Valid
<1>5. QED
  BY <1>3, <1>4 DEF RInv

LEMMA NextRInv == TInv /\ RInv /\ [Next]_vars => RInv'
<1> SUFFICES ASSUME TInv, RInv, [Next]_vars PROVE RInv'
  OBVIOUS
<1>a. TypeOK
  BY DEF TInv
<1>b. round \in Nat /\ \A k \in DOMAIN reports : k \in Nat
  BY <1>a, TelemetryAssumption DEF TypeOK, Rounds
<1>1. CASE Bootstrapped
  <2>1. DOMAIN reports = {}
    <3>1. probe = "boot" /\ round = 0
      BY <1>1 DEF Bootstrapped, RInv, OneReport
    <3>2. \A k \in DOMAIN reports : k < 0
      BY <3>1 DEF RInv, OneReport
    <3>3. ASSUME NEW k \in DOMAIN reports PROVE FALSE
      <4>1. k \in Nat /\ k < 0
        BY <1>b, <3>2
      <4>2. QED
        BY <4>1
    <3>4. QED
      BY <3>3
  <2>2. QED
    BY <1>1, <1>b, <2>1 DEF Bootstrapped, agentVars, RInv, OneReport, Explanations, Explained, Valid
<1>2. CASE BootstrapFails
  BY <1>2 DEF BootstrapFails, agentVars, RInv, OneReport, Explanations, Explained, Valid
<1>3. CASE HasSession \/ RelayFetched
  BY <1>3 DEF HasSession, RelayFetched, agentVars, RInv, OneReport, Explanations, Explained, Valid
<1>4. CASE Posted
  BY <1>4, AcceptKeeps DEF Posted
<1>5. CASE RoundFails
  <2>1. CASE UNCHANGED reports
    <3>1. probe \notin {"boot", "exited"}
      BY <1>5 DEF RoundFails, InHttpCall
    <3>2. QED
      BY <1>5, <2>1, <3>1 DEF RoundFails, RInv, OneReport, Explanations, Explained, Valid
  <2>2. CASE probe = "post" /\ Accept
    BY <1>5, <2>2, AcceptKeeps DEF RoundFails
  <2>3. QED
    BY <1>5, <2>1, <2>2 DEF RoundFails
<1>6. CASE PauseOver
  BY <1>6, <1>b DEF PauseOver, agentVars, RInv, OneReport, Explanations, Explained, Valid
<1>7. ASSUME NEW sample \in Samples, Sampled(sample) PROVE RInv'
  <2>1. Explained(HostMetrics(sample))
    BY <1>a, MetricsExplained DEF RInv, Explanations
  <2>2. /\ host' = HostMetrics(sample) /\ lastCpuSample' = lastRead'
        /\ UNCHANGED <<round, reports, rejected>>
        /\ probe' = IF probe = "relayKnown" THEN "post" ELSE probe
    BY <1>7 DEF Sampled, NextCpuSample, agentVars
  <2>3. Explanations'
    BY <2>1, <2>2 DEF RInv, Explanations, Explained, Valid
  <2>4. OneReport'
    BY <2>2 DEF RInv, OneReport
  <2>5. QED
    BY <2>3, <2>4 DEF RInv
<1>8. ASSUME NEW k \in Rounds, RecordTelemetry(k) PROVE RInv'
  <2>1. /\ k \in DOMAIN reports
        /\ rejected' = rejected \/ (rejected' = rejected \cup {k} /\ ~Valid(reports[k]))
        /\ UNCHANGED <<reports, probe, round, host, lastCpuSample, lastRead>>
    BY <1>8 DEF RecordTelemetry, probeVars
  <2>2. OneReport'
    BY <2>1 DEF RInv, OneReport
  <2>3. Explanations'
    BY <2>1 DEF RInv, Explanations, Explained, Valid
  <2>4. QED
    BY <2>2, <2>3 DEF RInv
<1>9. CASE UNCHANGED <<probeVars, reports, rejected>>
  BY <1>9 DEF probeVars, RInv, OneReport, Explanations, Explained, Valid
<1>10. CASE \/ LogReply \/ Tick \/ StoreReset
            \/ \E i \in Requests : ReadStatus(i)
            \/ \E i \in Polls : Poll(i) \/ PollArrives(i) \/ PollFails(i)
            \/ OnResetUsage \/ ResetConfirmed \/ ResetDone \/ ResetFails
            \/ UNCHANGED vars
  <2>1. UNCHANGED <<probeVars, reports, rejected>>
    BY <1>10 DEF LogReply, Tick, StoreReset, ReadStatus, Poll, PollArrives, PollFails,
       OnResetUsage, ResetConfirmed, ResetDone, ResetFails, agentVars, vars
  <2>2. QED
    BY <1>9, <2>1
<1>11. QED
  BY <1>1, <1>2, <1>3, <1>4, <1>5, <1>6, <1>7, <1>8, <1>10 DEF Next

LEMMA InitRInv == Init => RInv
  BY DEF Init, RInv, OneReport, Explanations, Explained, NoHost, Valid

\* RejectedReportHasCause: for any samples of /proc, in whatever order rounds
\* fail and reports arrive, a rejected report had an odd kernel as its cause.
THEOREM RejectionsHaveCauses == Spec => []RejectedReportHasCause
<1>1. RInv => RejectedReportHasCause
  BY DEF RInv, Explanations, Explained, RejectedReportHasCause
<1>2. Spec => []RInv
  <2>1. Spec => []TInv
    BY InitTInv, NextTInv, PTL DEF Spec
  <2>2. QED
    BY <2>1, InitRInv, NextRInv, PTL DEF Spec
<1>3. QED
  BY <1>1, <1>2, PTL

-----------------------------------------------------------------------------
(***************************************************************************)
(* The log.  Its rows are in the order of their times, which none has      *)
(* ahead of the clock.                                                     *)
(***************************************************************************)
InOrder ==
  /\ \A i, j \in DOMAIN log : i <= j => log[i].at <= log[j].at
  /\ \A i \in DOMAIN log : log[i].at <= now

LEMMA InsertIs ==
  ASSUME TypeOK, NEW kind \in {"out", "reset"}, Insert(kind)
  PROVE  /\ DOMAIN log = 1..Len(log) /\ Len(log) \in Nat
         /\ DOMAIN log' = 1..(Len(log) + 1)
         /\ \A i \in DOMAIN log : log'[i] = log[i]
         /\ log'[Len(log) + 1] = [kind |-> kind, at |-> now]
<1>1. log' = Append(log, [kind |-> kind, at |-> now])
  BY DEF Insert
<1>2. [kind |-> kind, at |-> now] \in Entry /\ log \in Seq(Entry)
  BY LogType DEF TypeOK, Entry
<1>3. QED
  BY <1>1, <1>2, AppendProperties, LenProperties

LEMMA NextInOrder == TypeOK /\ InOrder /\ [Next]_vars => InOrder'
<1> SUFFICES ASSUME TypeOK, InOrder, [Next]_vars PROVE InOrder'
  OBVIOUS
<1>1. now \in Nat /\ \A i \in DOMAIN log : log[i].at \in Nat
  <2>1. log \in Seq(Entry) /\ now \in Times
    BY LogType DEF TypeOK
  <2>2. \A i \in DOMAIN log : log[i] \in Entry
    BY <2>1, LenProperties
  <2>3. QED
    BY <2>1, <2>2, TelemetryAssumption DEF Entry, Times
<1>2. ASSUME NEW kind \in {"out", "reset"}, Insert(kind), UNCHANGED now PROVE InOrder'
  BY <1>1, <1>2, InsertIs DEF InOrder
<1>3. CASE LogReply \/ StoreReset
  BY <1>2, <1>3 DEF LogReply, StoreReset, ResetUsageTotals
<1>4. CASE Tick
  BY <1>1, <1>4 DEF Tick, InOrder
<1>5. CASE UNCHANGED <<now, log>>
  BY <1>5 DEF InOrder
<1>6. CASE ~(LogReply \/ StoreReset \/ Tick)
  <2>1. UNCHANGED <<now, log>>
    BY <1>6 DEF Next, vars, agentVars, pageVars, probeVars, Bootstrapped, BootstrapFails,
       HasSession, RelayFetched, Posted, RoundFails, PauseOver, Sampled, RecordTelemetry,
       ReadStatus, Poll, PollArrives, PollFails, OnResetUsage, ResetConfirmed, ResetDone,
       ResetFails
  <2>2. QED
    BY <1>5, <2>1
<1>7. QED
  BY <1>3, <1>4, <1>6

LEMMA InitInOrder == Init => InOrder
  BY DEF Init, InOrder

LEMMA InOrderInvariant == Spec => []InOrder
<1>1. Spec => []TypeOK
  BY TypeCorrect
<1>2. QED
  BY <1>1, InitInOrder, NextInOrder, PTL DEF Spec

\* The last reset in the log has the time at which the window starts.
LEMMA LastResetIs ==
  ASSUME TypeOK, InOrder, NEW r \in LastReset
  PROVE  /\ r \in DOMAIN log /\ log[r].kind = "reset"
         /\ log[r].at = UsageWindowStart
<1>1. r \in EntriesOf(log, "reset") /\ \A j \in EntriesOf(log, "reset") : j <= r
  BY DEF LastReset, Entries, EntriesOf
<1>2. PICK w : w = UsageWindowStart
  OBVIOUS
<1>3. /\ w \in {0} \cup Times
      /\ \A i \in EntriesOf(log, "reset") : log[i].at <= w
      /\ w = 0 \/ \E i \in EntriesOf(log, "reset") : log[i].at = w
  BY <1>2, LogType, WindowIs, StatusOfTables
<1>4. \A i \in DOMAIN log : log[i].at \in Nat /\ log[i].at > 0
  <2>1. \A i \in DOMAIN log : log[i] \in Entry
    BY LogType, LenProperties
  <2>2. QED
    BY <2>1, TelemetryAssumption DEF Entry, Times
<1>5. PICK i \in EntriesOf(log, "reset") : log[i].at = w
  BY <1>1, <1>3, <1>4 DEF EntriesOf
<1>6. i <= r /\ i \in DOMAIN log /\ r \in DOMAIN log
  BY <1>1 DEF EntriesOf
<1>7. log[i].at <= log[r].at
  BY <1>6 DEF InOrder
<1>8. log[r].at <= w /\ w \in Nat
  BY <1>1, <1>3, TelemetryAssumption DEF Times
<1>9. QED
  BY <1>1, <1>2, <1>4, <1>5, <1>6, <1>7, <1>8 DEF EntriesOf

LEMMA LastResetExists ==
  ASSUME TypeOK, NEW i \in EntriesOf(log, "reset")
  PROVE  \E r \in LastReset : TRUE
<1>1. EntriesOf(log, "reset") \in SUBSET (0..Len(log)) /\ Len(log) \in Nat
  BY LogType, LenProperties DEF EntriesOf
<1>2. EntriesOf(log, "reset") # {}
  OBVIOUS
<1>3. PICK r : r = Greatest(EntriesOf(log, "reset"))
  OBVIOUS
<1>4. r \in EntriesOf(log, "reset") /\ \A j \in EntriesOf(log, "reset") : j <= r
  BY <1>1, <1>2, <1>3, GreatestIs
<1>5. r \in LastReset
  BY <1>4 DEF LastReset, Entries, EntriesOf
<1>6. QED
  BY <1>5

\* UsageIsOfItsWindow: for any number of replies and resets, the totals count
\* what follows the last reset, but for what shares its millisecond.
THEOREM UsageOfWindow == Spec => []UsageIsOfItsWindow
<1>1. TypeOK /\ InOrder => UsageIsOfItsWindow
  <2> SUFFICES ASSUME TypeOK, InOrder PROVE UsageIsOfItsWindow
    OBVIOUS
  <2>1. /\ DOMAIN log \in SUBSET Nat
        /\ \A i \in DOMAIN log : log[i].at \in Nat /\ log[i].at > 0
    <3>1. log \in Seq(Entry) /\ DOMAIN log = 1..Len(log) /\ Len(log) \in Nat
      BY LogType, LenProperties
    <3>2. \A i \in DOMAIN log : log[i] \in Entry
      BY <3>1, LenProperties
    <3>3. QED
      BY <3>1, <3>2, TelemetryAssumption DEF Entry, Times
  <2>2. PICK w : w = UsageWindowStart
    OBVIOUS
  <2>3. w \in Nat /\ (w = 0 \/ \E i \in EntriesOf(log, "reset") : log[i].at = w)
    <3>1. w \in {0} \cup Times /\ (w = 0 \/ \E i \in EntriesOf(log, "reset") : log[i].at = w)
      BY <2>2, LogType, WindowIs, StatusOfTables
    <3>2. QED
      BY <3>1, TelemetryAssumption DEF Times
  <2>4. ASSUME NEW i \in Counted, NEW r \in LastReset PROVE r < i
    <3>1. i \in DOMAIN log /\ log[i].at > w
      BY <2>2 DEF Counted, Entries
    <3>2. r \in DOMAIN log /\ log[r].at = w
      BY <2>2, LastResetIs
    <3>3. ~(i <= r)
      BY <2>1, <2>3, <3>1, <3>2 DEF InOrder
    <3>4. QED
      BY <2>1, <3>1, <3>2, <3>3
  <2>5. ASSUME NEW i \in Entries("out") \ Counted
        PROVE  \E r \in LastReset : i < r \/ log[i].at = log[r].at
    <3>1. i \in DOMAIN log /\ log[i].kind = "out" /\ ~(log[i].at > w)
      BY <2>2 DEF Counted, Entries
    <3>2. PICK j \in EntriesOf(log, "reset") : log[j].at = w
      BY <2>1, <2>3, <3>1
    <3>3. PICK r \in LastReset : TRUE
      BY LastResetExists
    <3>4. r \in DOMAIN log /\ log[r].kind = "reset" /\ log[r].at = w
      BY <2>2, LastResetIs
    <3>5. r <= i => log[r].at <= log[i].at
      BY <3>1, <3>4 DEF InOrder
    <3>6. i < r \/ log[i].at = log[r].at
      BY <2>1, <2>3, <3>1, <3>4, <3>5
    <3>7. QED
      BY <3>3, <3>6
  <2>6. QED
    BY <2>4, <2>5 DEF UsageIsOfItsWindow
<1>2. QED
  BY <1>1, TypeCorrect, InOrderInvariant, PTL

-----------------------------------------------------------------------------
(***************************************************************************)
(* The status only moves forward: snapshots are added and keep the         *)
(* greatest time, resets move the window forward, and in one window the    *)
(* number of replies grows.                                                *)
(***************************************************************************)
NotBefore(later, earlier) ==
  /\ later.snapshot >= earlier.snapshot
  /\ \/ later.window > earlier.window
     \/ later.window = earlier.window /\ later.replies >= earlier.replies

LEMMA NotBeforeTransitive ==
  ASSUME NEW a \in Status, NEW b \in Status, NEW c \in Status,
         NotBefore(b, a), NotBefore(c, b)
  PROVE  NotBefore(c, a)
<1>1. \A x \in Status : x.snapshot \in Nat /\ x.replies \in Nat /\ x.window \in Nat
  BY TelemetryAssumption DEF Status, Rounds, Times
<1>2. QED
  BY <1>1 DEF NotBefore

LEMMA NothingBeforeNoStatus ==
  ASSUME NEW a \in Status
  PROVE  NotBefore(a, NoStatus) /\ NotBefore(a, a)
<1>1. a.snapshot \in Nat /\ a.replies \in Nat /\ a.window \in Nat
  BY TelemetryAssumption DEF Status, Rounds, Times
<1>2. QED
  BY <1>1 DEF NotBefore, NoStatus

StatusOf(s, l) ==
  [snapshot |-> Latest(s), replies |-> Cardinality(CountedOf(l)),
   window |-> Greatest(ResetTimes(l))]

LEMMA CurrentStatusIs ==
  /\ CurrentStatus = StatusOf(snapshots, log)
  /\ CurrentStatus' = StatusOf(snapshots', log')
  BY StatusOfTables DEF CurrentStatus, StatusOf

LEMMA LatestGrows ==
  ASSUME NEW s \in Seq(Rounds), NEW t \in Seq(Rounds), Range(s) \subseteq Range(t)
  PROVE  Latest(s) <= Latest(t)
<1>1. PICK a, b : a = Latest(s) /\ b = Latest(t)
  OBVIOUS
<1>2. a \in {0} \cup Range(s)
  BY <1>1, LatestIs
<1>3. b \in {0} \cup Range(t) /\ Range(t) \subseteq Rounds /\ \A k \in Range(t) : k <= b
  BY <1>1, LatestIs
<1>4. b \in Nat
  BY <1>3, TelemetryAssumption DEF Rounds
<1>5. a <= b
  BY <1>2, <1>3, <1>4
<1>6. QED
  BY <1>1, <1>5

LEMMA UsageGrows ==
  ASSUME NEW l \in Seq(Entry), NEW m \in Seq(Entry),
         DOMAIN l \subseteq DOMAIN m, \A i \in DOMAIN l : m[i] = l[i]
  PROVE  \/ Greatest(ResetTimes(m)) > Greatest(ResetTimes(l))
         \/ /\ Greatest(ResetTimes(m)) = Greatest(ResetTimes(l))
            /\ Cardinality(CountedOf(m)) >= Cardinality(CountedOf(l))
<1>1. PICK v, w : v = Greatest(ResetTimes(l)) /\ w = Greatest(ResetTimes(m))
  OBVIOUS
<1>2. v \in {0} \cup Times /\ (v = 0 \/ \E i \in EntriesOf(l, "reset") : l[i].at = v)
  BY <1>1, WindowIs
<1>3. w \in {0} \cup Times /\ \A i \in EntriesOf(m, "reset") : m[i].at <= w
  BY <1>1, WindowIs
<1>4. v \in Nat /\ w \in Nat
  BY <1>2, <1>3, TelemetryAssumption DEF Times
<1>5. \A kind : EntriesOf(l, kind) \subseteq EntriesOf(m, kind)
  BY DEF EntriesOf
<1>6. v <= w
  <2>1. CASE v = 0
    BY <1>4, <2>1
  <2>2. ASSUME NEW i \in EntriesOf(l, "reset"), l[i].at = v PROVE v <= w
    <3>1. i \in EntriesOf(m, "reset") /\ i \in DOMAIN l
      BY <1>5 DEF EntriesOf
    <3>2. QED
      BY <1>3, <2>2, <3>1
  <2>3. QED
    BY <1>2, <2>1, <2>2
<1>7. CASE v = w
  <2>1. CountedOf(l) \in SUBSET CountedOf(m)
    BY <1>1, <1>5, <1>7 DEF CountedOf, EntriesOf
  <2>2. IsFiniteSet(CountedOf(m))
    BY CountedIs
  <2>3. Cardinality(CountedOf(l)) <= Cardinality(CountedOf(m))
    BY <2>1, <2>2, FS_Subset
  <2>4. Cardinality(CountedOf(l)) \in Nat /\ Cardinality(CountedOf(m)) \in Nat
    <3>1. Len(l) \in Nat /\ Len(m) \in Nat
      BY LenProperties
    <3>2. Cardinality(CountedOf(l)) \in 0..Len(l) /\ Cardinality(CountedOf(m)) \in 0..Len(m)
      BY CountedIs
    <3>3. QED
      BY <3>1, <3>2
  <2>5. QED
    BY <1>1, <1>7, <2>3, <2>4
<1>8. CASE v # w
  BY <1>1, <1>4, <1>6, <1>8
<1>9. QED
  BY <1>7, <1>8

\* The ways in which the tables change.
LEMMA NextTables ==
  ASSUME [Next]_vars
  PROVE  /\ \/ UNCHANGED snapshots
            \/ \E k \in Rounds : snapshots' = Append(snapshots, k)
         /\ \/ UNCHANGED log
            \/ \E kind \in {"out", "reset"} : Insert(kind)
<1>1. ASSUME NEW k \in Rounds, RecordTelemetry(k)
      PROVE  UNCHANGED log /\ (UNCHANGED snapshots \/ snapshots' = Append(snapshots, k))
  BY <1>1 DEF RecordTelemetry
<1>2. CASE LogReply \/ StoreReset
  BY <1>2 DEF LogReply, StoreReset, ResetUsageTotals
<1>3. CASE ~(LogReply \/ StoreReset \/ \E k \in Rounds : RecordTelemetry(k))
  BY <1>3 DEF Next, vars, agentVars, pageVars, probeVars, Bootstrapped, BootstrapFails,
     HasSession, RelayFetched, Posted, RoundFails, PauseOver, Sampled, Tick,
     ReadStatus, Poll, PollArrives, PollFails, OnResetUsage, ResetConfirmed, ResetDone,
     ResetFails
<1>4. LogReply \/ StoreReset => UNCHANGED snapshots
  BY DEF LogReply, StoreReset
<1>5. QED
  BY <1>1, <1>2, <1>3, <1>4

LEMMA StatusOfType ==
  ASSUME NEW s \in Seq(Rounds), NEW l \in Seq(Entry), Len(l) <= MaxInputs
  PROVE  StatusOf(s, l) \in Status
<1>1. Latest(s) \in {0} \cup Rounds
  BY LatestIs
<1>2. Greatest(ResetTimes(l)) \in {0} \cup Times
  BY WindowIs
<1>3. Cardinality(CountedOf(l)) \in 0..Len(l) /\ Len(l) \in Nat
  BY CountedIs, LenProperties
<1>4. QED
  BY <1>1, <1>2, <1>3, TelemetryAssumption DEF StatusOf, Status

LEMMA StatusGrows ==
  ASSUME TInv, TInv', [Next]_vars
  PROVE  /\ CurrentStatus \in Status /\ CurrentStatus' \in Status
         /\ NotBefore(CurrentStatus', CurrentStatus)
<1>1. /\ snapshots \in Seq(Rounds) /\ snapshots' \in Seq(Rounds)
      /\ log \in Seq(Entry) /\ log' \in Seq(Entry)
      /\ Len(log) <= MaxInputs /\ Len(log') <= MaxInputs
  BY DEF TInv, TypeOK, LogShort, Entry
<1>2. Range(snapshots) \subseteq Range(snapshots')
  <2>1. ASSUME NEW k \in Rounds, snapshots' = Append(snapshots, k)
        PROVE  Range(snapshots) \subseteq Range(snapshots')
    <3>1. \A i \in 1..Len(snapshots) : i \in 1..Len(snapshots') /\ snapshots'[i] = snapshots[i]
      BY <1>1, <2>1, AppendProperties, LenProperties
    <3>2. DOMAIN snapshots = 1..Len(snapshots) /\ DOMAIN snapshots' = 1..Len(snapshots')
      BY <1>1, LenProperties
    <3>3. QED
      BY <3>1, <3>2 DEF Range
  <2>2. QED
    BY <2>1, NextTables
<1>3. DOMAIN log \subseteq DOMAIN log' /\ \A i \in DOMAIN log : log'[i] = log[i]
  <2>1. ASSUME NEW kind \in {"out", "reset"}, Insert(kind)
        PROVE  DOMAIN log \subseteq DOMAIN log' /\ \A i \in DOMAIN log : log'[i] = log[i]
    BY <2>1, InsertIs DEF TInv
  <2>2. QED
    BY <2>1, NextTables
<1>4. Latest(snapshots) <= Latest(snapshots')
  BY <1>1, <1>2, LatestGrows
<1>5. \/ Greatest(ResetTimes(log')) > Greatest(ResetTimes(log))
      \/ /\ Greatest(ResetTimes(log')) = Greatest(ResetTimes(log))
         /\ Cardinality(CountedOf(log')) >= Cardinality(CountedOf(log))
  BY <1>1, <1>3, UsageGrows
<1>6. StatusOf(snapshots, log) \in Status /\ StatusOf(snapshots', log') \in Status
  BY <1>1, StatusOfType
<1>7. NotBefore(StatusOf(snapshots', log'), StatusOf(snapshots, log))
  <2>1. Latest(snapshots) \in Nat /\ Latest(snapshots') \in Nat
    BY <1>6, TelemetryAssumption DEF StatusOf, Status, Rounds
  <2>2. QED
    BY <1>4, <1>5, <2>1 DEF NotBefore, StatusOf
<1>8. QED
  BY <1>6, <1>7, CurrentStatusIs

-----------------------------------------------------------------------------
(***************************************************************************)
(* The page.  What it shows, what it was answered and what it showed when  *)
(* it asked are all states of the past.                                    *)
(***************************************************************************)
OfThePast(c, r) ==
  /\ NotBefore(c, r.seen)
  /\ NotBefore(c, r.reply)
  /\ r.step = "read" => NotBefore(r.reply, r.seen)

PInv ==
  /\ NotBefore(CurrentStatus, Shown)
  /\ \A i \in Requests : OfThePast(CurrentStatus, request[i])

\* What was in the past stays there.
LEMMA PastKeeps ==
  ASSUME TInv, TInv', PInv, [Next]_vars
  PROVE  /\ NotBefore(CurrentStatus', Shown)
         /\ \A j \in Requests : OfThePast(CurrentStatus', request[j])
<1>1. PICK c, d \in Status : c = CurrentStatus /\ d = CurrentStatus' /\ NotBefore(d, c)
  BY StatusGrows
<1>2. Shown \in Status /\ NotBefore(c, Shown)
  BY <1>1, ShownType DEF TInv, PInv
<1>3. NotBefore(d, Shown)
  BY <1>1, <1>2, NotBeforeTransitive
<1>4. ASSUME NEW j \in Requests PROVE OfThePast(d, request[j])
  <2>1. request[j].seen \in Status /\ request[j].reply \in Status
    BY DEF TInv, TypeOK
  <2>2. OfThePast(c, request[j])
    BY <1>1 DEF PInv
  <2>3. NotBefore(d, request[j].seen) /\ NotBefore(d, request[j].reply)
    BY <1>1, <2>1, <2>2, NotBeforeTransitive DEF OfThePast
  <2>4. QED
    BY <2>2, <2>3 DEF OfThePast
<1>5. QED
  BY <1>1, <1>3, <1>4

LEMMA InitPInv == Init => PInv
<1> SUFFICES ASSUME Init PROVE PInv
  OBVIOUS
<1>1. TInv
  BY InitTInv
<1>2. PICK c \in Status : c = CurrentStatus
  BY <1>1, StatusType
<1>3. NotBefore(c, NoStatus)
  BY <1>2, NothingBeforeNoStatus
<1>4. OfThePast(c, Idle)
  BY <1>3 DEF OfThePast, Idle
<1>5. QED
  BY <1>2, <1>3, <1>4 DEF Init, PInv, Shown

LEMMA NextPInv == TInv /\ TInv' /\ PInv /\ [Next]_vars => PInv'
<1> SUFFICES ASSUME TInv, TInv', PInv, [Next]_vars PROVE PInv'
  OBVIOUS
<1>1. PICK d \in Status : d = CurrentStatus'
  BY StatusGrows
<1>2. NotBefore(d, Shown) /\ \A j \in Requests : OfThePast(d, request[j])
  BY <1>1, PastKeeps
<1>3. request \in [Requests -> Request]
  BY DEF TInv, TypeOK, Request
<1>4. ASSUME UNCHANGED data, \A j \in Requests : OfThePast(d, request'[j]) PROVE PInv'
  <2>1. Shown' = Shown
    BY <1>4 DEF Shown
  <2>2. QED
    BY <1>1, <1>2, <1>4, <2>1 DEF PInv
<1>5. ASSUME NEW i \in Requests, NEW r \in Request,
             request' = [request EXCEPT ![i] = r], OfThePast(d, r)
      PROVE  \A j \in Requests : OfThePast(d, request'[j])
  <2>1. request'[i] = r /\ \A j \in Requests : j # i => request'[j] = request[j]
    BY <1>3, <1>5
  <2>2. QED
    BY <1>2, <1>5, <2>1
<1>6. Idle \in Request /\ OfThePast(d, Idle)
  BY IdleType, NothingBeforeNoStatus DEF OfThePast, Idle
<1>7. CASE \E i \in Requests : ReadStatus(i)
  <2>1. PICK i \in Requests : ReadStatus(i)
    BY <1>7
  <2>2. CurrentStatus = d
    BY <1>1, <2>1, CurrentStatusIs DEF ReadStatus, agentVars
  <2>3. request' = [request EXCEPT ![i].step = "read", ![i].reply = d] /\ UNCHANGED data
    BY <2>1, <2>2 DEF ReadStatus
  <2>4. PICK r : r = [request[i] EXCEPT !.step = "read", !.reply = d]
    OBVIOUS
  <2>5. r \in Request /\ r.reply = d /\ r.seen = request[i].seen
    BY <1>3, <2>4 DEF Request
  <2>6. request' = [request EXCEPT ![i] = r]
    BY <1>3, <2>3, <2>4 DEF Request
  <2>7. OfThePast(d, r)
    <3>1. NotBefore(d, request[i].seen)
      BY <1>2 DEF OfThePast
    <3>2. NotBefore(d, d)
      BY NothingBeforeNoStatus
    <3>3. QED
      BY <2>5, <3>1, <3>2 DEF OfThePast
  <2>8. QED
    BY <1>4, <1>5, <2>3, <2>5, <2>6, <2>7
<1>8. ASSUME NEW i \in Requests, Ask(i), UNCHANGED data PROVE PInv'
  <2>1. PICK r : r = [step |-> "asked", reply |-> NoStatus, seen |-> Shown]
    OBVIOUS
  <2>2. r \in Request
    BY <2>1, ShownType DEF Request, TInv
  <2>3. OfThePast(d, r)
    BY <1>2, <2>1, NothingBeforeNoStatus DEF OfThePast
  <2>4. QED
    BY <1>4, <1>5, <1>8, <2>1, <2>2, <2>3 DEF Ask
<1>9. ASSUME NEW i \in Requests, SetData(i) PROVE PInv'
  <2>1. data' = request[i].reply /\ \A j \in Requests : OfThePast(d, request'[j])
    BY <1>5, <1>6, <1>9 DEF SetData
  <2>2. Shown' = NoStatus \/ Shown' = request[i].reply
    BY <2>1 DEF Shown
  <2>3. NotBefore(d, NoStatus) /\ NotBefore(d, request[i].reply)
    BY <1>2, NothingBeforeNoStatus DEF OfThePast
  <2>4. QED
    BY <1>1, <2>1, <2>2, <2>3 DEF PInv
<1>10. ASSUME NEW i \in Requests, request' = [request EXCEPT ![i] = Idle], UNCHANGED data
       PROVE  PInv'
  BY <1>4, <1>5, <1>6, <1>10
<1>11. CASE \E i \in Polls : Poll(i) \/ PollArrives(i) \/ PollFails(i)
  BY <1>8, <1>9, <1>10, <1>11 DEF Poll, PollArrives, PollFails, Requests
<1>12. CASE ResetConfirmed \/ ResetDone \/ ResetFails
  BY <1>8, <1>9, <1>10, <1>12 DEF ResetConfirmed, ResetDone, ResetFails, Requests
<1>13. CASE UNCHANGED <<data, request>>
  BY <1>2, <1>4, <1>13
<1>14. CASE ~UNCHANGED <<data, request>>
  <2>1. \/ \E i \in Requests : ReadStatus(i)
        \/ \E i \in Polls : Poll(i) \/ PollArrives(i) \/ PollFails(i)
        \/ ResetConfirmed \/ ResetDone \/ ResetFails
    BY <1>14 DEF Next, vars, pageVars, Bootstrapped, BootstrapFails, HasSession, RelayFetched,
       Posted, RoundFails, PauseOver, Sampled, RecordTelemetry, LogReply, Tick, StoreReset,
       OnResetUsage
  <2>2. QED
    BY <1>7, <1>11, <1>12, <2>1
<1>15. QED
  BY <1>13, <1>14

LEMMA PInvInvariant == Spec => [](TInv /\ PInv)
<1>1. Spec => []TInv
  BY TInvInvariant
<1>2. QED
  BY <1>1, InitPInv, NextPInv, PTL DEF Spec

\* ReadsForward: whatever the number of polls that overlap, and in whatever
\* order reports reach the table, an answer is never older than what the page
\* showed when it asked.
THEOREM AnswersAreNotOlder == Spec => []ReadsForward
<1>1. TInv /\ PInv => ReadsForward
  <2> SUFFICES ASSUME TInv, PInv, NEW i \in Requests, request[i].step = "read"
               PROVE  /\ request[i].reply.snapshot >= request[i].seen.snapshot
                      /\ \/ request[i].reply.window > request[i].seen.window
                         \/ request[i].reply.replies >= request[i].seen.replies
    BY DEF ReadsForward
  <2>1. NotBefore(request[i].reply, request[i].seen)
    BY DEF PInv, OfThePast
  <2>2. QED
    BY <2>1 DEF NotBefore
<1>2. QED
  BY <1>1, PInvInvariant, PTL
=============================================================================
