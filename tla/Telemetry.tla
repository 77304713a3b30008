----------------------------- MODULE Telemetry -----------------------------
(***************************************************************************)
(* How the state of the host reaches the dashboard: diag-probe samples it  *)
(* and sends reports through the relay to the agent, the agent stores them *)
(* and its replies in SQLite, the web application reads these tables       *)
(* (lib/state-db.ts, app/api/status), and the page app/page.tsx polls.     *)
(*                                                                         *)
(* The relay and Signal are external here: a report that the relay has     *)
(* accepted reaches the agent at any time, in any order, or never.  Each   *)
(* statement on the tables is one step.  Times are those of Date.now(), in *)
(* milliseconds, which several steps can share.                            *)
(***************************************************************************)
EXTENDS Integers, FiniteSets, Sequences, SequencesExt

CONSTANTS
  Samples,    \* what the files of /proc can show: times of the CPU, and memory
  NoSample,   \* lastCpuSample is null
  NoData,     \* data is null
  MaxPolls,   \* bound on the polls of the page that are under way at a time
  MaxInputs   \* bound: rounds of the probe, replies that are logged, resets,
              \* milliseconds, a failed bootstrap and failures of the page's calls,
              \* together

ASSUME TelemetryAssumption ==
  /\ Samples \subseteq [idle : Nat, total : Nat, memTotal : Nat, memAvail : Nat]
  /\ NoSample \notin Samples
  /\ MaxPolls \in Nat /\ MaxInputs \in Nat

Rounds == 1..MaxInputs      \* also the times at which reports are created
Polls == 1..MaxPolls
Requests == {0} \cup Polls  \* requests for the status; 0 is that of a reset
Times == 1..MaxInputs + 1

Status == [snapshot : {0} \cup Rounds, replies : 0..MaxInputs, window : {0} \cup Times]

VARIABLES
  probe,         \* where the loop of the probe is
  round,         \* its round
  sampling,      \* the files of /proc are being read
  lastCpuSample, \* the sample of the module
  lastRead,      \* the last sample that was taken (history)
  host,          \* host metrics of this round: percentages, and their history
  reports,       \* reports[k]: the report that the relay accepted in round k
  snapshots,     \* snapshots: creation times, in order of insertion
  rejected,      \* reports that the agent could not decode
  now,           \* Date.now()
  log,           \* chat_messages ("out") and usage_resets, in order of insertion
  data,          \* what the page shows
  resetInfo,     \* the time of the reset that the page has confirmed, or 0
  reset,         \* onResetUsage: its step, and the time that it was given
  request,       \* request[i]: a request of the page for the status, and what
                 \* the page showed when it was sent (history)
  faults         \* how much of the bound is used

probeVars == <<probe, round, sampling, lastCpuSample, lastRead, host>>
agentVars == <<reports, snapshots, rejected, now, log>>
pageVars == <<data, resetInfo, reset, request>>
vars == <<probeVars, agentVars, pageVars, faults>>

NoHost == [cpuPct |-> 0, memPct |-> 0, odd |-> FALSE]

NoStatus == [snapshot |-> 0, replies |-> 0, window |-> 0]

Idle == [step |-> "none", reply |-> NoStatus, seen |-> NoStatus]

TypeOK ==
  /\ probe \in {"boot", "session", "collect", "relayKnown", "post", "pause", "exited"}
  /\ round \in {0} \cup Rounds
  /\ sampling \in BOOLEAN
  /\ {lastCpuSample, lastRead} \subseteq Samples \cup {NoSample}
  /\ host \in [cpuPct : Int, memPct : Int, odd : BOOLEAN]
  /\ DOMAIN reports \subseteq Rounds
  /\ snapshots \in Seq(Rounds)
  /\ rejected \subseteq Rounds
  /\ now \in Times
  /\ log \in Seq([kind : {"out", "reset"}, at : Times])
  /\ data \in Status \cup {NoData}
  /\ resetInfo \in {0} \cup Times
  /\ reset \in [step : {"idle", "posted", "stored", "fetching"}, at : {0} \cup Times]
  /\ request \in [Requests -> [step : {"none", "asked", "read"}, reply : Status, seen : Status]]
  /\ faults \in 0..MaxInputs

Init ==
  /\ probe = "boot" /\ round = 0 /\ sampling = FALSE
  /\ lastCpuSample = NoSample /\ lastRead = NoSample /\ host = NoHost
  /\ reports = <<>> /\ snapshots = <<>> /\ rejected = {}
  /\ now = 1 /\ log = <<>>
  /\ data = NoData /\ resetInfo = 0
  /\ reset = [step |-> "idle", at |-> 0]
  /\ request = [i \in Requests |-> Idle]
  /\ faults = 0

Spent == round + Len(log) + now - 1 + faults

Input == Spent < MaxInputs

Fault == Input /\ faults' = faults + 1

-----------------------------------------------------------------------------
(* diag-probe: main and publishTelemetry.                                  *)

Bootstrapped ==
  /\ probe = "boot"
  /\ Input
  /\ probe' = "session"
  /\ round' = 1
  /\ UNCHANGED <<sampling, lastCpuSample, lastRead, host, agentVars, pageVars, faults>>

\* ensureIdentityBootstrapped throws: exit code 1.
BootstrapFails ==
  /\ probe = "boot"
  /\ Fault
  /\ probe' = "exited"
  /\ UNCHANGED <<round, sampling, lastCpuSample, lastRead, host, agentVars, pageVars>>

\* There is a session: the files are read and the relay is asked, at once.
HasSession ==
  /\ probe = "session"
  /\ probe' = "collect"
  /\ sampling' = TRUE
  /\ UNCHANGED <<round, lastCpuSample, lastRead, host, agentVars, pageVars, faults>>

ComputeCpuPct(prev, next) ==
  LET idleDelta == next.idle - prev.idle
      totalDelta == next.total - prev.total
  IN IF totalDelta <= 0 THEN 0 ELSE ((totalDelta - idleDelta) * 100) \div totalDelta

\* parseMeminfo: a value that the file does not show is 0.  Swap is like memory.
MemPct(sample) ==
  IF sample.memTotal > 0
  THEN ((sample.memTotal - sample.memAvail) * 100) \div sample.memTotal
  ELSE 0

Busy(sample) == sample.total - sample.idle

\* sampleHostMetrics: the first sample is compared with nothing, and reports
\* the load average.
HostMetrics(sample) ==
  [cpuPct |-> IF lastCpuSample = NoSample THEN 0 ELSE ComputeCpuPct(lastCpuSample, sample),
   memPct |-> MemPct(sample),
   odd |-> \/ lastRead # NoSample /\ Busy(sample) < Busy(lastRead)
           \/ sample.memTotal < sample.memAvail]

\* Mutant of NextCpuSample: the sample of a round that has failed is dropped.
NextCpuSampleOfGoodRounds(sample) == IF probe = "pause" THEN lastCpuSample ELSE sample

NextCpuSample(sample) == sample

\* The files have been read, perhaps after the relay's answer failed the round.
Sampled(sample) ==
  /\ sampling
  /\ sampling' = FALSE
  /\ host' = HostMetrics(sample)
  /\ lastCpuSample' = NextCpuSample(sample)
  /\ lastRead' = sample
  /\ probe' = IF probe = "relayKnown" THEN "post" ELSE probe
  /\ UNCHANGED <<round, agentVars, pageVars, faults>>

\* fetchRelaySnapshot succeeds.
RelayFetched ==
  /\ probe = "collect"
  /\ probe' = IF sampling THEN "relayKnown" ELSE "post"
  /\ UNCHANGED <<round, sampling, lastCpuSample, lastRead, host, agentVars, pageVars, faults>>

\* The report is encrypted, and the relay accepts it.
Accept ==
  reports' = [k \in DOMAIN reports \cup {round} |-> IF k = round THEN host ELSE reports[k]]

Posted ==
  /\ probe = "post"
  /\ Accept
  /\ probe' = "pause"
  /\ UNCHANGED <<round, sampling, lastCpuSample, lastRead, host, snapshots, rejected,
                 now, log, pageVars, faults>>

\* Mutant of RoundFails: nothing catches the error.
RoundFailsUncaught ==
  /\ probe \in {"session", "collect", "post"}
  /\ probe' = "exited"
  /\ UNCHANGED <<round, sampling, lastCpuSample, lastRead, host, agentVars, pageVars, faults>>

\* httpGetJson and httpPostJson, at which the round waits: they throw unless the
\* answer is ok.
InHttpCall == probe \in {"session", "collect", "post"}

\* A call of the round throws: the error is logged.  It can be the reading of
\* the files, or another call beside it, and of the POST only the response.
RoundFails ==
  /\ \/ InHttpCall /\ UNCHANGED sampling
     \/ probe \in {"collect", "relayKnown"} /\ sampling /\ sampling' = FALSE
  /\ \/ UNCHANGED reports
     \/ probe = "post" /\ Accept
  /\ probe' = "pause"
  /\ UNCHANGED <<round, lastCpuSample, lastRead, host, snapshots, rejected,
                 now, log, pageVars, faults>>

\* The interval is over; reading /proc takes less time than that.
PauseOver ==
  /\ probe = "pause"
  /\ ~sampling
  /\ Input
  /\ round' = round + 1
  /\ probe' = "session"
  /\ UNCHANGED <<sampling, lastCpuSample, lastRead, host, agentVars, pageVars, faults>>

-----------------------------------------------------------------------------
(* The agent: its tables.                                                  *)

\* HostMetricsSchema: percentages are not negative.
Valid(report) == report.cpuPct >= 0 /\ report.memPct >= 0

\* A report reaches handleMessage: it is decoded and stored.
RecordTelemetry(k) ==
  /\ k \in DOMAIN reports \ (Range(snapshots) \cup rejected)
  /\ IF Valid(reports[k])
     THEN snapshots' = Append(snapshots, k) /\ UNCHANGED rejected
     ELSE rejected' = rejected \cup {k} /\ UNCHANGED snapshots
  /\ UNCHANGED <<probeVars, reports, now, log, pageVars, faults>>

Insert(kind) ==
  /\ Input
  /\ log' = Append(log, [kind |-> kind, at |-> now])

\* A chat reply is logged.
LogReply ==
  /\ Insert("out")
  /\ UNCHANGED <<probeVars, reports, snapshots, rejected, now, pageVars, faults>>

Tick ==
  /\ Input
  /\ now' = now + 1
  /\ UNCHANGED <<probeVars, reports, snapshots, rejected, log, pageVars, faults>>

-----------------------------------------------------------------------------
(* The web application: lib/state-db.ts and app/api/status.                *)

\* Mutant of LatestSnapshot: the row with the greatest id.
LatestById == IF snapshots = <<>> THEN 0 ELSE Last(snapshots)

\* Mutant of LatestSnapshot: -1 stands for a missing row.
LatestSnapshotOrMinusOne ==
  IF snapshots = <<>> THEN 0 - 1
  ELSE CHOOSE k \in Range(snapshots) : \A l \in Range(snapshots) : l <= k

\* getLatestSnapshot: the row with the greatest created_at.
LatestSnapshot ==
  IF snapshots = <<>> THEN 0
  ELSE CHOOSE k \in Range(snapshots) : \A l \in Range(snapshots) : l <= k

Entries(kind) == {i \in DOMAIN log : log[i].kind = kind}

\* getUsageWindowStart: the greatest created_at of usage_resets, or 0.
UsageWindowStart ==
  LET at == {0} \cup {log[i].at : i \in Entries("reset")}
  IN CHOOSE t \in at : \A u \in at : u <= t

\* Mutant of Counted: the window contains its start.
CountedFromStart == {i \in Entries("out") : log[i].at >= UsageWindowStart}

\* The rows that getUsageTotals counts.
Counted == {i \in Entries("out") : log[i].at > UsageWindowStart}

CurrentStatus ==
  [snapshot |-> LatestSnapshot, replies |-> Cardinality(Counted), window |-> UsageWindowStart]

\* GET /api/status/current.
ReadStatus(i) ==
  /\ request[i].step = "asked"
  /\ request' = [request EXCEPT ![i].step = "read", ![i].reply = CurrentStatus]
  /\ UNCHANGED <<probeVars, agentVars, data, resetInfo, reset, faults>>

ResetUsageTotals == Insert("reset")

\* POST /api/status/usage/reset.
StoreReset ==
  /\ reset.step = "posted"
  /\ ResetUsageTotals
  /\ reset' = [step |-> "stored", at |-> now]
  /\ UNCHANGED <<probeVars, reports, snapshots, rejected, now, data, resetInfo,
                 request, faults>>

-----------------------------------------------------------------------------
(* The page.                                                               *)

Shown == IF data = NoData THEN NoStatus ELSE data

Ask(i) ==
  request' = [request EXCEPT ![i] = [step |-> "asked", reply |-> NoStatus, seen |-> Shown]]

\* Mutant of Poll: only while there is nothing to show.
PollOnce(i) ==
  /\ data = NoData
  /\ request[i].step = "none"
  /\ \A j \in Polls : j < i => request[j].step # "none"
  /\ Ask(i)
  /\ UNCHANGED <<probeVars, agentVars, data, resetInfo, reset, faults>>

\* load: at once, and whenever five seconds are over; earlier ones may still
\* be under way.
Poll(i) ==
  /\ request[i].step = "none"
  /\ \A j \in Polls : j < i => request[j].step # "none"
  /\ Ask(i)
  /\ UNCHANGED <<probeVars, agentVars, data, resetInfo, reset, faults>>

SetData(i) ==
  /\ data' = request[i].reply
  /\ request' = [request EXCEPT ![i] = Idle]

\* The response of a poll arrives.
PollArrives(i) ==
  /\ request[i].step = "read"
  /\ SetData(i)
  /\ UNCHANGED <<probeVars, agentVars, resetInfo, reset, faults>>

\* A poll fails: only the error is shown.
PollFails(i) ==
  /\ request[i].step \in {"asked", "read"}
  /\ Fault
  /\ request' = [request EXCEPT ![i] = Idle]
  /\ UNCHANGED <<probeVars, agentVars, data, resetInfo, reset>>

\* onResetUsage, unless one is under way.
OnResetUsage ==
  /\ reset.step = "idle"
  /\ reset' = [step |-> "posted", at |-> 0]
  /\ resetInfo' = 0
  /\ UNCHANGED <<probeVars, agentVars, data, request, faults>>

\* The reset is confirmed: the status is fetched again.
ResetConfirmed ==
  /\ reset.step = "stored"
  /\ reset' = [reset EXCEPT !.step = "fetching"]
  /\ Ask(0)
  /\ UNCHANGED <<probeVars, agentVars, data, resetInfo, faults>>

\* The new status arrives, and the reset is shown.
ResetDone ==
  /\ reset.step = "fetching"
  /\ request[0].step = "read"
  /\ SetData(0)
  /\ resetInfo' = reset.at
  /\ reset' = [step |-> "idle", at |-> 0]
  /\ UNCHANGED <<probeVars, agentVars, faults>>

\* A call of onResetUsage fails, with the marker stored or not.
ResetFails ==
  /\ reset.step # "idle"
  /\ Fault
  /\ reset' = [step |-> "idle", at |-> 0]
  /\ request' = [request EXCEPT ![0] = Idle]
  /\ UNCHANGED <<probeVars, agentVars, data, resetInfo>>

Next ==
  \/ Bootstrapped \/ BootstrapFails \/ HasSession \/ RelayFetched \/ Posted
  \/ RoundFails \/ PauseOver
  \/ \E sample \in Samples : Sampled(sample)
  \/ \E k \in Rounds : RecordTelemetry(k)
  \/ LogReply \/ Tick \/ StoreReset
  \/ \E i \in Requests : ReadStatus(i)
  \/ \E i \in Polls : Poll(i) \/ PollArrives(i) \/ PollFails(i)
  \/ OnResetUsage \/ ResetConfirmed \/ ResetDone \/ ResetFails

Spec == Init /\ [][Next]_vars

\* Reads of files end; HTTP calls of the probe and the polls of the page end,
\* with an answer or an error; and the page polls whenever the interval is over.
Fairness ==
  /\ WF_vars(\E sample \in Samples : Sampled(sample))
  /\ WF_vars(HasSession \/ RelayFetched \/ Posted \/ RoundFails)
  /\ WF_vars(\E i \in Polls : Poll(i))
  /\ \A i \in Polls : WF_vars(ReadStatus(i) \/ PollArrives(i) \/ PollFails(i))

FairSpec == Spec /\ Fairness

-----------------------------------------------------------------------------
(* Properties.                                                             *)

\* A response is never older than what the page showed when it asked, although
\* reports reach the table in any order: only polls that overlap can show an
\* older state after a newer one.
ReadsForward ==
  \A i \in Requests :
    LET reply == request[i].reply
        seen == request[i].seen
    IN request[i].step = "read" =>
         /\ reply.snapshot >= seen.snapshot
         /\ reply.window > seen.window \/ reply.replies >= seen.replies

LastReset == {i \in Entries("reset") : \A j \in Entries("reset") : j <= i}

\* The usage totals count no reply from before the last reset, and miss one
\* from after it only if both happened in the same millisecond.
UsageIsOfItsWindow ==
  /\ \A i \in Counted, r \in LastReset : r < i
  /\ \A i \in Entries("out") \ Counted :
       \E r \in LastReset : i < r \/ log[i].at = log[r].at

\* The agent rejects a report, which the probe believes sent, only if the kernel
\* said something odd: the busy time went backwards between two samples that the
\* probe took one after the other, whichever rounds in between have failed, or
\* there is less memory than is available.
RejectedReportHasCause == \A k \in rejected : reports[k].odd

\* The page catches up with the tables: once they do not change any more, it
\* comes to show them and stays there, and what it says of a reset agrees with
\* the usage beside it.  Answers that overlap, and an answer from before the
\* reset that arrives after its confirmation, put older totals back, but not
\* for good.
PageCatchesUp ==
  <>[][UNCHANGED <<snapshots, log>>]_vars
    => <>[](Shown = CurrentStatus /\ resetInfo <= Shown.window)

\* A round that has begun ends in the pause before the next one, whatever
\* fails; only the bootstrap can end the probe.
ProbeGoesOn == probe \in {"session", "collect", "relayKnown", "post"} ~> probe = "pause"
=============================================================================
