---------------------------- MODULE Pages_proofs ----------------------------
(***************************************************************************)
(* The pages of the web application that keep state of their own.          *)
(*                                                                         *)
(* TestRunner: type correctness and every invariant of the suite of tests  *)
(* (LockMatchesRun, RunningRowHasCause, RetentionHolds,                    *)
(* VerdictIsOfItsAttempt and AnalysedRunsAreWhole), for any number of      *)
(* tests, runs and tabs.                                                   *)
(*                                                                         *)
(* Demo: type correctness and every property of the demo page              *)
(* (OrderIsKept, ShownOnceBarFailures and NothingTypedIsLost), for any     *)
(* texts and any number of polls, failures and milliseconds.               *)
(***************************************************************************)
EXTENDS TestRunner, Demo, FiniteSetTheorems, SequenceTheorems, WellFoundedInduction, TLAPS

-----------------------------------------------------------------------------
(***************************************************************************)
(* What the operations are made of.                                        *)
(***************************************************************************)
LEMMA LastOfProperties ==
  ASSUME NEW S, NEW s \in Seq(S), NEW n \in Nat
  PROVE  /\ LastOf(s, n) \in Seq(S)
         /\ Len(LastOf(s, n)) <= n
         /\ Range(LastOf(s, n)) \subseteq Range(s)
<1>1. Len(s) \in Nat /\ DOMAIN s = 1..Len(s) /\ \A i \in 1..Len(s) : s[i] \in S
  BY LenProperties, ElementOfSeq
<1>2. CASE Len(s) <= n
  BY <1>1, <1>2 DEF LastOf
<1>3. CASE ~(Len(s) <= n)
  <2> DEFINE m == Len(s) - n + 1
             k == Len(s)
             t == SubSeq(s, m, k)
  <2>1. m \in Int /\ k \in Int /\ m <= k + 1 /\ 1 <= m /\ k - m + 1 = n
    BY <1>1, <1>3
  <2>2. \A i \in m..k : s[i] \in S
    BY <1>1, <2>1
  <2>3. /\ t \in Seq(S)
        /\ Len(t) = IF m <= k THEN k - m + 1 ELSE 0
        /\ \A i \in 1..(k - m + 1) : t[i] = s[m + i - 1]
    BY <2>1, <2>2, SubSeqProperties
  <2>4. Len(t) <= n
    BY <2>1, <2>3
  <2>5. ASSUME NEW x \in Range(t) PROVE x \in Range(s)
    <3>1. PICK i \in DOMAIN t : t[i] = x
      BY DEF Range
    <3>2. i \in 1..(k - m + 1)
      BY <2>1, <2>3, <3>1, LenProperties
    <3>3. m + i - 1 \in 1..Len(s) /\ s[m + i - 1] = x
      BY <1>1, <2>1, <2>3, <3>1, <3>2
    <3>4. QED
      BY <1>1, <3>3 DEF Range
  <2>6. LastOf(s, n) = t
    BY <1>3 DEF LastOf
  <2>7. QED
    BY <2>3, <2>4, <2>5, <2>6
<1>4. QED
  BY <1>1, <1>2, <1>3

LEMMA InRange ==
  ASSUME NEW S, NEW s \in Seq(S), NEW x
  PROVE  x \in Range(s) <=> \E i \in 1..Len(s) : s[i] = x
  BY LenProperties DEF Range

LEMMA RangeOfAppend ==
  ASSUME NEW S, NEW s \in Seq(S), NEW x \in S
  PROVE  /\ Append(s, x) \in Seq(S) /\ Len(Append(s, x)) = Len(s) + 1
         /\ Range(Append(s, x)) = Range(s) \cup {x}
<1>1. /\ Append(s, x) \in Seq(S) /\ Len(Append(s, x)) = Len(s) + 1 /\ Len(s) \in Nat
      /\ \A i \in 1..Len(s) : Append(s, x)[i] = s[i]
      /\ Append(s, x)[Len(s) + 1] = x
  BY AppendProperties, LenProperties
<1>2. \A y : y \in Range(Append(s, x)) <=> y \in Range(s) \cup {x}
  <2> SUFFICES ASSUME NEW y PROVE y \in Range(Append(s, x)) <=> y \in Range(s) \cup {x}
    OBVIOUS
  <2>1. y \in Range(Append(s, x)) <=> \E i \in 1..(Len(s) + 1) : Append(s, x)[i] = y
    <3> DEFINE t == Append(s, x)
    <3>1. t \in Seq(S) /\ Len(t) = Len(s) + 1
      BY <1>1
    <3> HIDE DEF t
    <3>2. y \in Range(t) <=> \E i \in 1..Len(t) : t[i] = y
      BY <3>1, InRange
    <3>3. QED
      BY <3>1, <3>2 DEF t
  <2>2. y \in Range(s) <=> \E i \in 1..Len(s) : s[i] = y
    BY InRange
  <2>3. (\E i \in 1..(Len(s) + 1) : Append(s, x)[i] = y) <=> (\E i \in 1..Len(s) : s[i] = y) \/ y = x
    <3>1. ASSUME NEW i \in 1..(Len(s) + 1), Append(s, x)[i] = y
          PROVE  (\E j \in 1..Len(s) : s[j] = y) \/ y = x
      <4>1. i \in 1..Len(s) \/ i = Len(s) + 1
        BY <1>1
      <4>2. QED
        BY <1>1, <3>1, <4>1
    <3>2. ASSUME NEW i \in 1..Len(s), s[i] = y
          PROVE  \E j \in 1..(Len(s) + 1) : Append(s, x)[j] = y
      <4>1. i \in 1..(Len(s) + 1) /\ Append(s, x)[i] = y
        BY <1>1, <3>2
      <4>2. QED
        BY <4>1
    <3>3. Len(s) + 1 \in 1..(Len(s) + 1)
      BY <1>1
    <3>4. QED
      BY <1>1, <3>1, <3>2, <3>3
  <2>4. QED
    BY <2>1, <2>2, <2>3
<1>3. QED
  BY <1>1, <1>2

\* A set of positions has no more than all of them.
LEMMA CountBound ==
  ASSUME NEW n \in Nat, NEW P \in SUBSET (1..n)
  PROVE  Cardinality(P) \in 0..n
<1>1. IsFiniteSet(1..n) /\ Cardinality(1..n) = n
  BY FS_Interval
<1>2. Cardinality(P) \in Nat /\ Cardinality(P) <= Cardinality(1..n)
  BY <1>1, FS_Subset, FS_CardinalityType
<1>3. QED
  BY <1>1, <1>2

LEMMA SummaryType ==
  ASSUME NEW r \in Runs, NEW results \in Seq(Results), Len(results) <= NTests
  PROVE  Summary(r, results) \in Rows
<1>1. Len(results) \in Nat /\ DOMAIN results = 1..Len(results)
  BY LenProperties
<1>2. \A P \in SUBSET DOMAIN results : Cardinality(P) \in 0..NTests
  BY <1>1, CountBound, TestRunnerAssumption
<1>3. /\ {i \in DOMAIN results : results[i].status = "passed"} \in SUBSET DOMAIN results
      /\ {i \in DOMAIN results : results[i].status = "failed"} \in SUBSET DOMAIN results
      /\ {i \in DOMAIN results : results[i].attempt > 1} \in SUBSET DOMAIN results
  OBVIOUS
<1>4. QED
  BY <1>2, <1>3 DEF Summary, Rows

-----------------------------------------------------------------------------
(***************************************************************************)
(* Types, and what a run in progress has behind it: a result of every      *)
(* earlier test, a retry only after the first attempt.                     *)
(***************************************************************************)
Behind ==
  \A r \in Runs : runner[r].pc \in {"new", "race", "pause"} =>
    /\ Len(runner[r].results) = runner[r].test - 1
    /\ runner[r].pc = "pause" => runner[r].attempt < maxAttempts

TInv == TypeOK /\ Behind

LEMMA InitTInv == Init => TInv
<1> SUFFICES ASSUME Init PROVE TInv
  OBVIOUS
<1>1. 1 \in Tests /\ NTests \in Nat
  BY TestRunnerAssumption DEF Tests
<1>2. runner \in [Runs -> RunnerStates]
  BY <1>1, EmptySeq DEF Init, RunnerStates, maxAttempts
<1>3. /\ EarlierRuns \in Seq(Runs) /\ Len(EarlierRuns) \in Nat
      /\ DOMAIN EarlierRuns = 1..Len(EarlierRuns)
      /\ \A i \in DOMAIN EarlierRuns : EarlierRuns[i] \in Runs
  BY TestRunnerAssumption, LenProperties, ElementOfSeq
<1>4. Earlier \subseteq Runs
  BY <1>3 DEF Earlier, Range
<1>5. rows \in Seq(Rows)
  <2>1. \A i \in 1..Len(EarlierRuns) : rows[i] \in Rows
    BY <1>1, <1>3 DEF Init, Rows
  <2>2. rows = [i \in 1..Len(EarlierRuns) |-> rows[i]]
    BY <1>3 DEF Init
  <2>3. QED
    BY <1>3, <2>1, <2>2
<1>6. executing \subseteq Calls /\ won \subseteq Calls
  BY <1>4 DEF Init, Calls, maxAttempts
<1>7. saved \subseteq [run : Runs, result : Results]
  BY <1>4 DEF Init, PassedAt, Results, maxAttempts
<1>8. /\ isRunning \in BOOLEAN /\ currentRunId \in Runs \cup {NoRun}
      /\ stream \in [Runs -> {"none", "open", "completed", "error", "broken"}]
      /\ tab \in [Tabs -> [running : BOOLEAN, run : Runs \cup {NoRun},
                           shows : {"nothing", "summary", "error"}]]
  BY DEF Init
<1>9. faults \in 0..MaxFaults /\ crashes \in 0..MaxCrashes
  BY TestRunnerAssumption DEF Init
<1>10. Behind
  <2>1. Len(<<>>) = 1 - 1
    BY EmptySeq
  <2>2. QED
    BY <2>1 DEF Init, Behind
<1>11. QED
  BY <1>2, <1>5, <1>6, <1>7, <1>8, <1>9, <1>10 DEF TInv, TypeOK

\* The table after createTestRun.
LEMMA CreateType ==
  ASSUME TypeOK, NEW r \in Runs, NEW done \in 0..3, CreateTestRun(r, done)
  PROVE  rows' \in Seq(Rows) /\ saved' \subseteq [run : Runs, result : Results]
<1>1. rows \in Seq(Rows) /\ KeptRuns \in Nat
  BY TestRunnerAssumption DEF TypeOK
<1>2. RowsKept \in Seq(Rows)
  BY <1>1, LastOfProperties DEF RowsKept
<1>3. NewRow(r) \in Rows
  BY TestRunnerAssumption DEF NewRow, Rows
<1>4. Append(RowsKept, NewRow(r)) \in Seq(Rows)
  BY <1>2, <1>3, AppendProperties
<1>5. saved' \subseteq [run : Runs, result : Results]
  BY DEF CreateTestRun, ResultsKept, TypeOK
<1>6. done = 0 \/ done = 1 \/ done = 2 \/ done = 3
  OBVIOUS
<1>7. QED
  BY <1>1, <1>2, <1>4, <1>5, <1>6 DEF CreateTestRun

\* The table after completeTestRun.
LEMMA CompleteType ==
  ASSUME TypeOK, NEW r \in Runs, NEW results \in Seq(Results), Len(results) <= NTests,
         CompleteTestRun(r, results)
  PROVE  /\ rows' \in Seq(Rows) /\ Len(rows') = Len(rows)
         /\ \A i \in 1..Len(rows) :
              rows'[i] = IF rows[i].run = r THEN Summary(r, results) ELSE rows[i]
<1>1. /\ rows \in Seq(Rows) /\ Len(rows) \in Nat /\ DOMAIN rows = 1..Len(rows)
      /\ \A i \in 1..Len(rows) : rows[i] \in Rows
  BY LenProperties, ElementOfSeq DEF TypeOK
<1>2. Summary(r, results) \in Rows
  BY SummaryType
<1>3. rows' = [i \in 1..Len(rows) |-> IF rows[i].run = r THEN Summary(r, results) ELSE rows[i]]
  BY <1>1 DEF CompleteTestRun
<1>4. \A i \in 1..Len(rows) : (IF rows[i].run = r THEN Summary(r, results) ELSE rows[i]) \in Rows
  BY <1>1, <1>2
<1>5. rows' \in Seq(Rows) /\ Len(rows') = Len(rows)
  BY <1>1, <1>3, <1>4
<1>6. QED
  BY <1>3, <1>5

\* The run r moves on, and no other.
Goes(r, pc, test, attempt) ==
  /\ runner' \in [Runs -> RunnerStates]
  /\ \A x \in Runs : x # r => runner'[x] = runner[x]
  /\ runner'[r].pc = pc /\ runner'[r].test = test /\ runner'[r].attempt = attempt

Verdict(r, status) ==
  [run |-> r, result |-> [test |-> runner[r].test, status |-> status,
                          attempt |-> runner[r].attempt]]

\* The results of the run r with that of its current test.
ResultsWith(r, status) == Append(runner[r].results, Verdict(r, status).result)

LEMMA GoesPc ==
  ASSUME TypeOK, NEW r \in Runs,
         NEW pc \in {"new", "race", "pause", "completed", "rejected", "lost"},
         runner' = [runner EXCEPT ![r].pc = pc]
  PROVE  /\ Goes(r, pc, runner[r].test, runner[r].attempt)
         /\ runner'[r].results = runner[r].results
<1> DEFINE x == [runner[r] EXCEPT !.pc = pc]
<1>1. runner[r] \in RunnerStates
  BY DEF TypeOK
<1>2. /\ x \in RunnerStates /\ x.pc = pc /\ x.test = runner[r].test
      /\ x.attempt = runner[r].attempt /\ x.results = runner[r].results
  BY <1>1 DEF RunnerStates
<1>3. runner' = [runner EXCEPT ![r] = x]
  OBVIOUS
<1> HIDE DEF x
<1>4. QED
  BY <1>2, <1>3 DEF TypeOK, Goes

LEMMA RunnerType ==
  ASSUME TypeOK, NEW r \in Runs
  PROVE  /\ runner[r] \in RunnerStates
         /\ runner[r].test \in Tests /\ runner[r].attempt \in 1..maxAttempts
         /\ runner[r].results \in Seq(Results)
         /\ runner[r].test \in 1..NTests /\ NTests \in Nat
  BY TestRunnerAssumption DEF TypeOK, RunnerStates, Tests

LEMMA RetryGoes ==
  ASSUME TypeOK, NEW r \in Runs, Retry(r), runner[r].attempt + 1 \in 1..maxAttempts
  PROVE  /\ Goes(r, "race", runner[r].test, runner[r].attempt + 1)
         /\ runner'[r].results = runner[r].results
<1> DEFINE x == [runner[r] EXCEPT !.pc = "race", !.attempt = @ + 1]
<1>1. runner[r] \in RunnerStates
  BY RunnerType
<1>2. /\ x \in RunnerStates /\ x.pc = "race" /\ x.test = runner[r].test
      /\ x.attempt = runner[r].attempt + 1 /\ x.results = runner[r].results
  BY <1>1 DEF RunnerStates
<1>3. runner' = [runner EXCEPT ![r] = x]
  BY DEF Retry
<1> HIDE DEF x
<1>4. QED
  BY <1>2, <1>3 DEF TypeOK, Goes

\* How a test ends: the next one is called, the run is completed, or a
\* statement of the database throws.
LEMMA TestDoneOutcome ==
  ASSUME TypeOK, Behind, NEW r \in Runs, runner[r].pc = "race",
         NEW status \in {"passed", "failed"}, NEW calls, TestDone(r, status, calls)
  PROVE  \/ /\ saved' = saved \cup {Verdict(r, status)}
            /\ Goes(r, "race", runner[r].test + 1, 1)
            /\ Len(runner'[r].results) = runner[r].test
            /\ runner'[r].results = ResultsWith(r, status)
            /\ <<r, runner[r].test + 1, 1>> \in Calls
            /\ executing' = calls \cup {<<r, runner[r].test + 1, 1>>}
            /\ UNCHANGED <<isRunning, currentRunId, rows, stream, faults>>
         \/ /\ saved' = saved \cup {Verdict(r, status)}
            /\ ResultsWith(r, status) \in Seq(Results)
            /\ Len(ResultsWith(r, status)) = NTests
            /\ CompleteTestRun(r, ResultsWith(r, status))
            /\ Goes(r, "completed", runner[r].test, runner[r].attempt)
            /\ executing' = calls /\ Release /\ Send(r, "completed") /\ UNCHANGED faults
         \/ /\ saved' \in {saved, saved \cup {Verdict(r, status)}}
            /\ Goes(r, "rejected", runner[r].test, runner[r].attempt)
            /\ executing' = calls /\ Release /\ Send(r, "error") /\ UNCHANGED rows
            /\ faults < MaxFaults /\ faults' = faults + 1
<1> DEFINE me == runner[r]
           result == [test |-> me.test, status |-> status, attempt |-> me.attempt]
           results == Append(me.results, result)
<1>1. /\ me \in RunnerStates /\ me.test \in Tests /\ me.attempt \in 1..maxAttempts
      /\ me.results \in Seq(Results) /\ me.test \in 1..NTests /\ NTests \in Nat
  BY RunnerType
<1>2. result \in Results
  BY <1>1 DEF Results
<1>3. results \in Seq(Results) /\ Len(results) = Len(me.results) + 1
  BY <1>1, <1>2, AppendProperties
<1>4. Len(me.results) = me.test - 1
  BY DEF Behind
<1>5. Len(results) = me.test /\ Len(results) <= NTests
  BY <1>1, <1>3, <1>4
<1>6. Inserted(r, result) = saved \cup {Verdict(r, status)} /\ results = ResultsWith(r, status)
  BY DEF Inserted, Verdict, ResultsWith
<1>7. CASE /\ saved' = Inserted(r, result) /\ me.test < NTests
           /\ runner' = [runner EXCEPT ![r] = [pc |-> "race", test |-> me.test + 1, attempt |-> 1,
                                               results |-> results]]
           /\ executing' = calls \cup {<<r, me.test + 1, 1>>}
           /\ KeepLock /\ UNCHANGED <<rows, stream, faults>>
  <2>1. me.test + 1 \in Tests /\ 1 \in 1..maxAttempts
    BY <1>1, <1>7 DEF Tests, maxAttempts
  <2>2. [pc |-> "race", test |-> me.test + 1, attempt |-> 1, results |-> results] \in RunnerStates
    BY <1>3, <2>1 DEF RunnerStates
  <2>3. Goes(r, "race", me.test + 1, 1) /\ runner'[r].results = results
    <3> HIDE DEF results, me
    <3>1. QED
      BY <1>7, <2>2 DEF TypeOK, Goes
  <2>4. <<r, me.test + 1, 1>> \in Calls
    BY <2>1 DEF Calls
  <2>5. QED
    BY <1>5, <1>6, <1>7, <2>3, <2>4 DEF KeepLock
<1>8. CASE /\ saved' = Inserted(r, result) /\ me.test = NTests /\ CompleteTestRun(r, results)
           /\ runner' = [runner EXCEPT ![r].pc = "completed", ![r].results = <<>>]
           /\ executing' = calls /\ Release /\ Send(r, "completed") /\ UNCHANGED faults
  <2>1. <<>> \in Seq(Results)
    BY EmptySeq
  <2>2. Goes(r, "completed", me.test, me.attempt)
    <3>1. [runner[r] EXCEPT !.pc = "completed", !.results = <<>>] \in RunnerStates
      BY <1>1, <2>1 DEF RunnerStates
    <3>2. /\ [runner[r] EXCEPT !.pc = "completed", !.results = <<>>].pc = "completed"
          /\ [runner[r] EXCEPT !.pc = "completed", !.results = <<>>].test = me.test
          /\ [runner[r] EXCEPT !.pc = "completed", !.results = <<>>].attempt = me.attempt
      BY <1>1 DEF RunnerStates
    <3>3. runner' = [runner EXCEPT ![r] = [runner[r] EXCEPT !.pc = "completed", !.results = <<>>]]
      BY <1>8
    <3> HIDE DEF me, results, result
    <3>4. QED
      BY <3>1, <3>2, <3>3 DEF TypeOK, Goes
  <2>3. QED
    BY <1>3, <1>5, <1>6, <1>8, <2>2
<1>9. CASE /\ saved' \in {saved} \cup {x \in {Inserted(r, result)} : me.test = NTests}
           /\ executing' = calls /\ Reject(r) /\ UNCHANGED rows
  <2>1. Goes(r, "rejected", me.test, me.attempt)
    BY <1>9, GoesPc DEF Reject
  <2>2. QED
    BY <1>6, <1>9, <2>1 DEF Reject
<1>10. QED
  BY <1>7, <1>8, <1>9 DEF TestDone

\* An attempt fails: the run pauses, or the test is done.
LEMMA AttemptFailedOutcome ==
  ASSUME TypeOK, NEW r \in Runs, NEW calls, AttemptFailed(r, calls)
  PROVE  \/ /\ Goes(r, "pause", runner[r].test, runner[r].attempt)
            /\ runner'[r].results = runner[r].results /\ runner[r].attempt < maxAttempts
            /\ executing' = calls
            /\ UNCHANGED <<isRunning, currentRunId, rows, saved, stream, faults>>
         \/ runner[r].attempt = maxAttempts /\ TestDone(r, "failed", calls)
<1>1. runner[r].attempt \in 1..maxAttempts
  BY RunnerType
<1>2. CASE runner[r].attempt < maxAttempts
  BY <1>2, GoesPc DEF AttemptFailed, KeepLock
<1>3. CASE ~(runner[r].attempt < maxAttempts)
  BY <1>1, <1>3 DEF AttemptFailed, maxAttempts
<1>4. QED
  BY <1>2, <1>3

LEMMA GoesBehind ==
  ASSUME TypeOK, Behind, NEW r \in Runs, NEW pc, NEW test, NEW attempt,
         Goes(r, pc, test, attempt),
         pc \in {"new", "race", "pause"} => Len(runner'[r].results) = test - 1,
         pc = "pause" => attempt < maxAttempts
  PROVE  Behind'
  BY DEF Behind, Goes

LEMMA SendType ==
  ASSUME TypeOK, NEW r \in Runs, NEW event \in {"completed", "error"}, Send(r, event)
  PROVE  stream' \in [Runs -> {"none", "open", "completed", "error", "broken"}]
  BY DEF TypeOK, Send

LEMMA VerdictType ==
  ASSUME TypeOK, NEW r \in Runs, NEW status \in {"passed", "failed"}
  PROVE  saved \cup {Verdict(r, status)} \subseteq [run : Runs, result : Results]
  BY RunnerType DEF TypeOK, Verdict, Results

\* The conjuncts of TypeOK that the end of a test or of an attempt changes.
RunTypes ==
  /\ isRunning \in BOOLEAN /\ currentRunId \in Runs \cup {NoRun}
  /\ runner \in [Runs -> RunnerStates] /\ executing \subseteq Calls
  /\ rows \in Seq(Rows) /\ saved \subseteq [run : Runs, result : Results]
  /\ stream \in [Runs -> {"none", "open", "completed", "error", "broken"}]
  /\ faults \in 0..MaxFaults

LEMMA TestDoneTypes ==
  ASSUME TypeOK, Behind, NEW r \in Runs, runner[r].pc = "race",
         NEW status \in {"passed", "failed"}, NEW calls \in SUBSET Calls,
         TestDone(r, status, calls)
  PROVE  RunTypes' /\ Behind'
<1>1. CASE /\ saved' = saved \cup {Verdict(r, status)}
           /\ Goes(r, "race", runner[r].test + 1, 1)
           /\ Len(runner'[r].results) = runner[r].test
           /\ <<r, runner[r].test + 1, 1>> \in Calls
           /\ executing' = calls \cup {<<r, runner[r].test + 1, 1>>}
           /\ UNCHANGED <<isRunning, currentRunId, rows, stream, faults>>
  <2>1. RunTypes'
    <3>1. saved' \subseteq [run : Runs, result : Results]
      BY <1>1, VerdictType
    <3>2. executing' \subseteq Calls
      BY <1>1
    <3>3. runner' \in [Runs -> RunnerStates]
      BY <1>1 DEF Goes
    <3>4. QED
      BY <1>1, <3>1, <3>2, <3>3 DEF TypeOK, RunTypes
  <2>2. runner[r].test + 1 - 1 = runner[r].test
    BY RunnerType
  <2>3. Behind'
    BY <1>1, <2>2, GoesBehind
  <2>4. QED
    BY <2>1, <2>3
<1>2. ASSUME NEW results \in Seq(Results),
             /\ saved' = saved \cup {Verdict(r, status)}
             /\ Len(results) <= NTests /\ CompleteTestRun(r, results)
             /\ Goes(r, "completed", runner[r].test, runner[r].attempt)
             /\ executing' = calls /\ Release /\ Send(r, "completed") /\ UNCHANGED faults
      PROVE  RunTypes' /\ Behind'
  <2>1. RunTypes'
    BY <1>2, VerdictType, CompleteType, SendType DEF TypeOK, RunTypes, Goes, Release
  <2>2. Behind'
    BY <1>2, GoesBehind
  <2>3. QED
    BY <2>1, <2>2
<1>3. CASE /\ saved' \in {saved, saved \cup {Verdict(r, status)}}
           /\ Goes(r, "rejected", runner[r].test, runner[r].attempt)
           /\ executing' = calls /\ Release /\ Send(r, "error") /\ UNCHANGED rows
           /\ faults < MaxFaults /\ faults' = faults + 1
  <2>1. saved' \subseteq [run : Runs, result : Results]
    BY <1>3, VerdictType DEF TypeOK
  <2>2. stream' \in [Runs -> {"none", "open", "completed", "error", "broken"}]
    BY <1>3, SendType
  <2>3. faults' \in 0..MaxFaults
    BY <1>3, TestRunnerAssumption DEF TypeOK
  <2>4. RunTypes'
    BY <1>3, <2>1, <2>2, <2>3 DEF TypeOK, RunTypes, Goes, Release
  <2>5. Behind'
    BY <1>3, GoesBehind
  <2>6. QED
    BY <2>4, <2>5
<1>4. QED
  BY <1>1, <1>2, <1>3, TestDoneOutcome

LEMMA AttemptFailedTypes ==
  ASSUME TypeOK, Behind, NEW r \in Runs, runner[r].pc = "race",
         NEW calls \in SUBSET Calls, AttemptFailed(r, calls)
  PROVE  RunTypes' /\ Behind'
<1>1. CASE /\ Goes(r, "pause", runner[r].test, runner[r].attempt)
           /\ runner'[r].results = runner[r].results /\ runner[r].attempt < maxAttempts
           /\ executing' = calls
           /\ UNCHANGED <<isRunning, currentRunId, rows, saved, stream, faults>>
  <2>1. RunTypes'
    BY <1>1 DEF TypeOK, RunTypes, Goes
  <2>2. Len(runner'[r].results) = runner[r].test - 1
    BY <1>1 DEF Behind
  <2>3. QED
    BY <1>1, <2>1, <2>2, GoesBehind
<1>2. CASE TestDone(r, "failed", calls)
  BY <1>2, TestDoneTypes
<1>3. QED
  BY <1>1, <1>2, AttemptFailedOutcome

LEMMA RunTypesSuffice ==
  ASSUME TypeOK, RunTypes', won' \in SUBSET Calls, tab' = tab, crashes' = crashes
  PROVE  TypeOK'
  BY DEF TypeOK, RunTypes

LEMMA CallType ==
  ASSUME TypeOK, NEW call \in executing
  PROVE  call \in Calls /\ call[1] \in Runs /\ executing \ {call} \in SUBSET Calls
  BY DEF TypeOK, Calls

LEMMA GetRunTInv ==
  ASSUME TInv, NEW t \in Tabs, NEW r \in Runs, GetRun(t, r)
  PROVE  TInv'
<1> USE DEF TInv
<1>1. runner[r].pc = "new" /\ UNCHANGED <<won, crashes>>
  BY DEF GetRun
<1>2. tab' \in [Tabs -> [running : BOOLEAN, run : Runs \cup {NoRun},
                         shows : {"nothing", "summary", "error"}]]
  BY DEF GetRun, TypeOK
<1>3. CASE /\ CreateTestRun(r, 3) /\ isRunning' = TRUE /\ currentRunId' = r
           /\ runner' = [runner EXCEPT ![r].pc = "race"]
           /\ Call(r, 1, 1) /\ stream' = [stream EXCEPT ![r] = "open"] /\ UNCHANGED faults
  <2>1. <<r, 1, 1>> \in Calls
    BY TestRunnerAssumption DEF Calls, Tests, maxAttempts
  <2>2. executing' \subseteq Calls
    BY <1>3, <2>1 DEF Call, TypeOK
  <2>3. rows' \in Seq(Rows) /\ saved' \subseteq [run : Runs, result : Results]
    BY <1>3, CreateType
  <2>4. Goes(r, "race", runner[r].test, runner[r].attempt)
        /\ runner'[r].results = runner[r].results
    BY <1>3, GoesPc
  <2>5. TypeOK'
    BY <1>1, <1>2, <1>3, <2>2, <2>3, <2>4 DEF TypeOK, Goes
  <2>6. Behind'
    BY <1>1, <2>4, GoesBehind DEF Behind
  <2>7. QED
    BY <2>5, <2>6
<1>4. CASE /\ faults < MaxFaults /\ \E done \in 0..2 : CreateTestRun(r, done)
           /\ faults' = faults + 1 /\ runner' = [runner EXCEPT ![r].pc = "rejected"]
           /\ Release /\ stream' = [stream EXCEPT ![r] = "error"] /\ UNCHANGED executing
  <2>1. \A done \in 0..2 : done \in 0..3
    OBVIOUS
  <2>2. rows' \in Seq(Rows) /\ saved' \subseteq [run : Runs, result : Results]
    BY <1>4, <2>1, CreateType
  <2>3. Goes(r, "rejected", runner[r].test, runner[r].attempt)
    BY <1>4, GoesPc
  <2>4. faults' \in 0..MaxFaults
    BY <1>4, TestRunnerAssumption DEF TypeOK
  <2>5. TypeOK'
    BY <1>1, <1>2, <1>4, <2>2, <2>3, <2>4 DEF TypeOK, Goes, Release
  <2>6. Behind'
    BY <2>3, GoesBehind
  <2>7. QED
    BY <2>5, <2>6
<1>5. QED
  BY <1>3, <1>4 DEF GetRun

LEMMA NextTInv == TInv /\ [Next]_vars => TInv'
<1> SUFFICES ASSUME TInv, [Next]_vars PROVE TInv'
  OBVIOUS
<1> USE DEF TInv
<1>1. CASE UNCHANGED vars
  BY <1>1 DEF vars, TypeOK, Behind
<1>2. ASSUME NEW t \in Tabs, NEW r \in Runs, GetRun(t, r) PROVE TInv'
  BY <1>2, GetRunTInv
<1>3. ASSUME NEW t \in Tabs, GetRunRefused(t) \/ TabHears(t) PROVE TInv'
  <2>1. tab' \in [Tabs -> [running : BOOLEAN, run : Runs \cup {NoRun},
                           shows : {"nothing", "summary", "error"}]]
    <3>1. CASE GetRunRefused(t)
      BY <3>1 DEF GetRunRefused, TypeOK
    <3>2. CASE TabHears(t)
      <4>1. PICK x \in {"summary", "error"} :
              tab' = [tab EXCEPT ![t].running = FALSE, ![t].shows = x]
        BY <3>2 DEF TabHears
      <4>2. tab[t] \in [running : BOOLEAN, run : Runs \cup {NoRun},
                        shows : {"nothing", "summary", "error"}]
        BY DEF TypeOK
      <4>3. [tab[t] EXCEPT !.running = FALSE, !.shows = x]
              \in [running : BOOLEAN, run : Runs \cup {NoRun},
                  shows : {"nothing", "summary", "error"}]
        BY <4>2
      <4>4. QED
        BY <4>1, <4>3 DEF TypeOK
    <3>3. QED
      BY <1>3, <3>1, <3>2
  <2>2. QED
    BY <1>3, <2>1 DEF GetRunRefused, TabHears, TypeOK, Behind
<1>4. ASSUME NEW call \in executing, FnPasses(call) PROVE TInv'
  <2>1. call \in Calls /\ call[1] \in Runs /\ executing \ {call} \in SUBSET Calls
    BY CallType
  <2>2. /\ runner[call[1]].pc = "race" /\ TestDone(call[1], "passed", executing \ {call})
        /\ won' = won \cup {call} /\ UNCHANGED <<tab, crashes>>
    BY <1>4 DEF FnPasses, Raced
  <2>3. RunTypes' /\ Behind'
    BY <2>1, <2>2, TestDoneTypes
  <2>4. won' \in SUBSET Calls
    BY <2>1, <2>2 DEF TypeOK
  <2>5. QED
    BY <2>2, <2>3, <2>4, RunTypesSuffice
<1>5. ASSUME NEW r \in Runs, NEW calls \in SUBSET Calls, runner[r].pc = "race",
             AttemptFailed(r, calls), UNCHANGED <<won, tab, crashes>>
      PROVE  TInv'
  <2>1. RunTypes' /\ Behind'
    BY <1>5, AttemptFailedTypes
  <2>2. won' \in SUBSET Calls
    BY <1>5 DEF TypeOK
  <2>3. QED
    BY <1>5, <2>1, <2>2, RunTypesSuffice
<1>6. ASSUME NEW call \in executing, FnThrows(call) PROVE TInv'
  <2>1. call[1] \in Runs /\ executing \ {call} \in SUBSET Calls
    BY CallType
  <2>2. runner[call[1]].pc = "race" /\ AttemptFailed(call[1], executing \ {call})
        /\ UNCHANGED <<won, tab, crashes>>
    BY <1>6 DEF FnThrows, Raced
  <2>3. QED
    BY <1>5, <2>1, <2>2
<1>7. ASSUME NEW r \in Runs, TimerFires(r) PROVE TInv'
  <2>1. executing \in SUBSET Calls
    BY DEF TypeOK
  <2>2. QED
    BY <1>5, <1>7, <2>1 DEF TimerFires
<1>8. ASSUME NEW call \in executing, FnSettlesLate(call) PROVE TInv'
  BY <1>8 DEF FnSettlesLate, TypeOK, Behind
<1>9. ASSUME NEW r \in Runs, Retry(r) PROVE TInv'
  <2>1. /\ runner[r].pc = "pause" /\ runner[r].attempt < maxAttempts
        /\ Len(runner[r].results) = runner[r].test - 1
    BY <1>9 DEF Retry, Behind
  <2>2. runner[r].attempt + 1 \in 1..maxAttempts
    BY <2>1, RunnerType DEF maxAttempts
  <2>3. /\ Goes(r, "race", runner[r].test, runner[r].attempt + 1)
        /\ runner'[r].results = runner[r].results
    BY <1>9, <2>2, RetryGoes
  <2>4. <<r, runner[r].test, runner[r].attempt + 1>> \in Calls
    BY <2>2, RunnerType DEF Calls
  <2>5. executing' \subseteq Calls
    BY <1>9, <2>4 DEF Retry, Call, TypeOK
  <2>6. Behind'
    BY <2>1, <2>3, GoesBehind
  <2>7. TypeOK'
    BY <1>9, <2>3, <2>5 DEF Retry, Goes, TypeOK
  <2>8. QED
    BY <2>6, <2>7
<1>10. ASSUME NEW r \in Runs, Disconnect(r) PROVE TInv'
  BY <1>10 DEF Disconnect, TypeOK, Behind
<1>11. CASE Crash
  <2>1. runner' \in [Runs -> RunnerStates]
    <3>1. \A r \in Runs : [runner[r] EXCEPT !.pc = "lost"] \in RunnerStates
      <4>1. \A r \in Runs : runner[r] \in RunnerStates
        BY RunnerType
      <4>2. QED
        BY <4>1 DEF RunnerStates
    <3>2. QED
      BY <1>11, <3>1 DEF Crash, TypeOK
  <2>2. \A r \in Runs : runner'[r].pc \in {"new", "race", "pause"} => runner'[r] = runner[r]
    <3>1. \A r \in Runs : runner'[r] = IF InProgress(r) THEN [runner[r] EXCEPT !.pc = "lost"]
                                       ELSE runner[r]
      BY <1>11 DEF Crash
    <3>2. \A r \in Runs : [runner[r] EXCEPT !.pc = "lost"].pc = "lost"
      BY DEF TypeOK, RunnerStates
    <3>3. QED
      BY <3>1, <3>2
  <2>3. Behind'
    BY <2>2 DEF Behind
  <2>4. crashes' \in 0..MaxCrashes
    BY <1>11, TestRunnerAssumption DEF Crash, TypeOK
  <2>5. stream' \in [Runs -> {"none", "open", "completed", "error", "broken"}]
    BY <1>11 DEF Crash, TypeOK
  <2>6. TypeOK'
    BY <1>11, <2>1, <2>4, <2>5 DEF Crash, Release, TypeOK
  <2>7. QED
    BY <2>3, <2>6
<1>12. QED
  BY <1>1, <1>2, <1>3, <1>4, <1>6, <1>7, <1>8, <1>9, <1>10, <1>11 DEF Next

\* Every variable keeps its type, and a run has one result of every test that
\* it has done with.
THEOREM TypeCorrect == Spec => []TypeOK
<1>1. Spec => []TInv
  BY InitTInv, NextTInv, PTL DEF Spec
<1>2. QED
  BY <1>1, PTL DEF TInv

-----------------------------------------------------------------------------
(***************************************************************************)
(* What a step does to the runs: the lock, the runner, the tables and the  *)
(* history of passed calls.                                                *)
(***************************************************************************)
Nothing == UNCHANGED <<isRunning, currentRunId, runner, won, rows, saved>>

Starts(r) ==
  /\ runner[r].pc = "new" /\ ~isRunning
  /\ CreateTestRun(r, 3) /\ isRunning' = TRUE /\ currentRunId' = r
  /\ Goes(r, "race", runner[r].test, runner[r].attempt) /\ won' = won
  /\ runner'[r].results = runner[r].results

FailsToStart(r, done) ==
  /\ runner[r].pc = "new" /\ ~isRunning
  /\ CreateTestRun(r, done) /\ Release
  /\ Goes(r, "rejected", runner[r].test, runner[r].attempt) /\ won' = won

\* The test of r is done, with this status.
Decides(r, status) ==
  /\ runner[r].pc = "race"
  /\ \/ status = "passed" /\ won' = won \cup {<<r, runner[r].test, runner[r].attempt>>}
     \/ status = "failed" /\ runner[r].attempt = maxAttempts /\ won' = won

GoesOn(r, status) ==
  /\ Decides(r, status) /\ saved' = saved \cup {Verdict(r, status)}
  /\ Goes(r, "race", runner[r].test + 1, 1)
  /\ runner'[r].results = ResultsWith(r, status)
  /\ UNCHANGED <<isRunning, currentRunId, rows>>

Completes(r, status) ==
  /\ Decides(r, status) /\ saved' = saved \cup {Verdict(r, status)}
  /\ Goes(r, "completed", runner[r].test, runner[r].attempt) /\ Release
  /\ ResultsWith(r, status) \in Seq(Results) /\ Len(ResultsWith(r, status)) = NTests
  /\ CompleteTestRun(r, ResultsWith(r, status))

Rejects(r, status) ==
  /\ Decides(r, status) /\ saved' \in {saved, saved \cup {Verdict(r, status)}}
  /\ Goes(r, "rejected", runner[r].test, runner[r].attempt) /\ Release
  /\ UNCHANGED rows

Pauses(r) ==
  /\ runner[r].pc = "race" /\ Goes(r, "pause", runner[r].test, runner[r].attempt)
  /\ runner'[r].results = runner[r].results
  /\ UNCHANGED <<isRunning, currentRunId, won, rows, saved>>

Retries(r) ==
  /\ runner[r].pc = "pause" /\ Goes(r, "race", runner[r].test, runner[r].attempt + 1)
  /\ runner'[r].results = runner[r].results
  /\ UNCHANGED <<isRunning, currentRunId, won, rows, saved>>

Ceases ==
  /\ Release
  /\ \A r \in Runs : runner'[r] = IF InProgress(r) THEN [runner[r] EXCEPT !.pc = "lost"]
                                  ELSE runner[r]
  /\ UNCHANGED <<won, rows, saved>>

StepOfRuns ==
  \/ Nothing
  \/ \E r \in Runs : Starts(r)
  \/ \E r \in Runs, done \in 0..2 : FailsToStart(r, done)
  \/ \E r \in Runs, status \in {"passed", "failed"} :
       GoesOn(r, status) \/ Completes(r, status) \/ Rejects(r, status)
  \/ \E r \in Runs : Pauses(r) \/ Retries(r)
  \/ Ceases

LEMMA DoneStep ==
  ASSUME TInv, NEW r \in Runs, NEW status \in {"passed", "failed"}, NEW calls,
         Decides(r, status), TestDone(r, status, calls)
  PROVE  GoesOn(r, status) \/ Completes(r, status) \/ Rejects(r, status)
<1>1. runner[r].pc = "race" /\ TypeOK /\ Behind
  BY DEF Decides, TInv
<1>2. QED
  BY <1>1, TestDoneOutcome DEF GoesOn, Completes, Rejects

LEMMA FailedStep ==
  ASSUME TInv, NEW r \in Runs, NEW calls, runner[r].pc = "race",
         AttemptFailed(r, calls), won' = won
  PROVE  StepOfRuns
<1>1. TypeOK
  BY DEF TInv
<1>2. CASE runner[r].attempt = maxAttempts /\ TestDone(r, "failed", calls)
  <2>1. Decides(r, "failed")
    BY <1>2 DEF Decides
  <2>2. QED
    BY <1>2, <2>1, DoneStep DEF StepOfRuns
<1>3. CASE /\ Goes(r, "pause", runner[r].test, runner[r].attempt)
           /\ runner'[r].results = runner[r].results
           /\ UNCHANGED <<isRunning, currentRunId, rows, saved>>
  BY <1>3 DEF StepOfRuns, Pauses
<1>4. QED
  BY <1>1, <1>2, <1>3, AttemptFailedOutcome

LEMMA Steps == TInv /\ [Next]_vars => StepOfRuns
<1> SUFFICES ASSUME TInv, [Next]_vars PROVE StepOfRuns
  OBVIOUS
<1>0. TypeOK
  BY DEF TInv
<1>1. CASE Nothing
  BY <1>1 DEF StepOfRuns
<1>2. ASSUME NEW t \in Tabs, NEW r \in Runs, GetRun(t, r) PROVE StepOfRuns
  <2>1. runner[r].pc = "new" /\ ~isRunning /\ won' = won
    BY <1>2 DEF GetRun, TestStatus
  <2>2. CASE /\ CreateTestRun(r, 3) /\ isRunning' = TRUE /\ currentRunId' = r
             /\ runner' = [runner EXCEPT ![r].pc = "race"]
    <3>1. /\ Goes(r, "race", runner[r].test, runner[r].attempt)
          /\ runner'[r].results = runner[r].results
      BY <1>0, <2>2, GoesPc
    <3>2. QED
      BY <2>1, <2>2, <3>1 DEF StepOfRuns, Starts
  <2>3. ASSUME NEW done \in 0..2, CreateTestRun(r, done), Release,
               runner' = [runner EXCEPT ![r].pc = "rejected"]
        PROVE  StepOfRuns
    <3>1. Goes(r, "rejected", runner[r].test, runner[r].attempt)
      BY <1>0, <2>3, GoesPc
    <3>2. QED
      BY <2>1, <2>3, <3>1 DEF StepOfRuns, FailsToStart
  <2>4. QED
    BY <1>2, <2>2, <2>3 DEF GetRun
<1>3. ASSUME NEW t \in Tabs, GetRunRefused(t) \/ TabHears(t) PROVE StepOfRuns
  BY <1>1, <1>3 DEF GetRunRefused, TabHears, Nothing
<1>4. ASSUME NEW call \in executing, FnPasses(call) PROVE StepOfRuns
  <2>1. call[1] \in Runs
    BY <1>0, CallType
  <2>2. Decides(call[1], "passed") /\ TestDone(call[1], "passed", executing \ {call})
    BY <1>4 DEF FnPasses, Raced, Decides
  <2>3. QED
    BY <2>1, <2>2, DoneStep DEF StepOfRuns
<1>5. ASSUME NEW call \in executing, FnThrows(call) PROVE StepOfRuns
  <2>1. call[1] \in Runs
    BY <1>0, CallType
  <2>2. runner[call[1]].pc = "race" /\ AttemptFailed(call[1], executing \ {call}) /\ won' = won
    BY <1>5 DEF FnThrows, Raced
  <2>3. QED
    BY <2>1, <2>2, FailedStep
<1>6. ASSUME NEW r \in Runs, TimerFires(r) PROVE StepOfRuns
  BY <1>6, FailedStep DEF TimerFires
<1>7. ASSUME NEW call \in executing, FnSettlesLate(call) PROVE StepOfRuns
  BY <1>1, <1>7 DEF FnSettlesLate, Nothing
<1>8. ASSUME NEW r \in Runs, Retry(r) PROVE StepOfRuns
  <2>1. runner[r].pc = "pause" /\ runner[r].attempt < maxAttempts
    BY <1>8 DEF Retry, TInv, Behind
  <2>2. runner[r].attempt + 1 \in 1..maxAttempts
    BY <1>0, <2>1, RunnerType DEF maxAttempts
  <2>3. /\ Goes(r, "race", runner[r].test, runner[r].attempt + 1)
        /\ runner'[r].results = runner[r].results
    BY <1>0, <1>8, <2>2, RetryGoes
  <2>4. QED
    BY <1>8, <2>1, <2>3 DEF Retry, StepOfRuns, Retries
<1>9. ASSUME NEW r \in Runs, Disconnect(r) PROVE StepOfRuns
  BY <1>1, <1>9 DEF Disconnect, Nothing
<1>10. CASE Crash
  <2>1. Ceases
    BY <1>10 DEF Crash, Ceases
  <2>2. QED
    BY <2>1 DEF StepOfRuns
<1>11. CASE UNCHANGED vars
  BY <1>1, <1>11 DEF vars, Nothing
<1>12. QED
  BY <1>2, <1>3, <1>4, <1>5, <1>6, <1>7, <1>8, <1>9, <1>10, <1>11 DEF Next

LEMMA CeasesRunner ==
  ASSUME TypeOK, Ceases, NEW r \in Runs
  PROVE  /\ InProgress(r) => runner'[r].pc = "lost"
         /\ ~InProgress(r) => runner'[r] = runner[r]
         /\ runner'[r].test = runner[r].test
  BY RunnerType DEF Ceases, RunnerStates

-----------------------------------------------------------------------------
(***************************************************************************)
(* The lock.                                                               *)
(***************************************************************************)
LEMMA LockKept ==
  ASSUME LockMatchesRun, NEW r \in Runs, NEW pc, NEW test, NEW attempt,
         Goes(r, pc, test, attempt), runner[r].pc \in {"race", "pause"},
         pc \in {"race", "pause"}, UNCHANGED <<isRunning, currentRunId>>
  PROVE  LockMatchesRun'
  BY DEF LockMatchesRun, InProgress, Goes

LEMMA LockReleased ==
  ASSUME LockMatchesRun, NEW r \in Runs, NEW pc, NEW test, NEW attempt,
         Goes(r, pc, test, attempt), runner[r].pc = "race" \/ ~isRunning,
         pc \in {"completed", "rejected"}, Release
  PROVE  LockMatchesRun'
<1>1. \A x \in Runs : x # r => ~InProgress(x)
  BY DEF LockMatchesRun, InProgress
<1>2. \A x \in Runs : ~InProgress(x)'
  BY <1>1 DEF Goes, InProgress
<1>3. QED
  BY <1>2, TestRunnerAssumption DEF LockMatchesRun, Release

LEMMA NextLock == TInv /\ LockMatchesRun /\ [Next]_vars => LockMatchesRun'
<1> SUFFICES ASSUME TInv, LockMatchesRun, StepOfRuns PROVE LockMatchesRun'
  BY Steps
<1>1. CASE Nothing
  BY <1>1 DEF Nothing, LockMatchesRun, InProgress
<1>2. ASSUME NEW r \in Runs, Starts(r) PROVE LockMatchesRun'
  <2>1. \A x \in Runs : ~InProgress(x)
    BY <1>2 DEF Starts, LockMatchesRun
  <2>2. \A x \in Runs : InProgress(x)' <=> x = r
    BY <1>2, <2>1 DEF Starts, Goes, InProgress
  <2>3. QED
    BY <1>2, <2>2 DEF Starts, LockMatchesRun
<1>3. ASSUME NEW r \in Runs, NEW done \in 0..2, FailsToStart(r, done) PROVE LockMatchesRun'
  BY <1>3, LockReleased DEF FailsToStart
<1>4. ASSUME NEW r \in Runs, NEW status \in {"passed", "failed"},
             GoesOn(r, status) \/ Completes(r, status) \/ Rejects(r, status)
      PROVE  LockMatchesRun'
  BY <1>4, LockKept, LockReleased DEF GoesOn, Completes, Rejects, Decides
<1>5. ASSUME NEW r \in Runs, Pauses(r) \/ Retries(r) PROVE LockMatchesRun'
  BY <1>5, LockKept DEF Pauses, Retries
<1>6. CASE Ceases
  <2>1. \A x \in Runs : ~InProgress(x)'
    BY <1>6, CeasesRunner DEF TInv, InProgress
  <2>2. QED
    BY <1>6, <2>1, TestRunnerAssumption DEF Ceases, Release, LockMatchesRun
<1>7. QED
  BY <1>1, <1>2, <1>3, <1>4, <1>5, <1>6 DEF StepOfRuns

\* The lock is held exactly while a run is in progress.
THEOREM LockHeld == Spec => []LockMatchesRun
<1>1. Init => LockMatchesRun
  BY TestRunnerAssumption DEF Init, LockMatchesRun, InProgress
<1>2. QED
  BY <1>1, InitTInv, NextTInv, NextLock, PTL DEF Spec

-----------------------------------------------------------------------------
(***************************************************************************)
(* The verdicts.  A call that passed belongs to a run that was started     *)
(* and, while it is in progress, to a test before the current one; so does *)
(* a stored result.                                                        *)
(***************************************************************************)
Past(r, test) ==
  /\ runner[r].pc # "new"
  /\ runner[r].pc \in {"race", "pause"} => test < runner[r].test

PassesOf(s) == {a \in 1..maxAttempts : <<s.run, s.result.test, a>> \in won}

VInv ==
  /\ \A r \in Runs, test \in Tests, a \in 1..maxAttempts : <<r, test, a>> \in won => Past(r, test)
  /\ \A s \in saved : Past(s.run, s.result.test)
  /\ VerdictIsOfItsAttempt

\* A run that goes forward keeps its past.
LEMMA PastKept ==
  ASSUME TypeOK, NEW r \in Runs, NEW pc, NEW test, NEW attempt, Goes(r, pc, test, attempt),
         pc # "new", test \in Nat, test >= runner[r].test,
         runner[r].pc \in {"new", "race", "pause"},
         NEW x \in Runs, NEW y \in Tests, Past(x, y)
  PROVE  Past(x, y)'
<1>1. CASE x = r
  BY <1>1, RunnerType DEF Past, Goes, Tests
<1>2. CASE x # r
  BY <1>2 DEF Past, Goes
<1>3. QED
  BY <1>1, <1>2

\* Steps that neither pass a call nor store a result.
LEMMA VInvKept ==
  ASSUME TypeOK, VInv, won' = won, saved' \subseteq saved,
         \A x \in Runs, y \in Tests : Past(x, y) => Past(x, y)'
  PROVE  VInv'
<1>1. \A s \in saved : s.run \in Runs /\ s.result.test \in Tests
  BY DEF TypeOK, Results
<1>2. QED
  BY <1>1 DEF VInv, VerdictIsOfItsAttempt

\* The test of r is done.
LEMMA DecidedVInv ==
  ASSUME TypeOK, VInv, NEW r \in Runs, NEW status \in {"passed", "failed"}, Decides(r, status),
         saved' \in {saved, saved \cup {Verdict(r, status)}},
         \A x \in Runs, y \in Tests : Past(x, y) => Past(x, y)',
         NEW t \in Tests, t = runner[r].test, Past(r, t)'
  PROVE  VInv'
<1> DEFINE a == runner[r].attempt
           v == Verdict(r, status)
<1>1. t \in Tests /\ a \in 1..maxAttempts /\ t \in Nat
  BY RunnerType
<1>2. \A b \in 1..maxAttempts : <<r, t, b>> \notin won
  BY <1>1 DEF VInv, Past, Decides
<1>3. \A s \in saved : s.run \in Runs /\ s.result.test \in Tests /\ ~(s.run = r /\ s.result.test = t)
  BY <1>1 DEF VInv, Past, Decides, TypeOK, Results
<1>4. won' \subseteq won \cup {<<r, t, a>>} /\ won \subseteq won'
  BY DEF Decides
<1>5. \A x \in Runs, y \in Tests, b \in 1..maxAttempts : <<x, y, b>> \in won' => Past(x, y)'
  <2> SUFFICES ASSUME NEW x \in Runs, NEW y \in Tests, NEW b \in 1..maxAttempts, <<x, y, b>> \in won'
               PROVE  Past(x, y)'
    OBVIOUS
  <2>1. CASE <<x, y, b>> \in won
    BY <2>1 DEF VInv
  <2>2. CASE <<x, y, b>> = <<r, t, a>>
    BY <2>2
  <2>3. QED
    BY <1>4, <2>1, <2>2
<1>6. v.run = r /\ v.result.test = t /\ v.result.status = status /\ v.result.attempt = a
  BY DEF Verdict
<1>7. \A s \in saved' : s \in saved \/ s = v
  OBVIOUS
<1>8. \A s \in saved' : Past(s.run, s.result.test)'
  BY <1>3, <1>6, <1>7 DEF VInv
<1>9. ASSUME NEW s \in saved'
      PROVE  IF s.result.status = "passed" THEN PassesOf(s)' = {s.result.attempt}
             ELSE PassesOf(s)' = {} /\ s.result.attempt = maxAttempts
  <2>1. CASE s \in saved
    <3>1. \A b \in 1..maxAttempts : <<s.run, s.result.test, b>> # <<r, t, a>>
      BY <1>3, <2>1
    <3>2. PassesOf(s)' = PassesOf(s)
      BY <1>4, <3>1 DEF PassesOf
    <3>3. IF s.result.status = "passed" THEN PassesOf(s) = {s.result.attempt}
          ELSE PassesOf(s) = {} /\ s.result.attempt = maxAttempts
      BY <2>1 DEF VInv, VerdictIsOfItsAttempt, PassesOf
    <3>4. QED
      BY <3>2, <3>3
  <2>2. CASE s = v
    <3>1. \A b \in 1..maxAttempts : <<r, t, b>> \in won' <=> status = "passed" /\ b = a
      BY <1>1, <1>2 DEF Decides
    <3>2. CASE status = "passed"
      BY <1>1, <1>6, <2>2, <3>1, <3>2 DEF PassesOf
    <3>3. CASE status = "failed"
      <4>1. a = maxAttempts
        BY <3>3 DEF Decides
      <4>2. PassesOf(s)' = {}
        BY <1>6, <2>2, <3>1, <3>3 DEF PassesOf
      <4>3. QED
        BY <1>6, <2>2, <3>3, <4>1, <4>2
    <3>4. QED
      BY <3>2, <3>3
  <2>3. QED
    BY <1>7, <2>1, <2>2
<1>10. VerdictIsOfItsAttempt'
  BY <1>9 DEF VerdictIsOfItsAttempt, PassesOf
<1>11. QED
  BY <1>5, <1>8, <1>10 DEF VInv

LEMMA NextVInv == TInv /\ VInv /\ [Next]_vars => VInv'
<1> SUFFICES ASSUME TypeOK, VInv, StepOfRuns PROVE VInv'
  BY Steps DEF TInv
<1>0. \A r \in Runs : runner[r].test \in Tests /\ runner[r].test \in Nat
  BY RunnerType DEF Tests
<1>1. CASE Nothing
  BY <1>1, VInvKept DEF Nothing, Past
<1>2. ASSUME NEW r \in Runs, NEW done \in 0..3, NEW pc \in {"race", "rejected"},
             runner[r].pc = "new", CreateTestRun(r, done), won' = won,
             Goes(r, pc, runner[r].test, runner[r].attempt)
      PROVE  VInv'
  <2>1. saved' \subseteq saved
    BY <1>2 DEF CreateTestRun, ResultsKept
  <2>2. \A x \in Runs, y \in Tests : Past(x, y) => Past(x, y)'
    <3> TAKE x \in Runs, y \in Tests
    <3>1. x = r => ~Past(x, y)
      BY <1>2 DEF Past
    <3>2. x # r => (Past(x, y) => Past(x, y)')
      BY <1>2 DEF Past, Goes
    <3>3. QED
      BY <3>1, <3>2
  <2>3. QED
    BY <1>2, <2>1, <2>2, VInvKept
<1>3. ASSUME NEW r \in Runs, Starts(r) PROVE VInv'
  BY <1>2, <1>3 DEF Starts
<1>4. ASSUME NEW r \in Runs, NEW done \in 0..2, FailsToStart(r, done) PROVE VInv'
  <2>1. done \in 0..3
    OBVIOUS
  <2>2. QED
    BY <1>2, <1>4, <2>1 DEF FailsToStart
<1>5. ASSUME NEW r \in Runs, NEW status \in {"passed", "failed"}, GoesOn(r, status) PROVE VInv'
  <2>1. runner[r].pc = "race" /\ Goes(r, "race", runner[r].test + 1, 1)
    BY <1>5 DEF GoesOn, Decides
  <2>2. \A x \in Runs, y \in Tests : Past(x, y) => Past(x, y)'
    BY <1>0, <2>1, PastKept
  <2>3. PICK t \in Tests : t = runner[r].test
    BY <1>0
  <2>4. Past(r, t)'
    BY <1>0, <2>1, <2>3 DEF Past, Goes
  <2>5. QED
    BY <1>5, <2>2, <2>3, <2>4, DecidedVInv DEF GoesOn
<1>6. ASSUME NEW r \in Runs, NEW status \in {"passed", "failed"},
             Completes(r, status) \/ Rejects(r, status)
      PROVE VInv'
  <2>1. PICK pc \in {"completed", "rejected"} :
          runner[r].pc = "race" /\ Goes(r, pc, runner[r].test, runner[r].attempt)
    BY <1>6 DEF Completes, Rejects, Decides
  <2>2. \A x \in Runs, y \in Tests : Past(x, y) => Past(x, y)'
    BY <1>0, <2>1, PastKept
  <2>3. PICK t \in Tests : t = runner[r].test
    BY <1>0
  <2>4. Past(r, t)'
    BY <2>1 DEF Past, Goes
  <2>5. QED
    BY <1>6, <2>2, <2>3, <2>4, DecidedVInv DEF Completes, Rejects
<1>7. ASSUME NEW r \in Runs, Pauses(r) \/ Retries(r) PROVE VInv'
  <2>1. PICK pc \in {"race", "pause"}, attempt \in {runner[r].attempt, runner[r].attempt + 1} :
          runner[r].pc \in {"race", "pause"} /\ Goes(r, pc, runner[r].test, attempt)
    BY <1>7 DEF Pauses, Retries
  <2>2. \A x \in Runs, y \in Tests : Past(x, y) => Past(x, y)'
    BY <1>0, <2>1, PastKept
  <2>3. QED
    BY <1>7, <2>2, VInvKept DEF Pauses, Retries
<1>8. CASE Ceases
  <2>1. \A x \in Runs, y \in Tests : Past(x, y) => Past(x, y)'
    BY <1>8, CeasesRunner DEF Past, InProgress
  <2>2. QED
    BY <1>8, <2>1, VInvKept DEF Ceases
<1>9. QED
  BY <1>1, <1>3, <1>4, <1>5, <1>6, <1>7, <1>8 DEF StepOfRuns

\* A stored verdict is the verdict of the attempt it names: no later settling
\* of a call that lost its race changes or contradicts it.
THEOREM VerdictsAreOfAttempts == Spec => []VerdictIsOfItsAttempt
<1>1. Init => VInv
  <2> SUFFICES ASSUME Init PROVE VInv
    OBVIOUS
  <2>1. \A r \in Runs, test \in Tests, a \in 1..maxAttempts :
          <<r, test, a>> \in won <=> r \in Earlier /\ a = 1
    BY DEF Init
  <2>2. \A r \in Runs : r \in Earlier => runner[r].pc = "completed"
    BY DEF Init
  <2>3. \A s \in saved : /\ s.run \in Earlier /\ s.result.test \in Tests
                         /\ s.result.status = "passed" /\ s.result.attempt = 1
    BY DEF Init, PassedAt
  <2>4. \A s \in saved : s.run \in Runs
    BY InitTInv DEF TInv, TypeOK
  <2>5. VerdictIsOfItsAttempt
    <3>1. ASSUME NEW s \in saved PROVE PassesOf(s) = {s.result.attempt}
      <4>1. s.run \in Runs /\ s.run \in Earlier /\ s.result.test \in Tests /\ s.result.attempt = 1
        BY <2>3, <2>4
      <4>2. \A a \in 1..maxAttempts : <<s.run, s.result.test, a>> \in won <=> a = 1
        BY <2>1, <4>1
      <4>3. 1 \in 1..maxAttempts
        BY DEF maxAttempts
      <4>4. QED
        BY <4>1, <4>2, <4>3 DEF PassesOf
    <3>2. QED
      BY <2>3, <3>1 DEF VerdictIsOfItsAttempt, PassesOf
  <2>6. QED
    BY <2>1, <2>2, <2>3, <2>4, <2>5 DEF VInv, Past
<1>2. VInv => VerdictIsOfItsAttempt
  BY DEF VInv
<1>3. QED
  BY <1>1, <1>2, InitTInv, NextTInv, NextVInv, PTL DEF Spec

-----------------------------------------------------------------------------
(***************************************************************************)
(* The tables.  While a run is in progress its row is there, because only  *)
(* the start of another run deletes rows.                                  *)
(***************************************************************************)
RowOfRun == \A r \in Runs : InProgress(r) => r \in RunsOf(Range(rows))

Tables == RunningRowHasCause /\ RetentionHolds /\ RowOfRun

LEMMA CreatedRows ==
  ASSUME TypeOK, NEW r \in Runs, NEW done \in 0..3, CreateTestRun(r, done), RetentionHolds
  PROVE  /\ Range(rows') \subseteq Range(rows) \cup {NewRow(r)}
         /\ done < 3 => Range(rows') \subseteq Range(rows)
         /\ done = 3 => r \in RunsOf(Range(rows'))
         /\ RetentionHolds'
<1> DEFINE kept == RowsKept
<1>1. rows \in Seq(Rows) /\ KeptRuns \in Nat
  BY TestRunnerAssumption DEF TypeOK
<1>2. /\ kept \in Seq(Rows) /\ Len(kept) <= KeptRuns /\ Range(kept) \subseteq Range(rows)
      /\ Newest(KeptRuns) = Range(kept)
  BY <1>1, LastOfProperties DEF RowsKept, Newest
<1>3. NewRow(r) \in Rows /\ NewRow(r).run = r
  BY TestRunnerAssumption DEF NewRow, Rows
<1>4. /\ Len(Append(kept, NewRow(r))) = Len(kept) + 1
      /\ Range(Append(kept, NewRow(r))) = Range(kept) \cup {NewRow(r)}
  BY <1>2, <1>3, RangeOfAppend
<1>5. Len(kept) \in Nat
  BY <1>2, LenProperties
<1>6. done >= 1 => {s.run : s \in saved'} \subseteq RunsOf(Range(kept))
  BY <1>2 DEF CreateTestRun, ResultsKept
<1>7. CASE done <= 1
  <2>1. rows' = rows /\ saved' \subseteq saved
    BY <1>7 DEF CreateTestRun, ResultsKept
  <2>2. QED
    BY <1>7, <2>1 DEF RetentionHolds
<1>8. CASE done = 2
  <2>1. rows' = kept
    BY <1>8 DEF CreateTestRun
  <2>2. RetentionHolds'
    BY <1>1, <1>2, <1>5, <1>6, <1>8, <2>1 DEF RetentionHolds
  <2>3. QED
    BY <1>2, <1>8, <2>1, <2>2
<1>9. CASE done = 3
  <2>1. rows' = Append(kept, NewRow(r))
    BY <1>9 DEF CreateTestRun
  <2>2. Range(rows') = Range(kept) \cup {NewRow(r)} /\ Len(rows') <= KeptRuns + 1
    BY <1>1, <1>2, <1>4, <1>5, <2>1
  <2>3. r \in RunsOf(Range(rows'))
    BY <1>3, <2>2 DEF RunsOf
  <2>4. RunsOf(Range(kept)) \subseteq RunsOf(Range(rows'))
    BY <2>2 DEF RunsOf
  <2>5. RetentionHolds'
    <3>1. done >= 1
      BY <1>9
    <3>2. {s.run : s \in saved'} \subseteq RunsOf(Range(rows'))
      BY <1>6, <2>4, <3>1
    <3>3. QED
      BY <2>2, <3>2 DEF RetentionHolds
  <2>6. QED
    BY <1>2, <1>9, <2>2, <2>3, <2>5
<1>10. QED
  BY <1>7, <1>8, <1>9

\* completeTestRun changes the rows of its run only, and which runs there are not.
LEMMA CompletedRows ==
  ASSUME TypeOK, NEW r \in Runs, NEW results \in Seq(Results), Len(results) <= NTests,
         CompleteTestRun(r, results)
  PROVE  /\ RunsOf(Range(rows')) = RunsOf(Range(rows)) /\ Len(rows') = Len(rows)
         /\ \A row \in Range(rows') :
              row.status = "completed" \/ (row \in Range(rows) /\ row.run # r)
<1>1. /\ rows' \in Seq(Rows) /\ Len(rows') = Len(rows)
      /\ \A i \in 1..Len(rows) :
           rows'[i] = IF rows[i].run = r THEN Summary(r, results) ELSE rows[i]
  BY CompleteType
<1>2. rows \in Seq(Rows)
  BY DEF TypeOK
<1>3. /\ \A x : x \in Range(rows) <=> \E i \in 1..Len(rows) : rows[i] = x
      /\ \A x : x \in Range(rows') <=> \E i \in 1..Len(rows) : rows'[i] = x
  BY <1>1, <1>2, InRange
<1>4. Summary(r, results).run = r /\ Summary(r, results).status = "completed"
  BY DEF Summary
<1>5. \A i \in 1..Len(rows) : rows'[i].run = rows[i].run
  BY <1>1, <1>4
<1>6. \A x : x \in RunsOf(Range(rows)) <=> \E i \in 1..Len(rows) : rows[i].run = x
  BY <1>3 DEF RunsOf
<1>7. \A x : x \in RunsOf(Range(rows')) <=> \E i \in 1..Len(rows) : rows'[i].run = x
  BY <1>3 DEF RunsOf
<1>8. RunsOf(Range(rows')) = RunsOf(Range(rows))
  BY <1>5, <1>6, <1>7
<1>9. ASSUME NEW row \in Range(rows')
      PROVE  row.status = "completed" \/ (row \in Range(rows) /\ row.run # r)
  <2>1. PICK i \in 1..Len(rows) : rows'[i] = row
    BY <1>3
  <2>2. CASE rows[i].run = r
    BY <1>1, <1>4, <2>1, <2>2
  <2>3. CASE rows[i].run # r
    BY <1>1, <1>3, <2>1, <2>3
  <2>4. QED
    BY <2>2, <2>3
<1>10. QED
  BY <1>1, <1>8, <1>9

LEMMA RunOfRow ==
  ASSUME TypeOK, NEW row \in Range(rows)
  PROVE  row.run \in Runs
<1>1. rows \in Seq(Rows)
  BY DEF TypeOK
<1>2. PICK i \in 1..Len(rows) : rows[i] = row
  BY <1>1, InRange
<1>3. row \in Rows
  BY <1>1, <1>2, ElementOfSeq
<1>4. QED
  BY <1>3 DEF Rows

\* A run moves on without leaving behind a row that says running.
LEMMA CauseKept ==
  ASSUME TypeOK, RunningRowHasCause, NEW r \in Runs, NEW pc, NEW test, NEW attempt,
         Goes(r, pc, test, attempt),
         pc \in {"race", "pause", "rejected"}
           \/ \A row \in Range(rows') : row.status = "running" => row.run # r,
         \A row \in Range(rows') : row.status = "running" => row \in Range(rows) \/ row.run = r
  PROVE  RunningRowHasCause'
  BY RunOfRow DEF RunningRowHasCause, InProgress, Goes

\* The same rows, results of a run in progress, and no run that was not.
LEMMA TablesKept ==
  ASSUME Tables, RunsOf(Range(rows')) = RunsOf(Range(rows)), Len(rows') = Len(rows),
         \A s \in saved' : s \in saved \/ s.run \in RunsOf(Range(rows)),
         \A x \in Runs : InProgress(x)' => InProgress(x)
  PROVE  RetentionHolds' /\ RowOfRun'
<1>1. RetentionHolds'
  BY DEF Tables, RetentionHolds
<1>2. RowOfRun'
  BY DEF Tables, RowOfRun
<1>3. QED
  BY <1>1, <1>2

LEMMA NextTables == TInv /\ LockMatchesRun /\ Tables /\ [Next]_vars => Tables'
<1> SUFFICES ASSUME TypeOK, LockMatchesRun, Tables, StepOfRuns PROVE Tables'
  BY Steps DEF TInv
<1>1. CASE Nothing
  BY <1>1 DEF Nothing, Tables, RunningRowHasCause, RetentionHolds, RowOfRun, InProgress, RunsOf
<1>2. ASSUME NEW r \in Runs, NEW done \in 0..3, NEW pc \in {"race", "rejected"},
             ~isRunning, CreateTestRun(r, done), pc = "race" => done = 3,
             Goes(r, pc, runner[r].test, runner[r].attempt)
      PROVE  Tables'
  <2>1. \A x \in Runs : ~InProgress(x)
    BY <1>2 DEF LockMatchesRun
  <2>2. /\ Range(rows') \subseteq Range(rows) \cup {NewRow(r)}
        /\ done = 3 => r \in RunsOf(Range(rows'))
        /\ RetentionHolds'
    BY <1>2, CreatedRows DEF Tables
  <2>3. NewRow(r).run = r
    BY DEF NewRow
  <2>4. RunningRowHasCause'
    BY <1>2, <2>2, <2>3, CauseKept DEF Tables
  <2>5. \A x \in Runs : InProgress(x)' => x = r /\ pc = "race"
    BY <1>2, <2>1 DEF Goes, InProgress
  <2>6. RowOfRun'
    BY <1>2, <2>2, <2>5 DEF RowOfRun
  <2>7. QED
    BY <2>2, <2>4, <2>6 DEF Tables
<1>3. ASSUME NEW r \in Runs, Starts(r) PROVE Tables'
  BY <1>2, <1>3 DEF Starts
<1>4. ASSUME NEW r \in Runs, NEW done \in 0..2, FailsToStart(r, done) PROVE Tables'
  <2>1. done \in 0..3
    OBVIOUS
  <2>2. QED
    BY <1>2, <1>4, <2>1 DEF FailsToStart
<1>5. ASSUME NEW r \in Runs, NEW pc, NEW test, NEW attempt, Goes(r, pc, test, attempt),
             runner[r].pc \in {"race", "pause"}, pc \in {"race", "pause", "rejected"}, rows' = rows,
             \A s \in saved' : s \in saved \/ s.run = r
      PROVE  Tables'
  <2>1. r \in RunsOf(Range(rows))
    BY <1>5 DEF Tables, RowOfRun, InProgress
  <2>2. \A x \in Runs : InProgress(x)' => InProgress(x)
    BY <1>5 DEF Goes, InProgress
  <2>3. RetentionHolds' /\ RowOfRun'
    BY <1>5, <2>1, <2>2, TablesKept
  <2>4. RunningRowHasCause'
    BY <1>5, CauseKept DEF Tables
  <2>5. QED
    BY <2>3, <2>4 DEF Tables
<1>6. ASSUME NEW r \in Runs, NEW status \in {"passed", "failed"}, GoesOn(r, status) PROVE Tables'
  <2>1. Verdict(r, status).run = r
    BY DEF Verdict
  <2>2. QED
    BY <1>5, <1>6, <2>1 DEF GoesOn, Decides
<1>7. ASSUME NEW r \in Runs, NEW status \in {"passed", "failed"}, Rejects(r, status) PROVE Tables'
  <2>1. Verdict(r, status).run = r
    BY DEF Verdict
  <2>2. QED
    BY <1>5, <1>7, <2>1 DEF Rejects, Decides
<1>8. ASSUME NEW r \in Runs, NEW status \in {"passed", "failed"}, Completes(r, status) PROVE Tables'
  <2>1. PICK results \in Seq(Results) : Len(results) <= NTests /\ CompleteTestRun(r, results)
    BY <1>8, TestRunnerAssumption DEF Completes
  <2>2. /\ RunsOf(Range(rows')) = RunsOf(Range(rows)) /\ Len(rows') = Len(rows)
        /\ \A row \in Range(rows') :
             row.status = "completed" \/ (row \in Range(rows) /\ row.run # r)
    BY <2>1, CompletedRows
  <2>3. Goes(r, "completed", runner[r].test, runner[r].attempt) /\ runner[r].pc = "race"
    BY <1>8 DEF Completes, Decides
  <2>4. \A s \in saved' : s \in saved \/ s.run = r
    BY <1>8 DEF Completes, Verdict
  <2>5. r \in RunsOf(Range(rows))
    BY <2>3 DEF Tables, RowOfRun, InProgress
  <2>6. \A x \in Runs : InProgress(x)' => InProgress(x)
    BY <2>3 DEF Goes, InProgress
  <2>7. RetentionHolds' /\ RowOfRun'
    BY <2>2, <2>4, <2>5, <2>6, TablesKept
  <2>8. \A row \in Range(rows') : row.status = "running" => row \in Range(rows) /\ row.run # r
    BY <2>2
  <2>9. RunningRowHasCause'
    BY <2>3, <2>8, CauseKept DEF Tables
  <2>10. QED
    BY <2>7, <2>9 DEF Tables
<1>9. ASSUME NEW r \in Runs, Pauses(r) \/ Retries(r) PROVE Tables'
  BY <1>5, <1>9 DEF Pauses, Retries
<1>10. CASE Ceases
  <2>1. \A x \in Runs : ~InProgress(x)'
    BY <1>10, CeasesRunner DEF InProgress
  <2>2. \A x \in Runs : (InProgress(x) \/ runner[x].pc \in {"rejected", "lost"})
                          => runner'[x].pc \in {"rejected", "lost"}
    BY <1>10, CeasesRunner
  <2>3. RunningRowHasCause'
    BY <1>10, <2>2, RunOfRow DEF Ceases, Tables, RunningRowHasCause
  <2>4. RetentionHolds' /\ RowOfRun'
    BY <1>10, <2>1, TablesKept DEF Ceases
  <2>5. QED
    BY <2>3, <2>4 DEF Tables
<1>11. QED
  BY <1>1, <1>3, <1>4, <1>6, <1>7, <1>8, <1>9, <1>10 DEF StepOfRuns

LEMMA InitTables == Init => Tables
<1> SUFFICES ASSUME Init PROVE Tables
  OBVIOUS
<1>1. /\ EarlierRuns \in Seq(Runs) /\ Len(EarlierRuns) \in Nat
      /\ DOMAIN EarlierRuns = 1..Len(EarlierRuns)
  BY TestRunnerAssumption, LenProperties
<1>2. rows \in Seq(Rows)
  BY InitTInv DEF TInv, TypeOK
<1>3. DOMAIN rows = 1..Len(EarlierRuns) /\ Len(rows) = Len(EarlierRuns)
  BY <1>1, <1>2, LenProperties DEF Init
<1>4. \A i \in 1..Len(EarlierRuns) : rows[i].run = EarlierRuns[i] /\ rows[i].status = "completed"
  BY <1>1 DEF Init
<1>5. \A row \in Range(rows) : row.status = "completed"
  BY <1>3, <1>4 DEF Range
<1>6. \A r \in Earlier : r \in RunsOf(Range(rows))
  <2> SUFFICES ASSUME NEW r \in Earlier PROVE \E row \in Range(rows) : row.run = r
    BY DEF RunsOf
  <2>1. PICK i \in 1..Len(EarlierRuns) : EarlierRuns[i] = r
    BY <1>1 DEF Earlier, Range
  <2>2. rows[i] \in Range(rows) /\ rows[i].run = r
    BY <1>3, <1>4, <2>1 DEF Range
  <2>3. QED
    BY <2>2
<1>7. \A s \in saved : s.run \in Earlier
  BY DEF Init
<1>8. RetentionHolds
  BY <1>3, <1>6, <1>7, TestRunnerAssumption DEF RetentionHolds
<1>9. RowOfRun
  BY DEF Init, RowOfRun, InProgress
<1>10. QED
  BY <1>5, <1>8, <1>9 DEF Tables, RunningRowHasCause

LEMMA TablesHold == Spec => []Tables
<1>1. Init => LockMatchesRun
  BY TestRunnerAssumption DEF Init, LockMatchesRun, InProgress
<1>2. QED
  BY <1>1, InitTInv, InitTables, NextTInv, NextLock, NextTables, PTL DEF Spec

\* A row that says running is the run in progress, or one that a crash or an
\* exception cut short.
THEOREM RunningRowsHaveCauses == Spec => []RunningRowHasCause
  BY TablesHold, PTL DEF Tables

\* The tables are bounded, and no result is without its run.
THEOREM RetentionIsKept == Spec => []RetentionHolds
  BY TablesHold, PTL DEF Tables
-----------------------------------------------------------------------------
(***************************************************************************)
(* What the analysis reads.  The results of a run in progress are those    *)
(* that runAll holds, one of every test it has done with; its row is       *)
(* completed only with all of them, and the cleanup deletes no result of   *)
(* a row that it keeps.                                                    *)
(***************************************************************************)
Stored(r) ==
  /\ ResultsIn(r) = Range(runner[r].results)
  /\ \A i \in 1..Len(runner[r].results) : runner[r].results[i].test = i

Unused(r) == runner[r].results = <<>> /\ ResultsIn(r) = {} /\ r \notin RunsOf(Range(rows))

\* A row agrees with the results R.
Agrees(row, R) ==
  /\ {x.test : x \in R} = Tests
  /\ row.passed = Cardinality({x \in R : x.status = "passed"})
  /\ row.failed = Cardinality({x \in R : x.status # "passed"})
  /\ row.passed + row.failed = NTests

Written ==
  /\ \A r \in Runs : InProgress(r) => Stored(r)
  /\ \A r \in Runs : runner[r].pc = "new" => Unused(r)
  /\ \A row \in Range(rows) : InProgress(row.run) => row.status = "running"
  /\ \A row \in Newest(KeptRuns) : row.status = "completed" => Agrees(row, ResultsIn(row.run))

\* Results of different tests are as many as their positions.
LEMMA SameCount ==
  ASSUME NEW results \in Seq(Results), \A i \in 1..Len(results) : results[i].test = i,
         NEW P \in SUBSET (1..Len(results))
  PROVE  Cardinality({results[i] : i \in P}) = Cardinality(P)
<1> DEFINE T == {results[i] : i \in P}
           f == [i \in P |-> results[i]]
<1>1. Len(results) \in Nat
  BY LenProperties
<1>2. IsFiniteSet(P)
  <2>1. IsFiniteSet(1..Len(results))
    BY <1>1, FS_Interval
  <2>2. QED
    BY <2>1, FS_Subset
<1>3. f \in [P -> T]
  OBVIOUS
<1>4. \A i, j \in P : f[i] = f[j] => i = j
  OBVIOUS
<1>5. \A x \in T : \E i \in P : f[i] = x
  OBVIOUS
<1> HIDE DEF f, T
<1>6. f \in Bijection(P, T)
  BY <1>3, <1>4, <1>5 DEF Bijection, Injection, Surjection, IsInjective
<1>7. ExistsBijection(P, T)
  BY <1>6 DEF ExistsBijection
<1>8. Cardinality(T) = Cardinality(P)
  BY <1>2, <1>7, FS_Bijection
<1>9. QED
  BY <1>8 DEF T

\* The row of a run that has a result of every test agrees with them.
LEMMA SummaryAgrees ==
  ASSUME NEW r \in Runs, NEW results \in Seq(Results), Len(results) = NTests,
         \A i \in 1..Len(results) : results[i].test = i
  PROVE  Agrees(Summary(r, results), Range(results))
<1> DEFINE P == {i \in 1..NTests : results[i].status = "passed"}
           F == {i \in 1..NTests : results[i].status = "failed"}
           R == Range(results)
<1>1. NTests \in Nat /\ DOMAIN results = 1..NTests
  BY LenProperties, TestRunnerAssumption
<1>2. \A i \in 1..NTests : results[i] \in Results
  BY <1>1, ElementOfSeq
<1>3. \A x : x \in R <=> \E i \in 1..NTests : results[i] = x
  BY InRange
<1>4. {x.test : x \in R} = Tests
  <2>1. ASSUME NEW x \in R PROVE x.test \in 1..NTests
    BY <1>3
  <2>2. ASSUME NEW i \in 1..NTests PROVE \E x \in R : x.test = i
    BY <1>3
  <2> HIDE DEF R
  <2>3. QED
    BY <2>1, <2>2 DEF Tests
<1>5. {x \in R : x.status = "passed"} = {results[i] : i \in P}
  <2> HIDE DEF R
  <2>1. QED
    BY <1>3
<1>6. {x \in R : x.status # "passed"} = {results[i] : i \in F}
  <2>1. \A i \in 1..NTests : results[i].status \in {"passed", "failed"}
    BY <1>2 DEF Results
  <2> HIDE DEF R
  <2>2. QED
    BY <1>3, <2>1
<1>7. P \in SUBSET (1..NTests) /\ F \in SUBSET (1..NTests)
  OBVIOUS
<1>8. /\ Cardinality({results[i] : i \in P}) = Cardinality(P)
      /\ Cardinality({results[i] : i \in F}) = Cardinality(F)
  <2> HIDE DEF P, F
  <2>1. QED
    BY <1>7, SameCount
<1>9. Summary(r, results).passed = Cardinality(P) /\ Summary(r, results).failed = Cardinality(F)
  BY <1>1 DEF Summary
<1>10. Cardinality(P) + Cardinality(F) = NTests
  <2>1. P \cup F = 1..NTests /\ P \cap F = {}
    BY <1>2 DEF Results
  <2> HIDE DEF P, F
  <2>2. IsFiniteSet(1..NTests) /\ Cardinality(1..NTests) = NTests
    <3>1. 1 \in Int /\ NTests \in Int /\ ~(1 > NTests) /\ NTests - 1 + 1 = NTests
      BY <1>1, TestRunnerAssumption
    <3>2. /\ IsFiniteSet(1..NTests)
          /\ Cardinality(1..NTests) = IF 1 > NTests THEN 0 ELSE NTests - 1 + 1
      BY <3>1, FS_Interval
    <3>3. QED
      BY <3>1, <3>2
  <2>3. IsFiniteSet(P) /\ IsFiniteSet(F) /\ Cardinality({}) = 0
    BY <1>7, <2>2, FS_Subset, FS_EmptySet
  <2>4. Cardinality(P \cup F) = Cardinality(P) + Cardinality(F) - Cardinality(P \cap F)
    BY <2>3, FS_Union
  <2>5. Cardinality(P) \in Nat /\ Cardinality(F) \in Nat
    BY <2>3, FS_CardinalityType
  <2>6. Cardinality(P \cup F) = NTests /\ Cardinality(P \cap F) = 0
    BY <2>1, <2>2, <2>3
  <2>7. QED
    BY <2>4, <2>5, <2>6
<1> HIDE DEF P, F, R
<1>11. QED
  BY <1>4, <1>5, <1>6, <1>8, <1>9, <1>10 DEF Agrees, R
\* Which rows are the newest n.
LEMMA InLastOf ==
  ASSUME NEW S, NEW s \in Seq(S), NEW n \in Nat, NEW x
  PROVE  x \in Range(LastOf(s, n)) <=> \E i \in 1..Len(s) : i > Len(s) - n /\ s[i] = x
<1>1. Len(s) \in Nat /\ \A i \in 1..Len(s) : s[i] \in S
  BY LenProperties, ElementOfSeq
<1>2. CASE Len(s) <= n
  <2>1. LastOf(s, n) = s
    BY <1>2 DEF LastOf
  <2>2. \A i \in 1..Len(s) : i > Len(s) - n
    BY <1>1, <1>2
  <2>3. x \in Range(s) <=> \E i \in 1..Len(s) : s[i] = x
    BY InRange
  <2>4. QED
    BY <2>1, <2>2, <2>3
<1>3. CASE ~(Len(s) <= n)
  <2> DEFINE m == Len(s) - n + 1
             t == SubSeq(s, m, Len(s))
  <2>1. m \in Int /\ m <= Len(s) + 1 /\ 1 <= m /\ Len(s) - m + 1 = n
    BY <1>1, <1>3
  <2>2. \A i \in m..Len(s) : s[i] \in S
    BY <1>1, <2>1
  <2>3. t \in Seq(S) /\ Len(t) = n /\ \A i \in 1..n : t[i] = s[m + i - 1]
    <3>1. /\ t \in Seq(S)
          /\ Len(t) = IF m <= Len(s) THEN Len(s) - m + 1 ELSE 0
          /\ \A i \in 1..(Len(s) - m + 1) : t[i] = s[m + i - 1]
      BY <1>1, <2>1, <2>2, SubSeqProperties
    <3>2. QED
      BY <1>1, <2>1, <3>1
  <2>4. LastOf(s, n) = t
    BY <1>3 DEF LastOf
  <2> HIDE DEF t
  <2>5. x \in Range(t) <=> \E i \in 1..n : t[i] = x
    BY <2>3, InRange
  <2>6. ASSUME NEW i \in 1..n, t[i] = x
        PROVE  \E j \in 1..Len(s) : j > Len(s) - n /\ s[j] = x
    <3>1. m + i - 1 \in 1..Len(s) /\ m + i - 1 > Len(s) - n
      BY <1>1, <2>1
    <3>2. s[m + i - 1] = x
      BY <2>3, <2>6
    <3>3. QED
      BY <3>1, <3>2
  <2>7. ASSUME NEW j \in 1..Len(s), j > Len(s) - n, s[j] = x
        PROVE  \E i \in 1..n : t[i] = x
    <3>1. j - m + 1 \in 1..n /\ m + (j - m + 1) - 1 = j
      BY <1>1, <2>1, <2>7
    <3>2. t[j - m + 1] = x
      BY <2>3, <2>7, <3>1
    <3>3. QED
      BY <3>1, <3>2
  <2>8. QED
    BY <2>4, <2>5, <2>6, <2>7
<1>4. QED
  BY <1>2, <1>3

\* The cleanup keeps the newest rows with all their results.
LEMMA CreatedNewest ==
  ASSUME TypeOK, NEW r \in Runs, NEW done \in 0..3, CreateTestRun(r, done)
  PROVE  /\ Newest(KeptRuns)' \subseteq Newest(KeptRuns) \cup {NewRow(r)}
         /\ \A row \in Newest(KeptRuns) : ResultsIn(row.run)' = ResultsIn(row.run)
         /\ saved' \subseteq saved
<1>1. rows \in Seq(Rows) /\ rows' \in Seq(Rows) /\ KeptRuns \in Nat
  BY TestRunnerAssumption, CreateType DEF TypeOK
<1>2. saved' = saved \/ saved' = ResultsKept
  BY DEF CreateTestRun
<1>3. saved' \subseteq saved
  BY <1>2 DEF ResultsKept
<1>4. ASSUME NEW row \in Newest(KeptRuns) PROVE ResultsIn(row.run)' = ResultsIn(row.run)
  <2>1. \A s \in saved : s.run = row.run => s \in ResultsKept
    BY DEF ResultsKept, RunsOf
  <2>2. \A s \in saved : s.run = row.run => s \in saved'
    BY <1>2, <2>1
  <2>3. PICK x : x = row.run
    OBVIOUS
  <2>4. ResultsIn(x)' = ResultsIn(x)
    BY <1>3, <2>2, <2>3 DEF ResultsIn
  <2>5. QED
    BY <2>3, <2>4
<1>5. Newest(KeptRuns)' \subseteq Newest(KeptRuns) \cup {NewRow(r)}
  <2>1. CASE done <= 1
    BY <2>1 DEF CreateTestRun, Newest
  <2>2. CASE done >= 2
    <3>1. RowsKept \in Seq(Rows) /\ Range(RowsKept) = Newest(KeptRuns)
      BY <1>1, LastOfProperties DEF RowsKept, Newest
    <3>2. NewRow(r) \in Rows
      BY TestRunnerAssumption DEF NewRow, Rows
    <3>3. Range(Append(RowsKept, NewRow(r))) = Range(RowsKept) \cup {NewRow(r)}
      BY <3>1, <3>2, RangeOfAppend
    <3>4. rows' = RowsKept \/ rows' = Append(RowsKept, NewRow(r))
      BY <2>2 DEF CreateTestRun
    <3>5. Range(rows') \subseteq Newest(KeptRuns) \cup {NewRow(r)}
      BY <3>1, <3>3, <3>4
    <3>6. Range(LastOf(rows', KeptRuns)) \subseteq Range(rows')
      BY <1>1, LastOfProperties
    <3>7. Newest(KeptRuns)' = Range(LastOf(rows', KeptRuns))
      BY DEF Newest
    <3>8. QED
      BY <3>5, <3>6, <3>7
  <2>3. QED
    BY <2>1, <2>2
<1>6. QED
  BY <1>3, <1>4, <1>5

\* The run that is completed has its row among the newest ones if it had it there.
LEMMA CompletedNewest ==
  ASSUME TypeOK, NEW r \in Runs, NEW results \in Seq(Results), Len(results) <= NTests,
         CompleteTestRun(r, results)
  PROVE  \A row \in Newest(KeptRuns)' :
           row = Summary(r, results) \/ (row \in Newest(KeptRuns) /\ row.run # r)
<1> SUFFICES ASSUME NEW row \in Newest(KeptRuns)'
             PROVE  row = Summary(r, results) \/ (row \in Newest(KeptRuns) /\ row.run # r)
  OBVIOUS
<1>1. /\ rows \in Seq(Rows) /\ rows' \in Seq(Rows) /\ Len(rows') = Len(rows)
      /\ KeptRuns \in Nat
      /\ \A i \in 1..Len(rows) :
           rows'[i] = IF rows[i].run = r THEN Summary(r, results) ELSE rows[i]
  BY TestRunnerAssumption, CompleteType DEF TypeOK
<1>2. row \in Range(LastOf(rows', KeptRuns))
  BY DEF Newest
<1>3. PICK i \in 1..Len(rows') : i > Len(rows') - KeptRuns /\ rows'[i] = row
  BY <1>1, <1>2, InLastOf
<1>4. rows[i] \in Range(LastOf(rows, KeptRuns))
  BY <1>1, <1>3, InLastOf
<1>5. QED
  BY <1>1, <1>3, <1>4 DEF Newest

\* No step writes a result of another run than its own.
LEMMA OtherResults ==
  ASSUME NEW r \in Runs, NEW status, NEW x, x # r,
         saved' = saved \/ saved' = saved \cup {Verdict(r, status)}
  PROVE  ResultsIn(x)' = ResultsIn(x)
  BY DEF ResultsIn, Verdict

\* Its own results grow by the verdict.
LEMMA OwnResults ==
  ASSUME TypeOK, Behind, NEW r \in Runs, NEW status \in {"passed", "failed"},
         runner[r].pc = "race", Stored(r), saved' = saved \cup {Verdict(r, status)}
  PROVE  /\ ResultsIn(r)' = Range(ResultsWith(r, status))
         /\ \A i \in 1..Len(ResultsWith(r, status)) : ResultsWith(r, status)[i].test = i
<1> DEFINE results == runner[r].results
           result == Verdict(r, status).result
<1>1. results \in Seq(Results) /\ Len(results) = runner[r].test - 1 /\ Len(results) \in Nat
  BY RunnerType, LenProperties DEF Behind
<1>2. result \in Results /\ result.test = runner[r].test
  BY RunnerType DEF Verdict, Results
<1>3. ResultsWith(r, status) = Append(results, result)
  BY DEF ResultsWith
<1>4. ResultsIn(r)' = ResultsIn(r) \cup {result}
  BY DEF ResultsIn, Verdict
<1>5. ResultsIn(r) = Range(results) /\ \A i \in 1..Len(results) : results[i].test = i
  BY DEF Stored
<1>6. runner[r].test \in Nat
  BY RunnerType
<1> HIDE DEF results, result
<1>7. /\ Range(Append(results, result)) = Range(results) \cup {result}
      /\ Len(Append(results, result)) = Len(results) + 1
  BY <1>1, <1>2, RangeOfAppend
<1>8. \A i \in 1..(Len(results) + 1) : Append(results, result)[i].test = i
  <2>1. /\ \A i \in 1..Len(results) : Append(results, result)[i] = results[i]
        /\ Append(results, result)[Len(results) + 1] = result
    BY <1>1, <1>2, AppendProperties
  <2>2. ASSUME NEW i \in 1..(Len(results) + 1) PROVE Append(results, result)[i].test = i
    <3>1. CASE i \in 1..Len(results)
      BY <1>5, <2>1, <3>1
    <3>2. CASE i = Len(results) + 1
      <4>1. Len(results) + 1 = runner[r].test
        BY <1>1, <1>6
      <4>2. QED
        BY <1>2, <2>1, <3>2, <4>1
    <3>3. QED
      BY <1>1, <3>1, <3>2
  <2>3. QED
    BY <2>2
<1>9. QED
  BY <1>3, <1>4, <1>5, <1>7, <1>8
\* A run that starts is new to the tables, and the rows that stay keep their results.
LEMMA CreatedWritten ==
  ASSUME TypeOK, LockMatchesRun, Written, NEW r \in Runs, NEW done \in 0..3,
         NEW pc \in {"race", "rejected"}, RetentionHolds,
         runner[r].pc = "new", ~isRunning, CreateTestRun(r, done),
         Goes(r, pc, runner[r].test, runner[r].attempt),
         pc = "race" => runner'[r].results = runner[r].results
  PROVE  Written'
<1>1. \A x \in Runs : ~InProgress(x)
  BY DEF LockMatchesRun
<1>2. \A x \in Runs : InProgress(x)' => x = r /\ pc = "race"
  BY <1>1 DEF Goes, InProgress
<1>3. runner[r].results = <<>> /\ ResultsIn(r) = {} /\ r \notin RunsOf(Range(rows))
  BY DEF Written, Unused
<1>4. /\ Newest(KeptRuns)' \subseteq Newest(KeptRuns) \cup {NewRow(r)}
      /\ \A row \in Newest(KeptRuns) : ResultsIn(row.run)' = ResultsIn(row.run)
      /\ saved' \subseteq saved
  BY CreatedNewest
<1>5. Range(rows') \subseteq Range(rows) \cup {NewRow(r)}
  BY CreatedRows
<1>6. NewRow(r).run = r /\ NewRow(r).status = "running"
  BY DEF NewRow
<1>7. \A x \in Runs : ResultsIn(x) = {} => ResultsIn(x)' = {}
  BY <1>4 DEF ResultsIn
<1>8. ASSUME NEW x \in Runs, InProgress(x)' PROVE Stored(x)'
  <2>1. x = r /\ runner'[r].results = <<>>
    BY <1>2, <1>3, <1>8
  <2>2. ResultsIn(x)' = {}
    BY <1>3, <1>7, <2>1
  <2>3. Range(<<>>) = {} /\ Len(<<>>) = 0
    BY DEF Range
  <2>4. QED
    BY <2>1, <2>2, <2>3 DEF Stored
<1>9. ASSUME NEW x \in Runs, runner'[x].pc = "new" PROVE Unused(x)'
  <2>1. x # r /\ runner'[x] = runner[x]
    BY <1>9 DEF Goes
  <2>2. Unused(x)
    BY <1>9, <2>1 DEF Written
  <2>3. x \notin RunsOf(Range(rows'))
    BY <1>5, <1>6, <2>1, <2>2 DEF Unused, RunsOf
  <2>4. QED
    BY <1>7, <2>1, <2>2, <2>3 DEF Unused
<1>10. ASSUME NEW row \in Range(rows'), InProgress(row.run)' PROVE row.status = "running"
  <2>1. CASE row \in Range(rows)
    <3>1. row.run \in Runs /\ row.run # r
      BY <1>3, <2>1, RunOfRow DEF RunsOf
    <3>2. QED
      BY <1>2, <1>10, <3>1
  <2>2. CASE row = NewRow(r)
    BY <1>6, <2>2
  <2>3. QED
    BY <1>5, <2>1, <2>2
<1>11. ASSUME NEW row \in Newest(KeptRuns)', row.status = "completed"
       PROVE  Agrees(row, ResultsIn(row.run)')
  <2>1. row \in Newest(KeptRuns)
    BY <1>4, <1>6, <1>11
  <2>2. QED
    BY <1>4, <1>11, <2>1 DEF Written
<1>12. QED
  BY <1>8, <1>9, <1>10, <1>11 DEF Written, Agrees

\* The rows stay, and only a run in progress writes results.
LEMMA KeptWritten ==
  ASSUME TypeOK, Written, NEW r \in Runs, NEW pc, NEW test, NEW attempt,
         Goes(r, pc, test, attempt), InProgress(r), pc \in {"race", "pause", "rejected"},
         rows' = rows, \A x : x # r => ResultsIn(x)' = ResultsIn(x),
         pc \in {"race", "pause"} => Stored(r)'
  PROVE  Written'
<1>1. \A x \in Runs : InProgress(x)' => InProgress(x)
  BY DEF Goes, InProgress
<1>2. Newest(KeptRuns)' = Newest(KeptRuns)
  BY DEF Newest
<1>3. \A row \in Newest(KeptRuns) : row \in Range(rows)
  BY LastOfProperties, TestRunnerAssumption DEF Newest, TypeOK
<1>4. ASSUME NEW x \in Runs, InProgress(x)' PROVE Stored(x)'
  <2>1. CASE x = r
    BY <1>4, <2>1 DEF Goes, InProgress
  <2>2. CASE x # r
    BY <1>1, <1>4, <2>2 DEF Written, Stored, Goes
  <2>3. QED
    BY <2>1, <2>2
<1>5. ASSUME NEW x \in Runs, runner'[x].pc = "new" PROVE Unused(x)'
  <2>1. x # r /\ runner'[x] = runner[x]
    BY <1>5 DEF Goes
  <2>2. QED
    BY <1>5, <2>1 DEF Written, Unused
<1>6. ASSUME NEW row \in Newest(KeptRuns), row.status = "completed"
      PROVE  Agrees(row, ResultsIn(row.run)')
  <2>1. row.run # r
    BY <1>3, <1>6 DEF Written
  <2>2. QED
    BY <1>6, <2>1 DEF Written
<1>7. \A row \in Range(rows) : InProgress(row.run)' => row.status = "running"
  BY <1>1, RunOfRow DEF Written
<1>8. QED
  BY <1>2, <1>4, <1>5, <1>6, <1>7 DEF Written

\* The last test is done: the row of the run takes the counts of its results.
LEMMA CompletedWritten ==
  ASSUME TypeOK, Behind, Written, NEW r \in Runs, NEW status \in {"passed", "failed"},
         Completes(r, status)
  PROVE  Written'
<1> DEFINE results == ResultsWith(r, status)
<1>1. /\ runner[r].pc = "race" /\ saved' = saved \cup {Verdict(r, status)}
      /\ Goes(r, "completed", runner[r].test, runner[r].attempt)
      /\ results \in Seq(Results) /\ Len(results) = NTests /\ CompleteTestRun(r, results)
  BY DEF Completes, Decides
<1>2. Stored(r) /\ InProgress(r)
  BY <1>1 DEF Written, InProgress
<1>3. ResultsIn(r)' = Range(results) /\ \A i \in 1..Len(results) : results[i].test = i
  BY <1>1, <1>2, OwnResults
<1>4. PICK s \in Seq(Results) : s = results
  BY <1>1
<1> HIDE DEF results
<1>5. NTests \in Nat /\ Len(s) = NTests /\ Len(s) <= NTests /\ CompleteTestRun(r, s)
  BY <1>1, <1>4, TestRunnerAssumption
<1>6. Agrees(Summary(r, s), ResultsIn(r)')
  BY <1>3, <1>4, <1>5, SummaryAgrees
<1>7. Summary(r, s).run = r
  BY DEF Summary
<1>8. /\ RunsOf(Range(rows')) = RunsOf(Range(rows))
      /\ \A row \in Range(rows') : row.status = "completed" \/ (row \in Range(rows) /\ row.run # r)
  BY <1>5, CompletedRows
<1>9. \A row \in Newest(KeptRuns)' :
        row = Summary(r, s) \/ (row \in Newest(KeptRuns) /\ row.run # r)
  BY <1>5, CompletedNewest
<1>10. \A x \in Runs : InProgress(x)' => InProgress(x) /\ x # r /\ runner'[x] = runner[x]
  BY <1>1 DEF Goes, InProgress
<1>11. \A x : x # r => ResultsIn(x)' = ResultsIn(x)
  BY <1>1, OtherResults
<1>12. ASSUME NEW x \in Runs, InProgress(x)' PROVE Stored(x)'
  BY <1>10, <1>11, <1>12 DEF Written, Stored
<1>13. ASSUME NEW x \in Runs, runner'[x].pc = "new" PROVE Unused(x)'
  <2>1. x # r /\ runner'[x] = runner[x]
    BY <1>1, <1>13 DEF Goes
  <2>2. QED
    BY <1>8, <1>11, <1>13, <2>1 DEF Written, Unused
<1>14. ASSUME NEW row \in Range(rows'), InProgress(row.run)' PROVE row.status = "running"
  <2>1. /\ rows' \in Seq(Rows) /\ Len(rows') = Len(rows)
        /\ \A i \in 1..Len(rows) : rows'[i] = IF rows[i].run = r THEN Summary(r, s) ELSE rows[i]
    BY <1>5, CompleteType
  <2>2. PICK i \in 1..Len(rows) : rows'[i] = row
    BY <2>1, InRange
  <2>3. rows[i] \in Range(rows)
    BY InRange DEF TypeOK
  <2>4. CASE rows[i].run = r
    <3>1. row.run = r
      BY <1>7, <2>1, <2>2, <2>4
    <3>2. QED
      BY <1>10, <1>14, <3>1
  <2>5. CASE rows[i].run # r
    <3>1. row = rows[i] /\ row.run \in Runs
      BY <2>1, <2>2, <2>3, <2>5, RunOfRow
    <3>2. QED
      BY <1>10, <1>14, <2>3, <3>1 DEF Written
  <2>6. QED
    BY <2>4, <2>5
<1>15. ASSUME NEW row \in Newest(KeptRuns)', row.status = "completed"
       PROVE  Agrees(row, ResultsIn(row.run)')
  <2>1. CASE row = Summary(r, s)
    BY <1>6, <1>7, <2>1
  <2>2. CASE row \in Newest(KeptRuns) /\ row.run # r
    BY <1>11, <1>15, <2>2 DEF Written
  <2>3. QED
    BY <1>9, <2>1, <2>2
<1>16. QED
  BY <1>12, <1>13, <1>14, <1>15 DEF Written, Agrees
LEMMA NextWritten == TInv /\ LockMatchesRun /\ Tables /\ Written /\ [Next]_vars => Written'
<1> SUFFICES ASSUME TypeOK, Behind, LockMatchesRun, RetentionHolds, Written, StepOfRuns
             PROVE  Written'
  BY Steps DEF TInv, Tables
<1>1. CASE Nothing
  BY <1>1 DEF Nothing, Written, Stored, Unused, Agrees, InProgress, ResultsIn, RunsOf, Newest
<1>2. ASSUME NEW r \in Runs, Starts(r) PROVE Written'
  BY <1>2, CreatedWritten DEF Starts
<1>3. ASSUME NEW r \in Runs, NEW done \in 0..2, FailsToStart(r, done) PROVE Written'
  <2>1. done \in 0..3
    OBVIOUS
  <2>2. QED
    BY <1>3, <2>1, CreatedWritten DEF FailsToStart
<1>4. ASSUME NEW r \in Runs, NEW status \in {"passed", "failed"}, GoesOn(r, status) PROVE Written'
  <2>1. /\ runner[r].pc = "race" /\ saved' = saved \cup {Verdict(r, status)} /\ rows' = rows
        /\ Goes(r, "race", runner[r].test + 1, 1)
        /\ runner'[r].results = ResultsWith(r, status)
    BY <1>4 DEF GoesOn, Decides
  <2>2. InProgress(r) /\ Stored(r)
    BY <2>1 DEF InProgress, Written
  <2>3. Stored(r)'
    BY <2>1, <2>2, OwnResults DEF Stored
  <2>4. \A x : x # r => ResultsIn(x)' = ResultsIn(x)
    BY <2>1, OtherResults
  <2>5. QED
    BY <2>1, <2>2, <2>3, <2>4, KeptWritten
<1>5. ASSUME NEW r \in Runs, NEW status \in {"passed", "failed"}, Completes(r, status)
      PROVE  Written'
  BY <1>5, CompletedWritten
<1>6. ASSUME NEW r \in Runs, NEW status \in {"passed", "failed"}, Rejects(r, status) PROVE Written'
  <2>1. /\ runner[r].pc = "race" /\ saved' \in {saved, saved \cup {Verdict(r, status)}}
        /\ rows' = rows /\ Goes(r, "rejected", runner[r].test, runner[r].attempt)
    BY <1>6 DEF Rejects, Decides
  <2>2. \A x : x # r => ResultsIn(x)' = ResultsIn(x)
    BY <2>1, OtherResults
  <2>3. InProgress(r)
    BY <2>1 DEF InProgress
  <2>4. QED
    BY <2>1, <2>2, <2>3, KeptWritten
<1>7. ASSUME NEW r \in Runs, Pauses(r) \/ Retries(r) PROVE Written'
  <2>1. PICK pc \in {"race", "pause"}, attempt \in {runner[r].attempt, runner[r].attempt + 1} :
          Goes(r, pc, runner[r].test, attempt)
    BY <1>7 DEF Pauses, Retries
  <2>2. /\ InProgress(r) /\ runner'[r].results = runner[r].results
        /\ rows' = rows /\ saved' = saved
    BY <1>7 DEF Pauses, Retries, InProgress
  <2>3. \A x : ResultsIn(x)' = ResultsIn(x)
    BY <2>2 DEF ResultsIn
  <2>4. Stored(r)
    BY <2>2 DEF Written
  <2>5. Stored(r)'
    BY <2>2, <2>3, <2>4 DEF Stored
  <2>6. QED
    BY <2>1, <2>2, <2>3, <2>5, KeptWritten
<1>8. CASE Ceases
  <2>1. rows' = rows /\ saved' = saved /\ \A x \in Runs : ~InProgress(x)'
    BY <1>8, CeasesRunner DEF Ceases, InProgress
  <2>2. \A x \in Runs : runner'[x].pc = "new" => runner'[x] = runner[x]
    BY <1>8, CeasesRunner
  <2>3. /\ \A x : ResultsIn(x)' = ResultsIn(x)
        /\ Newest(KeptRuns)' = Newest(KeptRuns)
    BY <2>1 DEF ResultsIn, Newest
  <2>4. \A x \in Runs : runner'[x].pc = "new" => Unused(x)'
    BY <2>1, <2>2, <2>3 DEF Written, Unused
  <2>5. \A row \in Range(rows') : ~InProgress(row.run)'
    BY <2>1, RunOfRow
  <2>6. QED
    BY <2>1, <2>3, <2>4, <2>5 DEF Written, Agrees
<1>9. QED
  BY <1>1, <1>2, <1>3, <1>4, <1>5, <1>6, <1>7, <1>8 DEF StepOfRuns

LEMMA InitWritten == Init => Written
<1> SUFFICES ASSUME Init PROVE Written
  OBVIOUS
<1> DEFINE results == [i \in 1..NTests |-> PassedAt(i)]
<1>1. NTests \in Nat /\ KeptRuns \in Nat
  BY TestRunnerAssumption
<1>2. results \in Seq(Results) /\ Len(results) = NTests /\ DOMAIN results = 1..NTests
  <2>1. \A i \in 1..NTests : PassedAt(i) \in Results
    BY DEF PassedAt, Results, Tests, maxAttempts
  <2>2. QED
    BY <1>1, <2>1
<1>3. \A i \in 1..NTests : /\ results[i] = PassedAt(i) /\ results[i].test = i
                           /\ results[i].status = "passed"
  BY DEF PassedAt
<1>4. Range(results) = {PassedAt(i) : i \in Tests}
  BY <1>2, <1>3 DEF Range, Tests
<1> HIDE DEF results
<1>5. \A r : ResultsIn(r) = IF r \in Earlier THEN Range(results) ELSE {}
  <2> SUFFICES ASSUME NEW r PROVE ResultsIn(r) = IF r \in Earlier THEN Range(results) ELSE {}
    OBVIOUS
  <2>1. saved = {[run |-> x, result |-> PassedAt(i)] : x \in Earlier, i \in Tests}
    BY DEF Init
  <2>2. ASSUME NEW y
        PROVE  y \in ResultsIn(r) <=> r \in Earlier /\ \E i \in Tests : y = PassedAt(i)
    <3>1. y \in ResultsIn(r) <=> \E s \in saved : s.run = r /\ s.result = y
      BY DEF ResultsIn
    <3>2. ASSUME NEW s \in saved, s.run = r, s.result = y
          PROVE  r \in Earlier /\ \E i \in Tests : y = PassedAt(i)
      BY <2>1, <3>2
    <3>3. ASSUME r \in Earlier, NEW i \in Tests, y = PassedAt(i)
          PROVE  \E s \in saved : s.run = r /\ s.result = y
      <4>1. [run |-> r, result |-> y] \in saved
        BY <2>1, <3>3
      <4>2. QED
        BY <4>1
    <3>4. QED
      BY <3>1, <3>2, <3>3
  <2>3. QED
    BY <1>4, <2>2
<1>6. /\ EarlierRuns \in Seq(Runs) /\ DOMAIN EarlierRuns = 1..Len(EarlierRuns)
      /\ rows \in Seq(Rows) /\ Len(EarlierRuns) \in Nat
  BY InitTInv, TestRunnerAssumption, LenProperties DEF TInv, TypeOK
<1>7. Len(rows) = Len(EarlierRuns)
  BY <1>6, LenProperties DEF Init
<1>8. \A row \in Range(rows) :
        /\ row.run \in Earlier /\ row.status = "completed"
        /\ row.passed = NTests /\ row.failed = 0
  <2>1. ASSUME NEW row \in Range(rows)
        PROVE  /\ row.run \in Earlier /\ row.status = "completed"
               /\ row.passed = NTests /\ row.failed = 0
    <3>1. PICK i \in 1..Len(EarlierRuns) : rows[i] = row
      BY <1>6, <1>7, InRange
    <3>2. row = [run |-> EarlierRuns[i], status |-> "completed",
                 passed |-> NTests, failed |-> 0, retried |-> 0]
      BY <1>6, <3>1 DEF Init
    <3>3. EarlierRuns[i] \in Earlier
      BY <1>6 DEF Earlier, Range
    <3>4. QED
      BY <3>2, <3>3
  <2>2. QED
    BY <2>1
<1>9. ASSUME NEW row \in Range(rows) PROVE Agrees(row, ResultsIn(row.run))
  <2>1. row.run \in Earlier /\ row.run \in Runs /\ row.passed = NTests /\ row.failed = 0
    BY <1>8, RunOfRow, InitTInv DEF TInv
  <2>2. Agrees(Summary(row.run, results), Range(results))
    BY <1>2, <1>3, <2>1, SummaryAgrees
  <2>3. Summary(row.run, results).passed = NTests /\ Summary(row.run, results).failed = 0
    <3>1. /\ {i \in DOMAIN results : results[i].status = "passed"} = 1..NTests
          /\ {i \in DOMAIN results : results[i].status = "failed"} = {}
      BY <1>2, <1>3
    <3>2. Cardinality(1..NTests) = NTests /\ Cardinality({}) = 0
      BY <1>1, FS_Interval, FS_EmptySet
    <3>3. QED
      BY <3>1, <3>2 DEF Summary
  <2>4. QED
    BY <1>5, <2>1, <2>2, <2>3 DEF Agrees
<1>10. \A row \in Newest(KeptRuns) : row \in Range(rows)
  BY <1>1, <1>6, LastOfProperties DEF Newest
<1>11. \A r \in Runs : ~InProgress(r) /\ runner[r].results = <<>>
  BY DEF Init, InProgress
<1>12. \A r \in Runs : runner[r].pc = "new" => r \notin Earlier
  BY DEF Init
<1>13. \A r \in Runs : runner[r].pc = "new" => Unused(r)
  BY <1>5, <1>8, <1>11, <1>12 DEF Unused, RunsOf
<1>14. \A row \in Range(rows) : ~InProgress(row.run)
  BY <1>11, RunOfRow, InitTInv DEF TInv
<1>15. QED
  BY <1>9, <1>10, <1>11, <1>13, <1>14 DEF Written

\* What the analysis says of a run agrees with the results that it reads of it.
THEOREM AnalysedAreWhole == Spec => []AnalysedRunsAreWhole
<1>1. Init => LockMatchesRun
  BY TestRunnerAssumption DEF Init, LockMatchesRun, InProgress
<1>2. Written => AnalysedRunsAreWhole
  <2> SUFFICES ASSUME Written, NEW row \in Analysed \cap Newest(KeptRuns)
               PROVE  /\ {x.test : x \in ResultsIn(row.run)} = Tests
                      /\ Breakdown(row.run) = [passed |-> row.passed, failed |-> row.failed]
                      /\ row.passed + row.failed = NTests
    BY DEF AnalysedRunsAreWhole
  <2>1. row.status = "completed"
    BY DEF Analysed
  <2>2. Agrees(row, ResultsIn(row.run))
    BY <2>1 DEF Written
  <2>3. QED
    BY <2>2 DEF Agrees, Breakdown
<1>3. QED
  BY <1>1, <1>2, InitTInv, InitTables, InitWritten, NextTInv, NextLock, NextTables, NextWritten,
     PTL DEF Spec

-----------------------------------------------------------------------------
(***************************************************************************)
(* The merge of the demo's thread.  The place of ms[i] is given by the     *)
(* number of those before it: as Precedes is a linear order, that maps the  *)
(* indices K one to one to 1..Cardinality(K).                              *)
(***************************************************************************)
Precedes(ms, i, j) == ms[i].at < ms[j].at \/ (ms[i].at = ms[j].at /\ i < j)

Preceding(ms, K, i) == {j \in K : Precedes(ms, j, i)}

Place(ms, K, i) == Cardinality(Preceding(ms, K, i)) + 1

LEMMA PlaceType ==
  ASSUME NEW ms, NEW K, IsFiniteSet(K), NEW i \in K, ~Precedes(ms, i, i)
  PROVE  /\ Place(ms, K, i) \in 1..Cardinality(K)
         /\ IsFiniteSet(Preceding(ms, K, i))
         /\ Cardinality(Preceding(ms, K, i)) \in Nat
<1>1. Preceding(ms, K, i) \in SUBSET K /\ i \notin Preceding(ms, K, i)
  BY DEF Preceding
<1>2. /\ IsFiniteSet(Preceding(ms, K, i))
      /\ Cardinality(Preceding(ms, K, i)) <= Cardinality(K)
      /\ Cardinality(Preceding(ms, K, i)) # Cardinality(K)
  BY <1>1, FS_Subset
<1>3. Cardinality(Preceding(ms, K, i)) \in Nat /\ Cardinality(K) \in Nat
  BY <1>2, FS_CardinalityType
<1>4. QED
  BY <1>2, <1>3 DEF Place

LEMMA PrecedesIsLinear ==
  ASSUME NEW ms, NEW K \in SUBSET Nat, \A i \in K : ms[i].at \in Nat
  PROVE  /\ \A i \in K : ~Precedes(ms, i, i)
         /\ \A i, j \in K : i # j => Precedes(ms, i, j) \/ Precedes(ms, j, i)
         /\ \A i, j, k \in K : Precedes(ms, i, j) /\ Precedes(ms, j, k) => Precedes(ms, i, k)
<1>1. \A i \in K : i \in Nat /\ ms[i].at \in Nat
  OBVIOUS
<1>2. \A i \in K : ~Precedes(ms, i, i)
  BY <1>1 DEF Precedes
<1>3. ASSUME NEW i \in K, NEW j \in K, i # j PROVE Precedes(ms, i, j) \/ Precedes(ms, j, i)
  BY <1>1, <1>3 DEF Precedes
<1>4. ASSUME NEW i \in K, NEW j \in K, NEW k \in K, Precedes(ms, i, j), Precedes(ms, j, k)
      PROVE  Precedes(ms, i, k)
  <2>1. PICK a, b, c \in Nat : a = ms[i].at /\ b = ms[j].at /\ c = ms[k].at
    BY <1>1
  <2>2. (a < b \/ (a = b /\ i < j)) /\ (b < c \/ (b = c /\ j < k))
    BY <1>4, <2>1 DEF Precedes
  <2>3. a < c \/ (a = c /\ i < k)
    BY <1>1, <2>2
  <2>4. QED
    BY <2>1, <2>3 DEF Precedes
<1>5. QED
  BY <1>2, <1>3, <1>4

LEMMA PlaceGrows ==
  ASSUME NEW ms, NEW K \in SUBSET Nat, IsFiniteSet(K), \A i \in K : ms[i].at \in Nat,
         NEW i \in K, NEW j \in K, Precedes(ms, i, j)
  PROVE  Place(ms, K, i) < Place(ms, K, j)
<1>1. ~Precedes(ms, i, i) /\ ~Precedes(ms, j, j)
  BY PrecedesIsLinear
<1>2. Preceding(ms, K, i) \in SUBSET Preceding(ms, K, j)
  BY PrecedesIsLinear DEF Preceding
<1>3. i \in Preceding(ms, K, j) /\ i \notin Preceding(ms, K, i)
  BY <1>1 DEF Preceding
<1>4. /\ IsFiniteSet(Preceding(ms, K, j))
      /\ Cardinality(Preceding(ms, K, i)) \in Nat
      /\ Cardinality(Preceding(ms, K, j)) \in Nat
  BY <1>1, PlaceType
<1>5. /\ Cardinality(Preceding(ms, K, i)) <= Cardinality(Preceding(ms, K, j))
      /\ Cardinality(Preceding(ms, K, i)) # Cardinality(Preceding(ms, K, j))
  BY <1>2, <1>3, <1>4, FS_Subset
<1>6. QED
  BY <1>4, <1>5 DEF Place

\* ByTime puts each of the messages at its place, and nothing else.
LEMMA ByTimeIs ==
  ASSUME NEW ms, NEW K \in SUBSET Nat, IsFiniteSet(K), \A i \in K : ms[i].at \in Nat
  PROVE  /\ DOMAIN ByTime(ms, K) = 1..Cardinality(K) /\ Cardinality(K) \in Nat
         /\ \A i \in K : /\ Place(ms, K, i) \in 1..Cardinality(K)
                         /\ ByTime(ms, K)[Place(ms, K, i)] = ms[i]
         /\ \A n \in 1..Cardinality(K) : \E i \in K : n = Place(ms, K, i)
<1>1. \A i \in K : /\ Place(ms, K, i) \in 1..Cardinality(K)
                   /\ Cardinality(Preceding(ms, K, i)) \in Nat
  BY PrecedesIsLinear, PlaceType
<1>2. \A i, j \in K : Place(ms, K, i) = Place(ms, K, j) => i = j
  <2> SUFFICES ASSUME NEW i \in K, NEW j \in K, i # j
               PROVE  Place(ms, K, i) # Place(ms, K, j)
    OBVIOUS
  <2>1. Place(ms, K, i) \in Nat /\ Place(ms, K, j) \in Nat
    BY <1>1
  <2>2. Precedes(ms, i, j) \/ Precedes(ms, j, i)
    BY PrecedesIsLinear
  <2>3. Place(ms, K, i) < Place(ms, K, j) \/ Place(ms, K, j) < Place(ms, K, i)
    BY <2>2, PlaceGrows
  <2>4. QED
    BY <2>1, <2>3
<1>3. Cardinality(K) \in Nat
  BY FS_CardinalityType
<1>4. \A n \in 1..Cardinality(K) : \E i \in K : n = Place(ms, K, i)
  <2> DEFINE f == [i \in K |-> Place(ms, K, i)]
  <2>1. f \in Injection(K, 1..Cardinality(K))
    BY <1>1, <1>2 DEF Injection, IsInjective
  <2>2. IsFiniteSet(1..Cardinality(K)) /\ Cardinality(1..Cardinality(K)) = Cardinality(K)
    <3>1. 1 \in Int /\ Cardinality(K) \in Int
      BY <1>3
    <3>2. /\ IsFiniteSet(1..Cardinality(K))
          /\ Cardinality(1..Cardinality(K)) =
               IF 1 > Cardinality(K) THEN 0 ELSE Cardinality(K) - 1 + 1
      BY <3>1, FS_Interval
    <3>3. QED
      BY <1>3, <3>2
  <2>3. f \in Surjection(K, 1..Cardinality(K))
    BY <2>1, <2>2, FS_Injection
  <2>4. QED
    BY <2>3 DEF Surjection
<1>5. ByTime(ms, K) =
        [n \in 1..Cardinality(K) |->
           ms[CHOOSE i \in K : Cardinality(Preceding(ms, K, i)) = n - 1]]
  BY DEF ByTime, Preceding, Precedes
<1>6. ASSUME NEW i \in K PROVE ByTime(ms, K)[Place(ms, K, i)] = ms[i]
  <2>1. PICK n : n = Place(ms, K, i)
    OBVIOUS
  <2>2. n \in 1..Cardinality(K) /\ Cardinality(Preceding(ms, K, i)) = n - 1
    <3>1. PICK c \in Nat : c = Cardinality(Preceding(ms, K, i))
      BY <1>1
    <3>2. n = c + 1 /\ n \in 1..Cardinality(K)
      BY <1>1, <2>1, <3>1 DEF Place
    <3>3. QED
      BY <3>1, <3>2
  <2>3. \A j \in K : Cardinality(Preceding(ms, K, j)) = n - 1 => j = i
    BY <1>1, <1>2, <2>2 DEF Place
  <2>4. (CHOOSE j \in K : Cardinality(Preceding(ms, K, j)) = n - 1) = i
    BY <2>2, <2>3
  <2>5. QED
    BY <1>5, <2>1, <2>2, <2>4
<1>7. DOMAIN ByTime(ms, K) = 1..Cardinality(K)
  BY <1>5
<1>8. QED
  BY <1>1, <1>3, <1>4, <1>6, <1>7

LEMMA LeastIndex ==
  ASSUME NEW T \in SUBSET Nat, T # {}
  PROVE  \E x \in T : \A y \in T : x <= y
<1>1. IsWellFoundedOn(OpToRel(<, Nat), Nat)
  BY NatLessThanWellFounded
<1>2. PICK x \in T : \A y \in T : ~(<<y, x>> \in OpToRel(<, Nat))
  BY <1>1, WFMin
<1>3. \A y \in T : ~(y < x)
  BY <1>2 DEF OpToRel
<1>4. QED
  BY <1>3

LEMMA FirstsAre ==
  ASSUME NEW ms \in Seq(Message)
  PROVE  /\ FirstOfEachId(ms) \in SUBSET Nat /\ FirstOfEachId(ms) \subseteq DOMAIN ms
         /\ IsFiniteSet(FirstOfEachId(ms))
         /\ \A i, j \in FirstOfEachId(ms) : ms[i].id = ms[j].id => i = j
         /\ \A i \in DOMAIN ms : \E k \in FirstOfEachId(ms) : ms[k].id = ms[i].id
<1>1. DOMAIN ms = 1..Len(ms) /\ Len(ms) \in Nat
  BY LenProperties
<1>2. FirstOfEachId(ms) \in SUBSET DOMAIN ms
  BY DEF FirstOfEachId
<1>3. IsFiniteSet(FirstOfEachId(ms))
  <2>1. 1 \in Int /\ Len(ms) \in Int
    BY <1>1
  <2>2. IsFiniteSet(1..Len(ms))
    BY <2>1, FS_Interval
  <2>3. QED
    BY <1>1, <1>2, <2>2, FS_Subset
<1>4. ASSUME NEW i \in FirstOfEachId(ms), NEW j \in FirstOfEachId(ms), ms[i].id = ms[j].id
      PROVE  i = j
  <2>1. i \in DOMAIN ms /\ j \in DOMAIN ms /\ i <= j /\ j <= i
    BY <1>4 DEF FirstOfEachId
  <2>2. QED
    BY <1>1, <2>1
<1>5. ASSUME NEW i \in DOMAIN ms
      PROVE  \E k \in FirstOfEachId(ms) : ms[k].id = ms[i].id
  <2> DEFINE same == {j \in DOMAIN ms : ms[j].id = ms[i].id}
  <2>1. same \in SUBSET Nat /\ i \in same
    BY <1>1
  <2>2. PICK k \in same : \A j \in same : k <= j
    BY <2>1, LeastIndex
  <2>3. QED
    BY <2>2 DEF FirstOfEachId
<1>6. QED
  BY <1>1, <1>2, <1>3, <1>4, <1>5

\* The thread: oldest first, and no message twice.
ArrangedOnce(ms) ==
  \A i, j \in DOMAIN ms : i < j => ms[i].at <= ms[j].at /\ ms[i].id # ms[j].id

IsIn(m, ms) == \E i \in DOMAIN ms : ms[i] = m

HasId(id, ms) == \E i \in DOMAIN ms : ms[i].id = id

\* What a merge makes of an arranged thread: it is arranged again, has the
\* messages of both, and those that it had are in the same order.
LEMMA MergeIs ==
  ASSUME NEW old \in Seq(Message), NEW new \in Seq(Message), ArrangedOnce(old),
         NEW t, t = MergeDirectMessages(old, new)
  PROVE  /\ t \in Seq(Message)
         /\ ArrangedOnce(t)
         /\ \A n \in DOMAIN t : IsIn(t[n], old) \/ IsIn(t[n], new)
         /\ \A i \in DOMAIN old : \E n \in DOMAIN t : t[n] = old[i]
         /\ \A i \in DOMAIN new : HasId(new[i].id, t)
         /\ \A i, j \in DOMAIN old : i < j =>
              \E k, l \in DOMAIN t : k < l /\ t[k] = old[i] /\ t[l] = old[j]
<1>1. PICK ms : ms = old \o new
  OBVIOUS
<1>2. /\ ms \in Seq(Message)
      /\ DOMAIN old = 1..Len(old) /\ DOMAIN new = 1..Len(new)
      /\ DOMAIN ms = 1..(Len(old) + Len(new)) /\ Len(old) \in Nat /\ Len(new) \in Nat
      /\ \A i \in 1..(Len(old) + Len(new)) :
           ms[i] = IF i <= Len(old) THEN old[i] ELSE new[i - Len(old)]
  BY <1>1, ConcatProperties, LenProperties
<1>3. \A i \in DOMAIN ms : ms[i] \in Message /\ ms[i].at \in Nat
  <2>1. \A i \in DOMAIN ms : ms[i] \in Message
    BY <1>2, LenProperties
  <2>2. QED
    BY <2>1, DemoAssumption DEF Message
<1>4. PICK K : K = FirstOfEachId(ms)
  OBVIOUS
<1>5. /\ K \in SUBSET Nat /\ K \subseteq DOMAIN ms /\ IsFiniteSet(K)
      /\ \A i, j \in K : ms[i].id = ms[j].id => i = j
      /\ \A i \in DOMAIN ms : \E k \in K : ms[k].id = ms[i].id
  BY <1>2, <1>4, FirstsAre
<1>6. t = ByTime(ms, K)
  BY <1>1, <1>4 DEF MergeDirectMessages
<1>7. \A i \in K : ms[i].at \in Nat
  BY <1>3, <1>5
<1>8. /\ DOMAIN t = 1..Cardinality(K) /\ Cardinality(K) \in Nat
      /\ \A i \in K : Place(ms, K, i) \in DOMAIN t /\ t[Place(ms, K, i)] = ms[i]
      /\ \A n \in DOMAIN t : \E i \in K : n = Place(ms, K, i)
  <2>1. K \in SUBSET Nat /\ IsFiniteSet(K)
    BY <1>5
  <2>2. /\ DOMAIN ByTime(ms, K) = 1..Cardinality(K) /\ Cardinality(K) \in Nat
        /\ \A i \in K : /\ Place(ms, K, i) \in 1..Cardinality(K)
                        /\ ByTime(ms, K)[Place(ms, K, i)] = ms[i]
        /\ \A n \in 1..Cardinality(K) : \E i \in K : n = Place(ms, K, i)
    BY <1>7, <2>1, ByTimeIs
  <2>3. QED
    BY <1>6, <2>2
<1>9. \A n \in DOMAIN t : \E i \in K : t[n] = ms[i] /\ n = Place(ms, K, i)
  BY <1>8
<1>10. t \in Seq(Message)
  <2>1. \A n \in 1..Cardinality(K) : t[n] \in Message
    BY <1>3, <1>5, <1>8, <1>9
  <2>2. t = [n \in 1..Cardinality(K) |-> t[n]]
    <3>1. t = [n \in 1..Cardinality(K) |->
                 ms[CHOOSE i \in K : Cardinality(Preceding(ms, K, i)) = n - 1]]
      BY <1>6 DEF ByTime, Preceding, Precedes
    <3>2. QED
      BY <3>1
  <2>3. QED
    BY <1>8, <2>1, <2>2, SeqDef
<1>11. ArrangedOnce(t)
  <2> SUFFICES ASSUME NEW n \in DOMAIN t, NEW o \in DOMAIN t, n < o
               PROVE  t[n].at <= t[o].at /\ t[n].id # t[o].id
    BY DEF ArrangedOnce
  <2>1. PICK i, j \in K : /\ t[n] = ms[i] /\ n = Place(ms, K, i)
                          /\ t[o] = ms[j] /\ o = Place(ms, K, j)
    BY <1>9
  <2>2. n \in Nat /\ o \in Nat
    BY <1>8
  <2>3. i # j
    BY <2>1, <2>2
  <2>4. ~Precedes(ms, j, i)
    <3>1. Precedes(ms, j, i) => Place(ms, K, j) < Place(ms, K, i)
      BY <1>5, <1>7, PlaceGrows
    <3>2. QED
      BY <2>1, <2>2, <3>1
  <2>5. Precedes(ms, i, j)
    BY <1>5, <1>7, <2>3, <2>4, PrecedesIsLinear
  <2>6. ms[i].at <= ms[j].at
    BY <1>7, <2>5 DEF Precedes
  <2>7. QED
    BY <1>5, <2>1, <2>3, <2>6
<1>12. DOMAIN old \subseteq K /\ \A i \in DOMAIN old : ms[i] = old[i]
  <2>1. \A i \in DOMAIN old : i \in DOMAIN ms /\ ms[i] = old[i]
    BY <1>2
  <2>2. ASSUME NEW i \in DOMAIN old, NEW j \in DOMAIN ms, ms[j].id = ms[i].id, ~(i <= j)
        PROVE  FALSE
    <3>1. j \in DOMAIN old /\ j < i
      BY <1>2, <2>2
    <3>2. old[j].id # old[i].id
      BY <3>1 DEF ArrangedOnce
    <3>3. QED
      BY <2>1, <2>2, <3>1, <3>2
  <2>3. QED
    BY <1>4, <2>1, <2>2 DEF FirstOfEachId
<1>13. ASSUME NEW n \in DOMAIN t
       PROVE  IsIn(t[n], old) \/ IsIn(t[n], new)
  <2>1. PICK i \in K : t[n] = ms[i]
    BY <1>9
  <2>2. CASE i <= Len(old)
    <3>1. i \in DOMAIN old /\ ms[i] = old[i]
      BY <1>2, <1>5, <2>2
    <3>2. QED
      BY <2>1, <3>1 DEF IsIn
  <2>3. CASE ~(i <= Len(old))
    <3>1. i - Len(old) \in DOMAIN new /\ ms[i] = new[i - Len(old)]
      BY <1>2, <1>5, <2>3
    <3>2. QED
      BY <2>1, <3>1 DEF IsIn
  <2>4. QED
    BY <2>2, <2>3
<1>14. \A i \in DOMAIN old : \E n \in DOMAIN t : t[n] = old[i]
  BY <1>8, <1>12
<1>15. ASSUME NEW i \in DOMAIN new PROVE HasId(new[i].id, t)
  <2>1. Len(old) + i \in DOMAIN ms /\ ms[Len(old) + i] = new[i]
    BY <1>2
  <2>2. PICK k \in K : ms[k].id = new[i].id
    BY <1>5, <2>1
  <2>3. QED
    BY <1>8, <2>2 DEF HasId
<1>16. ASSUME NEW i \in DOMAIN old, NEW j \in DOMAIN old, i < j
       PROVE  \E k, l \in DOMAIN t : k < l /\ t[k] = old[i] /\ t[l] = old[j]
  <2>1. i \in K /\ j \in K /\ ms[i] = old[i] /\ ms[j] = old[j]
    BY <1>12
  <2>2. old[i].at <= old[j].at
    BY <1>16 DEF ArrangedOnce
  <2>3. Precedes(ms, i, j)
    BY <1>7, <1>16, <2>1, <2>2 DEF Precedes
  <2>4. Place(ms, K, i) < Place(ms, K, j)
    BY <1>5, <1>7, <2>1, <2>3, PlaceGrows
  <2>5. QED
    BY <1>8, <2>1, <2>4
<1>17. QED
  BY <1>10, <1>11, <1>13, <1>14, <1>15, <1>16

LEMMA MergeHasAll ==
  ASSUME NEW old \in Seq(Message), NEW new \in Seq(Message), ArrangedOnce(old),
         NEW i \in DOMAIN new
  PROVE  HasId(new[i].id, MergeDirectMessages(old, new))
<1>1. PICK t : t = MergeDirectMessages(old, new)
  OBVIOUS
<1>2. \A j \in DOMAIN new : HasId(new[j].id, t)
  BY <1>1, MergeIs
<1>3. QED
  BY <1>1, <1>2

LEMMA MergeAdds ==
  ASSUME NEW old \in Seq(Message), NEW new \in Seq(Message), ArrangedOnce(old),
         NEW n \in DOMAIN MergeDirectMessages(old, new)
  PROVE  \/ IsIn(MergeDirectMessages(old, new)[n], old)
         \/ IsIn(MergeDirectMessages(old, new)[n], new)
<1>1. PICK t : t = MergeDirectMessages(old, new)
  OBVIOUS
<1>2. \A m \in DOMAIN t : IsIn(t[m], old) \/ IsIn(t[m], new)
  BY <1>1, MergeIs
<1>3. QED
  BY <1>1, <1>2

-----------------------------------------------------------------------------
(***************************************************************************)
(* The demo page: types.  A panel is busy while its request is under way,  *)
(* and what the server makes of a text has it.                             *)
(***************************************************************************)
Forms ==
  /\ \A u \in Users :
       /\ step[u] = "idle" <=> sending[u] = NoText
       /\ step[u] \in {"made", "accepted"} => /\ message[u] \in Message
                                              /\ message[u].text = sending[u]
  /\ sending["sysmaint"] # NoText => <<sending["sysmaint"], "user">> \in log

FailuresCounted == \A t \in Texts : failures[t] <= errors

DTInv == DemoTypeOK /\ Forms /\ ArrangedOnce(thread) /\ FailuresCounted

LEMMA UsersArePanels == Users \subseteq Panels /\ "sysmaint" \in Panels /\ "sysmaint" \notin Users
  BY DEF Panels, Users

LEMMA InitDTInv == DemoInit => DTInv
<1> SUFFICES ASSUME DemoInit PROVE DTInv
  OBVIOUS
<1>1. \A t \in Texts : failures[t] = 0 /\ 0 \in 0..MaxErrors
  BY DemoAssumption DEF DemoInit
<1>2. DemoTypeOK
  BY <1>1, DemoAssumption DEF DemoInit, DemoTypeOK
<1>3. Forms
  BY UsersArePanels DEF DemoInit, Forms
<1>4. ArrangedOnce(thread)
  BY DEF DemoInit, ArrangedOnce
<1>5. FailuresCounted
  BY <1>1 DEF DemoInit, FailuresCounted
<1>6. QED
  BY <1>2, <1>3, <1>4, <1>5 DEF DTInv

LEMMA NewMessageIs ==
  ASSUME DTInv, NEW u \in Users, step[u] = "requested"
  PROVE  /\ NewMessage(u) \in Message /\ NewMessage(u).text = sending[u]
         /\ NewMessage(u).id = made + 1 /\ sending[u] \in Texts
<1>1. sending[u] \in Texts
  BY UsersArePanels DEF DTInv, DemoTypeOK, Forms
<1>2. QED
  BY <1>1 DEF NewMessage, Message, DTInv, DemoTypeOK

LEMMA SentText ==
  ASSUME DTInv, NEW u \in Users, step[u] # "idle"
  PROVE  sending[u] \in Texts
  BY UsersArePanels DEF DTInv, DemoTypeOK, Forms

LEMMA PostedType ==
  ASSUME DTInv, NEW u \in Users, step[u] = "made"
  PROVE  Posted(u) \subseteq Message
  BY DEF Posted, DTInv, DemoTypeOK, Forms

LEMMA FinishType ==
  ASSUME DTInv, NEW u \in Users, Finish(u)
  PROVE  /\ sending' \in [Panels -> Texts \cup {NoText}]
         /\ message' \in [Users -> Message \cup {NoMessage}]
         /\ step' \in [Users -> {"idle", "requested", "made", "accepted"}]
         /\ \A v \in Users :
              /\ step'[v] = "idle" <=> sending'[v] = NoText
              /\ step'[v] \in {"made", "accepted"} => /\ message'[v] \in Message
                                                      /\ message'[v].text = sending'[v]
         /\ sending'["sysmaint"] = sending["sysmaint"]
<1>1. /\ sending' = [sending EXCEPT ![u] = NoText]
      /\ message' = [message EXCEPT ![u] = NoMessage]
      /\ step' = [step EXCEPT ![u] = "idle"]
  BY DEF Finish
<1>2. /\ sending \in [Panels -> Texts \cup {NoText}]
      /\ message \in [Users -> Message \cup {NoMessage}]
      /\ step \in [Users -> {"idle", "requested", "made", "accepted"}]
  BY DEF DTInv, DemoTypeOK
<1>3. /\ sending' \in [Panels -> Texts \cup {NoText}]
      /\ message' \in [Users -> Message \cup {NoMessage}]
      /\ step' \in [Users -> {"idle", "requested", "made", "accepted"}]
  BY <1>1, <1>2
<1>4. sending'["sysmaint"] = sending["sysmaint"]
  BY <1>1, <1>2, UsersArePanels
<1>5. ASSUME NEW v \in Users
      PROVE  /\ step'[v] = "idle" <=> sending'[v] = NoText
             /\ step'[v] \in {"made", "accepted"} => /\ message'[v] \in Message
                                                     /\ message'[v].text = sending'[v]
  <2>1. CASE v = u
    BY <1>1, <1>2, <2>1, UsersArePanels
  <2>2. CASE v # u
    <3>1. step'[v] = step[v] /\ sending'[v] = sending[v] /\ message'[v] = message[v]
      BY <1>1, <1>2, <2>2, UsersArePanels
    <3>2. QED
      BY <3>1 DEF DTInv, Forms
  <2>3. QED
    BY <2>1, <2>2
<1>6. QED
  BY <1>3, <1>4, <1>5

LEMMA ThreadType ==
  ASSUME DTInv, NEW new \in Seq(Message), thread' = MergeDirectMessages(thread, new)
  PROVE  thread' \in Seq(Message) /\ ArrangedOnce(thread')
<1>1. thread \in Seq(Message) /\ ArrangedOnce(thread)
  BY DEF DTInv, DemoTypeOK
<1>2. QED
  BY <1>1, MergeIs

LEMMA OneMore ==
  ASSUME DTInv, errors < MaxErrors, errors' = errors + 1
  PROVE  /\ errors' \in 0..MaxErrors
         /\ \A t \in Texts : failures[t] <= errors' /\ failures[t] + 1 <= errors'
                            /\ failures[t] + 1 \in 0..MaxErrors
<1>1. /\ errors \in Nat /\ MaxErrors \in Nat
      /\ \A t \in Texts : failures[t] \in Nat /\ failures[t] <= errors
  <2>1. errors \in 0..MaxErrors /\ \A t \in Texts : failures[t] \in 0..MaxErrors
    BY DEF DTInv, DemoTypeOK
  <2>2. QED
    BY <2>1, DemoAssumption DEF DTInv, FailuresCounted
<1>2. QED
  BY <1>1

LEMMA EndPollType ==
  ASSUME DTInv, NEW k \in polling, EndPoll(k)
  PROVE  /\ polling' \subseteq Polls /\ reader' \in Polls \cup {NoPoll}
         /\ got' \in [Polls -> Seq(Message)]
  BY DEF DTInv, DemoTypeOK, EndPoll

\* The state that the parts of DTInv are about, but for the thread.
LEMMA NextDTInv == DTInv /\ [DemoNext]_demoVars => DTInv'
<1> SUFFICES ASSUME DTInv, [DemoNext]_demoVars PROVE DTInv'
  OBVIOUS
<1> USE UsersArePanels
<1>1. ASSUME NEW x \in Panels, NEW t \in Texts, Type(x, t) PROVE DTInv'
  <2>1. draft' \in [Panels -> Texts \cup {NoText}] /\ dropped' \subseteq Texts
    BY <1>1 DEF Type, Dropping, DTInv, DemoTypeOK
  <2>2. DemoTypeOK'
    BY <1>1, <2>1 DEF Type, DTInv, DemoTypeOK, serverVars, pollVars, statusVars
  <2>3. QED
    BY <1>1, <2>2 DEF Type, DTInv, Forms, FailuresCounted, serverVars, pollVars, statusVars
<1>2. ASSUME NEW x \in Panels, Submit(x) PROVE DTInv'
  <2>1. draft[x] \in Texts
    BY <1>2 DEF Submit, DTInv, DemoTypeOK
  <2>2. /\ draft' \in [Panels -> Texts \cup {NoText}]
        /\ sending' \in [Panels -> Texts \cup {NoText}]
        /\ step' \in [Users -> {"idle", "requested", "made", "accepted"}]
        /\ log' \subseteq (Texts \cup Message) \X {"user", "bot", "error", "auto"}
    BY <1>2, <2>1 DEF Submit, DTInv, DemoTypeOK
  <2>3. DemoTypeOK'
    BY <1>2, <2>2 DEF Submit, DTInv, DemoTypeOK, pollVars
  <2>4. Forms'
    <3>1. /\ sending' = [sending EXCEPT ![x] = draft[x]] /\ draft[x] # NoText
          /\ UNCHANGED message
          /\ x \in Users => step' = [step EXCEPT ![x] = "requested"] /\ UNCHANGED log
          /\ x \notin Users => log' = log \cup {<<draft[x], "user">>} /\ UNCHANGED step
      BY <1>2 DEF Submit
    <3>2. /\ sending \in [Panels -> Texts \cup {NoText}]
          /\ step \in [Users -> {"idle", "requested", "made", "accepted"}]
      BY DEF DTInv, DemoTypeOK
    <3>3. ASSUME NEW u \in Users
          PROVE  /\ step'[u] = "idle" <=> sending'[u] = NoText
                 /\ step'[u] \in {"made", "accepted"} => /\ message'[u] \in Message
                                                         /\ message'[u].text = sending'[u]
      <4>1. CASE u = x
        BY <3>1, <3>2, <4>1
      <4>2. CASE u # x
        <5>1. step'[u] = step[u] /\ sending'[u] = sending[u] /\ message'[u] = message[u]
          BY <3>1, <3>2, <4>2
        <5>2. QED
          BY <5>1 DEF DTInv, Forms
      <4>3. QED
        BY <4>1, <4>2
    <3>4. sending'["sysmaint"] # NoText => <<sending'["sysmaint"], "user">> \in log'
      <4>1. CASE x \in Users
        BY <3>1, <3>2, <4>1 DEF DTInv, Forms
      <4>2. CASE x \notin Users
        <5>1. x = "sysmaint"
          BY <4>2 DEF Panels
        <5>2. QED
          BY <3>1, <3>2, <4>2, <5>1
      <4>3. QED
        BY <4>1, <4>2
    <3>5. QED
      BY <3>3, <3>4 DEF Forms
  <2>5. QED
    BY <1>2, <2>3, <2>4 DEF Submit, DTInv, FailuresCounted, pollVars
<1>3. ASSUME NEW u \in Users, MakeMessage(u) PROVE DTInv'
  <2>1. /\ step[u] = "requested" /\ made' = made + 1
        /\ message' = [message EXCEPT ![u] = NewMessage(u)]
        /\ step' = [step EXCEPT ![u] = "made"]
        /\ UNCHANGED <<sending, log>>
    BY <1>3 DEF MakeMessage, formVars, statusVars
  <2>2. NewMessage(u) \in Message /\ NewMessage(u).text = sending[u] /\ sending[u] \in Texts
    BY <2>1, NewMessageIs
  <2>3. DemoTypeOK'
    BY <1>3, <2>1, <2>2 DEF MakeMessage, DTInv, DemoTypeOK, formVars, pollVars, statusVars
  <2>4. Forms'
    <3>1. ASSUME NEW v \in Users
          PROVE  /\ step'[v] = "idle" <=> sending'[v] = NoText
                 /\ step'[v] \in {"made", "accepted"} => /\ message'[v] \in Message
                                                         /\ message'[v].text = sending'[v]
      BY <2>1, <2>2, DemoAssumption DEF DTInv, DemoTypeOK, Forms
    <3>2. QED
      BY <2>1, <3>1 DEF DTInv, Forms
  <2>5. QED
    BY <1>3, <2>3, <2>4
    DEF MakeMessage, DTInv, FailuresCounted, formVars, pollVars, statusVars
<1>4. ASSUME NEW u \in Users, Post(u) PROVE DTInv'
  <2>1. DemoTypeOK'
    BY <1>4, PostedType DEF Post, DTInv, DemoTypeOK, formVars, statusVars
  <2>2. Forms'
    BY <1>4 DEF Post, DTInv, DemoTypeOK, Forms, formVars, statusVars
  <2>3. QED
    BY <1>4, <2>1, <2>2 DEF Post, DTInv, FailuresCounted, formVars, statusVars
<1>5. ASSUME NEW u \in Users, Answer(u) PROVE DTInv'
  <2>1. step[u] = "accepted" /\ Finish(u) /\ UNCHANGED <<log, failures, errors>>
        /\ thread' = MergeDirectMessages(thread, <<message[u]>>)
    BY <1>5 DEF Answer
  <2>2. message[u] \in Message /\ <<message[u]>> \in Seq(Message)
    BY <2>1 DEF DTInv, Forms
  <2>3. thread' \in Seq(Message) /\ ArrangedOnce(thread')
    BY <2>1, <2>2, ThreadType
  <2>4. DemoTypeOK'
    BY <1>5, <2>1, <2>2, <2>3, FinishType DEF Answer, DTInv, DemoTypeOK, pollVars
  <2>5. Forms'
    BY <2>1, FinishType DEF DTInv, Forms
  <2>6. QED
    BY <2>1, <2>3, <2>4, <2>5 DEF DTInv, FailuresCounted
<1>6. ASSUME NEW u \in Users, SendFails(u) PROVE DTInv'
  <2>1. /\ step[u] # "idle" /\ errors < MaxErrors /\ errors' = errors + 1
        /\ failures' = [failures EXCEPT ![sending[u]] = @ + 1]
        /\ draft' = [draft EXCEPT ![u] = sending[u]]
        /\ dropped' = dropped \cup ({draft[u]} \ {NoText})
        /\ Finish(u) /\ UNCHANGED <<thread, log>>
    BY <1>6 DEF SendFails, Restored, Dropping, statusVars
  <2>2. sending[u] \in Texts
    BY <2>1, SentText
  <2>3. failures' \in [Texts -> 0..MaxErrors] /\ FailuresCounted'
    BY <2>1, <2>2, OneMore DEF DTInv, DemoTypeOK, FailuresCounted
  <2>4. mailbox' \subseteq Message /\ made' \in Nat
    <3>1. step[u] = "requested" => NewMessage(u) \in Message
      BY NewMessageIs
    <3>2. QED
      BY <1>6, <3>1, PostedType DEF SendFails, DTInv, DemoTypeOK
  <2>5. draft' \in [Panels -> Texts \cup {NoText}] /\ dropped' \subseteq Texts
    BY <2>1, <2>2 DEF DTInv, DemoTypeOK
  <2>6. DemoTypeOK'
    BY <1>6, <2>1, <2>3, <2>4, <2>5, OneMore, FinishType
    DEF SendFails, DTInv, DemoTypeOK, statusVars
  <2>7. Forms'
    BY <2>1, FinishType DEF DTInv, Forms
  <2>8. QED
    BY <2>1, <2>3, <2>6, <2>7 DEF DTInv
<1>7. ASSUME NEW k \in Polls, StartPoll(k) PROVE DTInv'
  <2>1. DemoTypeOK'
    BY <1>7 DEF StartPoll, DTInv, DemoTypeOK, formVars, serverVars, statusVars
  <2>2. QED
    BY <1>7, <2>1
    DEF StartPoll, DTInv, Forms, FailuresCounted, formVars, serverVars, statusVars
<1>8. ASSUME NEW k \in Polls, PollAnswered(k) PROVE DTInv'
  <2>1. k \in polling /\ EndPoll(k) /\ thread' = MergeDirectMessages(thread, got[k])
    BY <1>8 DEF PollAnswered
  <2>2. got[k] \in Seq(Message)
    BY DEF DTInv, DemoTypeOK
  <2>3. thread' \in Seq(Message) /\ ArrangedOnce(thread')
    BY <2>1, <2>2, ThreadType
  <2>4. DemoTypeOK'
    BY <1>8, <2>1, <2>3, EndPollType
    DEF PollAnswered, DTInv, DemoTypeOK, formVars, serverVars, statusVars
  <2>5. QED
    BY <1>8, <2>3, <2>4
    DEF PollAnswered, DTInv, Forms, FailuresCounted, formVars, serverVars, statusVars
<1>9. ASSUME NEW k \in Polls, PollFails(k) PROVE DTInv'
  <2>1. k \in polling /\ EndPoll(k) /\ errors < MaxErrors /\ errors' = errors + 1
    BY <1>9 DEF PollFails
  <2>2. DemoTypeOK'
    BY <1>9, <2>1, EndPollType, OneMore
    DEF PollFails, DTInv, DemoTypeOK, formVars, serverVars, statusVars
  <2>3. QED
    BY <1>9, <2>1, <2>2, OneMore
    DEF PollFails, DTInv, Forms, FailuresCounted, formVars, serverVars, statusVars
<1>10. ASSUME NEW m \in mailbox, Take(m) PROVE DTInv'
  <2>1. m \in Message /\ reader \in Polls /\ got[reader] \in Seq(Message)
    BY <1>10 DEF Take, DTInv, DemoTypeOK
  <2>2. Append(got[reader], m) \in Seq(Message)
    BY <2>1, AppendProperties
  <2>3. got' \in [Polls -> Seq(Message)]
    BY <1>10, <2>2 DEF Take, DTInv, DemoTypeOK
  <2>4. DemoTypeOK'
    BY <1>10, <2>3 DEF Take, DTInv, DemoTypeOK, formVars, serverVars, statusVars
  <2>5. QED
    BY <1>10, <2>4 DEF Take, DTInv, Forms, FailuresCounted, formVars, serverVars, statusVars
<1>11. ASSUME NEW m \in mailbox, TakeInVain(m) PROVE DTInv'
  <2>1. errors < MaxErrors /\ errors' = errors + 1
    BY <1>11 DEF TakeInVain
  <2>2. DemoTypeOK'
    BY <1>11, <2>1, OneMore
    DEF TakeInVain, DTInv, DemoTypeOK, formVars, serverVars, statusVars
  <2>3. QED
    BY <1>11, <2>1, <2>2, OneMore
    DEF TakeInVain, DTInv, Forms, FailuresCounted, formVars, serverVars, statusVars
<1>12. CASE PromptAnswered \/ PromptFails
  <2>1. /\ sending["sysmaint"] # NoText
        /\ sending' = [sending EXCEPT !["sysmaint"] = NoText]
        /\ \E kind \in {"bot", "error"} : log' = log \cup {<<sending["sysmaint"], kind>>}
        /\ UNCHANGED <<draft, serverVars, clock, pollVars, thread, autos, typed, failures, dropped>>
        /\ UNCHANGED errors \/ (errors < MaxErrors /\ errors' = errors + 1)
    BY <1>12 DEF PromptAnswered, PromptFails
  <2>2. sending["sysmaint"] \in Texts
    BY <2>1 DEF DTInv, DemoTypeOK
  <2>3. errors' \in 0..MaxErrors /\ FailuresCounted'
    BY <2>1, OneMore DEF DTInv, DemoTypeOK, FailuresCounted
  <2>4. /\ sending' \in [Panels -> Texts \cup {NoText}]
        /\ log' \subseteq (Texts \cup Message) \X {"user", "bot", "error", "auto"}
    BY <2>1, <2>2 DEF DTInv, DemoTypeOK
  <2>5. DemoTypeOK'
    BY <2>1, <2>3, <2>4 DEF DTInv, DemoTypeOK, serverVars, pollVars
  <2>6. Forms'
    BY <2>1 DEF DTInv, DemoTypeOK, Forms, serverVars
  <2>7. QED
    BY <2>1, <2>3, <2>5, <2>6 DEF DTInv
<1>13. ASSUME NEW m \in autos, AutoStatus(m) PROVE DTInv'
  <2>1. m \in Message
    BY DEF DTInv, DemoTypeOK
  <2>2. DemoTypeOK'
    BY <1>13, <2>1 DEF AutoStatus, DTInv, DemoTypeOK, formVars, serverVars, pollVars
  <2>3. QED
    BY <1>13, <2>2
    DEF AutoStatus, DTInv, Forms, FailuresCounted, formVars, serverVars, pollVars
<1>14. CASE Tick
  <2>1. clock' \in 0..MaxClock
    BY <1>14, DemoAssumption DEF Tick, DTInv, DemoTypeOK
  <2>2. DemoTypeOK'
    BY <1>14, <2>1 DEF Tick, DTInv, DemoTypeOK, formVars, serverVars, pollVars, statusVars
  <2>3. QED
    BY <1>14, <2>2
    DEF Tick, DTInv, Forms, FailuresCounted, formVars, serverVars, pollVars, statusVars
<1>15. CASE UNCHANGED demoVars
  <2>1. DemoTypeOK'
    BY <1>15 DEF demoVars, DTInv, DemoTypeOK
  <2>2. QED
    BY <1>15, <2>1 DEF demoVars, DTInv, Forms, FailuresCounted
<1>16. QED
  BY <1>1, <1>2, <1>3, <1>4, <1>5, <1>6, <1>7, <1>8, <1>9, <1>10, <1>11, <1>12, <1>13,
     <1>14, <1>15 DEF DemoNext

LEMMA DTInvInvariant == DemoSpec => []DTInv
  BY InitDTInv, NextDTInv, PTL DEF DemoSpec

\* The variables of Demo keep their types: the thread is a list of messages
\* that were typed, whatever is merged into it.
THEOREM DemoTypeCorrect == DemoSpec => []DemoTypeOK
<1>1. DTInv => DemoTypeOK
  BY DEF DTInv
<1>2. QED
  BY <1>1, DTInvInvariant, PTL

\* OrderIsKept: whatever a poll or an answer merges into the thread, two
\* messages that are shown keep their order.
THEOREM ShownOrderIsKept == DemoSpec => OrderIsKept
<1> DEFINE Kept ==
      \A i, j \in DOMAIN thread : i < j =>
        \E k, l \in DOMAIN thread' : k < l /\ thread'[k] = thread[i] /\ thread'[l] = thread[j]
<1>1. DTInv /\ [DemoNext]_demoVars => [Kept]_demoVars
  <2> SUFFICES ASSUME DTInv, [DemoNext]_demoVars PROVE Kept
    OBVIOUS
  <2>1. ASSUME NEW new \in Seq(Message), thread' = MergeDirectMessages(thread, new) PROVE Kept
    <3>1. thread \in Seq(Message) /\ ArrangedOnce(thread)
      BY DEF DTInv, DemoTypeOK
    <3>2. QED
      BY <2>1, <3>1, MergeIs
  <2>2. ASSUME NEW u \in Users, Answer(u) PROVE Kept
    <3>1. message[u] \in Message
      BY <2>2 DEF Answer, DTInv, Forms
    <3>2. <<message[u]>> \in Seq(Message) /\ thread' = MergeDirectMessages(thread, <<message[u]>>)
      BY <2>2, <3>1 DEF Answer
    <3>3. QED
      BY <2>1, <3>2
  <2>3. ASSUME NEW k \in Polls, PollAnswered(k) PROVE Kept
    <3>1. got[k] \in Seq(Message) /\ thread' = MergeDirectMessages(thread, got[k])
      BY <2>3 DEF PollAnswered, DTInv, DemoTypeOK
    <3>2. QED
      BY <2>1, <3>1
  <2>4. CASE UNCHANGED thread
    BY <2>4
  <2>5. CASE ~((\E u \in Users : Answer(u)) \/ (\E k \in Polls : PollAnswered(k)))
    <3>1. UNCHANGED thread
      BY <2>5 DEF DemoNext, demoVars, Type, Submit, MakeMessage, Post, SendFails, StartPoll,
         PollFails, Take, TakeInVain, PromptAnswered, PromptFails, AutoStatus, Tick
    <3>2. QED
      BY <2>4, <3>1
  <2>6. QED
    BY <2>2, <2>3, <2>5
<1>2. QED
  BY <1>1, DTInvInvariant, PTL DEF DemoSpec, OrderIsKept

-----------------------------------------------------------------------------
(***************************************************************************)
(* Texts and messages.  A text is in one place of the forms at most.  It   *)
(* is unmade while it can become a message yet; a failed sending makes it  *)
(* so again.  Messages that exist have identities of their own.            *)
(***************************************************************************)
OnePlace ==
  \A t \in Texts : \A x, y \in Panels :
    /\ t \notin typed => draft[x] # t /\ sending[x] # t
    /\ draft[x] = t => sending[y] # t /\ (draft[y] = t => x = y)
    /\ sending[x] = t /\ sending[y] = t => x = y

Unmade(t) ==
  \/ t \notin typed
  \/ \E x \in Panels : draft[x] = t
  \/ \E u \in Users : sending[u] = t /\ step[u] = "requested"

Exists(m) ==
  \/ \E u \in Users : step[u] \in {"made", "accepted"} /\ message[u] = m
  \/ m \in mailbox
  \/ \E k \in Polls : IsIn(m, got[k])
  \/ IsIn(m, thread)

Existing == {m \in Message : Exists(m)}

Ids ==
  /\ IsFiniteSet(Existing)
  /\ \A m \in Existing : m.id <= made
  /\ \A m, n \in Existing : m.id = n.id => m = n

LEMMA NextOnePlace == DTInv /\ OnePlace /\ [DemoNext]_demoVars => OnePlace'
<1> SUFFICES ASSUME DTInv, OnePlace, [DemoNext]_demoVars PROVE OnePlace'
  OBVIOUS
<1> USE UsersArePanels
<1>1. /\ draft \in [Panels -> Texts \cup {NoText}]
      /\ sending \in [Panels -> Texts \cup {NoText}] /\ NoText \notin Texts
  BY DemoAssumption DEF DTInv, DemoTypeOK
<1>2. ASSUME NEW x \in Panels, NEW t \in Texts, Type(x, t) PROVE OnePlace'
  <2>1. /\ t \notin typed /\ typed' = typed \cup {t}
        /\ draft' = [draft EXCEPT ![x] = t] /\ sending' = sending
    BY <1>2 DEF Type
  <2>2. QED
    BY <1>1, <2>1 DEF OnePlace
<1>3. ASSUME NEW x \in Panels, Submit(x) PROVE OnePlace'
  <2>1. /\ draft[x] # NoText /\ sending[x] = NoText /\ typed' = typed
        /\ draft' = [draft EXCEPT ![x] = NoText] /\ sending' = [sending EXCEPT ![x] = draft[x]]
    BY <1>3 DEF Submit
  <2>2. QED
    BY <1>1, <2>1 DEF OnePlace
<1>4. ASSUME NEW u \in Users, SendFails(u) PROVE OnePlace'
  <2>1. /\ typed' = typed /\ draft' = [draft EXCEPT ![u] = sending[u]]
        /\ sending' = [sending EXCEPT ![u] = NoText]
    BY <1>4 DEF SendFails, Restored, Finish
  <2>2. QED
    BY <1>1, <2>1 DEF OnePlace
<1>5. ASSUME NEW x \in Panels, sending' = [sending EXCEPT ![x] = NoText],
             UNCHANGED <<draft, typed>>
      PROVE  OnePlace'
  BY <1>1, <1>5 DEF OnePlace
<1>6. CASE UNCHANGED <<draft, sending, typed>>
  BY <1>6 DEF OnePlace
<1>7. ASSUME NEW u \in Users, Answer(u) PROVE OnePlace'
  BY <1>5, <1>7 DEF Answer, Finish
<1>8. CASE PromptAnswered \/ PromptFails
  BY <1>5, <1>8 DEF PromptAnswered, PromptFails
<1>9. CASE ~(\/ \E x \in Panels, t \in Texts : Type(x, t)
             \/ \E x \in Panels : Submit(x)
             \/ \E u \in Users : SendFails(u) \/ Answer(u)
             \/ PromptAnswered \/ PromptFails)
  <2>1. UNCHANGED <<draft, sending, typed>>
    BY <1>9 DEF DemoNext, demoVars, formVars, MakeMessage, Post, StartPoll, PollAnswered,
       PollFails, Take, TakeInVain, AutoStatus, Tick
  <2>2. QED
    BY <1>6, <2>1
<1>10. QED
  BY <1>2, <1>3, <1>4, <1>7, <1>8, <1>9

\* A message stays what it is or goes, unless one is made.
LEMMA ExistingStep ==
  ASSUME DTInv, [DemoNext]_demoVars
  PROVE  \/ Existing' \subseteq Existing /\ made' = made
         \/ \E u \in Users :
              /\ step[u] = "requested" /\ (MakeMessage(u) \/ SendFails(u))
              /\ Existing' \subseteq Existing \cup {NewMessage(u)} /\ made' = made + 1
<1> DEFINE Made(u) == /\ step[u] = "requested" /\ (MakeMessage(u) \/ SendFails(u))
                      /\ Existing' \subseteq Existing \cup {NewMessage(u)} /\ made' = made + 1
<1>1. ASSUME NEW u \in Users, MakeMessage(u) PROVE Made(u)
  <2>1. /\ step[u] = "requested" /\ made' = made + 1
        /\ message' = [message EXCEPT ![u] = NewMessage(u)]
        /\ step' = [step EXCEPT ![u] = "made"] /\ UNCHANGED <<mailbox, got, thread>>
    BY <1>1 DEF MakeMessage, pollVars
  <2>2. \A v \in Users : v # u => step'[v] = step[v] /\ message'[v] = message[v]
    BY <2>1 DEF DTInv, DemoTypeOK
  <2>3. message'[u] = NewMessage(u)
    BY <2>1 DEF DTInv, DemoTypeOK
  <2>4. ASSUME NEW m \in Existing' PROVE m \in Existing \cup {NewMessage(u)}
    BY <2>1, <2>2, <2>3 DEF Existing, Exists, IsIn
  <2>5. QED
    BY <1>1, <2>1, <2>4
<1>2. ASSUME NEW u \in Users, Post(u) PROVE Existing' \subseteq Existing /\ made' = made
  <2>1. /\ step[u] = "made" /\ step' = [step EXCEPT ![u] = "accepted"]
        /\ mailbox' \subseteq mailbox \cup {message[u]}
        /\ UNCHANGED <<message, got, thread, made>>
    BY <1>2 DEF Post, Posted
  <2>2. \A v \in Users : step'[v] \in {"made", "accepted"} => step[v] \in {"made", "accepted"}
    BY <2>1 DEF DTInv, DemoTypeOK
  <2>3. ASSUME NEW m \in Existing' PROVE m \in Existing
    BY <2>1, <2>2 DEF Existing, Exists, IsIn
  <2>4. QED
    BY <2>1, <2>3
<1>3. ASSUME NEW u \in Users, Finish(u)
      PROVE  \A v \in Users : step'[v] \in {"made", "accepted"} =>
               step[v] \in {"made", "accepted"} /\ message'[v] = message[v]
  BY <1>3 DEF Finish, DTInv, DemoTypeOK
<1>4. ASSUME NEW new \in Seq(Message), \A i \in DOMAIN new : Exists(new[i]),
             thread' = MergeDirectMessages(thread, new)
      PROVE  \A n \in DOMAIN thread' : Exists(thread'[n])
  <2>1. thread \in Seq(Message) /\ ArrangedOnce(thread)
    BY DEF DTInv, DemoTypeOK
  <2>2. \A n \in DOMAIN thread' : IsIn(thread'[n], thread) \/ IsIn(thread'[n], new)
    BY <1>4, <2>1, MergeIs
  <2>3. \A i \in DOMAIN thread : Exists(thread[i])
    BY DEF Exists, IsIn
  <2>4. QED
    BY <1>4, <2>2, <2>3 DEF IsIn
<1>5. ASSUME NEW u \in Users, Answer(u) PROVE Existing' \subseteq Existing /\ made' = made
  <2>1. /\ step[u] = "accepted" /\ Finish(u) /\ UNCHANGED <<mailbox, got, made>>
        /\ thread' = MergeDirectMessages(thread, <<message[u]>>)
    BY <1>5 DEF Answer, pollVars
  <2>2. message[u] \in Message /\ Exists(message[u])
    BY <2>1 DEF DTInv, Forms, Exists
  <2>3. <<message[u]>> \in Seq(Message) /\ \A i \in DOMAIN <<message[u]>> : Exists(<<message[u]>>[i])
    BY <2>2
  <2>4. \A n \in DOMAIN thread' : Exists(thread'[n])
    BY <1>4, <2>1, <2>3
  <2>5. ASSUME NEW m \in Existing' PROVE m \in Existing
    BY <1>3, <2>1, <2>4 DEF Existing, Exists, IsIn
  <2>6. QED
    BY <2>1, <2>5
<1>6. ASSUME NEW u \in Users, SendFails(u)
      PROVE  Made(u) \/ (Existing' \subseteq Existing /\ made' = made)
  <2>1. Finish(u) /\ UNCHANGED <<got, thread>>
    BY <1>6 DEF SendFails
  <2>2. CASE UNCHANGED <<made, mailbox>>
    BY <1>3, <2>1, <2>2 DEF Existing, Exists, IsIn
  <2>3. CASE step[u] = "made" /\ mailbox' = Posted(u) /\ UNCHANGED made
    <3>1. mailbox' \subseteq mailbox \cup {message[u]}
      BY <2>3 DEF Posted
    <3>2. QED
      BY <1>3, <2>1, <2>3, <3>1 DEF Existing, Exists, IsIn
  <2>4. CASE step[u] = "requested" /\ made' = made + 1 /\ mailbox' = mailbox \cup {NewMessage(u)}
    <3>1. ASSUME NEW m \in Existing' PROVE m \in Existing \cup {NewMessage(u)}
      BY <1>3, <2>1, <2>4 DEF Existing, Exists, IsIn
    <3>2. QED
      BY <1>6, <2>4, <3>1
  <2>5. QED
    BY <1>6, <2>2, <2>3, <2>4 DEF SendFails
<1>7. ASSUME NEW k \in Polls, EndPoll(k)
      PROVE  \A l \in Polls : \A i \in DOMAIN got'[l] : i \in DOMAIN got[l] /\ got'[l][i] = got[l][i]
  BY <1>7 DEF EndPoll, DTInv, DemoTypeOK
<1>8. ASSUME NEW k \in Polls, PollAnswered(k)
      PROVE  Existing' \subseteq Existing /\ made' = made
  <2>1. EndPoll(k) /\ UNCHANGED <<step, message, mailbox, made>>
        /\ thread' = MergeDirectMessages(thread, got[k])
    BY <1>8 DEF PollAnswered, serverVars
  <2>2. got[k] \in Seq(Message) /\ \A i \in DOMAIN got[k] : Exists(got[k][i])
    BY DEF DTInv, DemoTypeOK, Exists, IsIn
  <2>3. \A n \in DOMAIN thread' : Exists(thread'[n])
    BY <1>4, <2>1, <2>2
  <2>4. ASSUME NEW m \in Existing' PROVE m \in Existing
    BY <1>7, <2>1, <2>3 DEF Existing, Exists, IsIn
  <2>5. QED
    BY <2>1, <2>4
<1>9. ASSUME NEW k \in Polls, PollFails(k)
      PROVE  Existing' \subseteq Existing /\ made' = made
  <2>1. EndPoll(k) /\ UNCHANGED <<step, message, mailbox, made, thread>>
    BY <1>9 DEF PollFails, serverVars
  <2>2. QED
    BY <1>7, <2>1 DEF Existing, Exists, IsIn
<1>10. ASSUME NEW m \in mailbox, Take(m) PROVE Existing' \subseteq Existing /\ made' = made
  <2>1. /\ mailbox' = mailbox \ {m} /\ got' = [got EXCEPT ![reader] = Append(@, m)]
        /\ reader \in Polls /\ m \in Message
        /\ UNCHANGED <<step, message, made, thread>>
    BY <1>10 DEF Take, serverVars, DTInv, DemoTypeOK
  <2>2. ASSUME NEW l \in Polls, NEW i \in DOMAIN got'[l]
        PROVE  got'[l][i] = m \/ (i \in DOMAIN got[l] /\ got'[l][i] = got[l][i])
    <3>1. got[l] \in Seq(Message)
      BY DEF DTInv, DemoTypeOK
    <3>2. got'[l] = got[l] \/ got'[l] = Append(got[l], m)
      BY <2>1 DEF DTInv, DemoTypeOK
    <3>3. got'[l] = Append(got[l], m) =>
            i \in 1..Len(got[l]) + 1 /\ (i \in 1..Len(got[l]) => got'[l][i] = got[l][i])
            /\ got'[l][Len(got[l]) + 1] = m
      BY <2>1, <3>1, AppendProperties, LenProperties
    <3>4. DOMAIN got[l] = 1..Len(got[l]) /\ Len(got[l]) \in Nat
      BY <3>1, LenProperties
    <3>5. QED
      BY <3>2, <3>3, <3>4
  <2>3. ASSUME NEW n \in Existing' PROVE n \in Existing
    BY <2>1, <2>2 DEF Existing, Exists, IsIn
  <2>4. QED
    BY <2>1, <2>3
<1>11. CASE /\ mailbox' \subseteq mailbox
            /\ UNCHANGED <<step, message, made, got, thread>>
  BY <1>11 DEF Existing, Exists, IsIn
<1>12. CASE ~(\/ \E u \in Users : MakeMessage(u) \/ Post(u) \/ Answer(u) \/ SendFails(u)
              \/ \E k \in Polls : PollAnswered(k) \/ PollFails(k)
              \/ \E m \in mailbox : Take(m)
              \/ \E x \in Panels : Submit(x))
  <2>1. mailbox' \subseteq mailbox /\ UNCHANGED <<step, message, made, got, thread>>
    BY <1>12 DEF DemoNext, demoVars, serverVars, pollVars, Type, StartPoll,
       TakeInVain, PromptAnswered, PromptFails, AutoStatus, Tick
  <2>2. QED
    BY <1>11, <2>1
<1>13. ASSUME NEW x \in Panels, Submit(x) PROVE Existing' \subseteq Existing /\ made' = made
  <2>1. UNCHANGED <<message, made, mailbox, got, thread>>
    BY <1>13 DEF Submit, pollVars
  <2>2. \A v \in Users : step'[v] \in {"made", "accepted"} => step[v] \in {"made", "accepted"}
    BY <1>13 DEF Submit, DTInv, DemoTypeOK
  <2>3. QED
    BY <2>1, <2>2 DEF Existing, Exists, IsIn
<1>14. QED
  BY <1>1, <1>2, <1>5, <1>6, <1>8, <1>9, <1>10, <1>12, <1>13

LEMMA NextIds == DTInv /\ Ids /\ [DemoNext]_demoVars => Ids'
<1> SUFFICES ASSUME DTInv, Ids, [DemoNext]_demoVars PROVE Ids'
  OBVIOUS
<1>1. /\ IsFiniteSet(Existing)
      /\ \A m \in Existing : m \in Message /\ m.id \in Nat /\ m.id <= made
      /\ \A m, n \in Existing : m.id = n.id => m = n
      /\ made \in Nat
  BY DEF Ids, Existing, Message, DTInv, DemoTypeOK
<1>2. CASE Existing' \subseteq Existing /\ made' = made
  <2>1. Existing' \in SUBSET Existing
    BY <1>2
  <2>2. IsFiniteSet(Existing')
    BY <1>1, <2>1, FS_Subset
  <2>3. QED
    BY <1>1, <1>2, <2>2 DEF Ids
<1>3. ASSUME NEW u \in Users, step[u] = "requested",
             Existing' \subseteq Existing \cup {NewMessage(u)}, made' = made + 1
      PROVE  Ids'
  <2>1. PICK new : new = NewMessage(u) /\ new.id = made + 1
    BY <1>3, NewMessageIs
  <2>2. IsFiniteSet(Existing \cup {new})
    BY <1>1, FS_AddElement
  <2>3. Existing' \in SUBSET (Existing \cup {new})
    BY <1>3, <2>1
  <2>4. IsFiniteSet(Existing')
    BY <2>2, <2>3, FS_Subset
  <2>5. \A m \in Existing' : m.id <= made + 1
    BY <1>1, <2>1, <2>3
  <2>6. \A m, n \in Existing' : m.id = n.id => m = n
    <3>1. \A m \in Existing : m.id # new.id
      BY <1>1, <2>1
    <3>2. QED
      BY <1>1, <2>3, <3>1
  <2>7. QED
    BY <1>3, <2>4, <2>5, <2>6 DEF Ids
<1>4. QED
  BY <1>2, <1>3, ExistingStep

\* A text has one message, or can become one yet, but for its failures.
OfText(t) == {m \in Existing : m.text = t}

Counted ==
  \A t \in Texts :
    Cardinality(OfText(t)) + (IF Unmade(t) THEN 1 ELSE 0) <= 1 + failures[t]

LEMMA OfTextGrows ==
  ASSUME NEW t, Ids, NEW T, T \subseteq OfText(t)
  PROVE  /\ IsFiniteSet(T) /\ Cardinality(T) \in Nat
         /\ Cardinality(OfText(t)) \in Nat
         /\ Cardinality(T) <= Cardinality(OfText(t))
<1>1. OfText(t) \in SUBSET Existing /\ IsFiniteSet(Existing) /\ T \in SUBSET OfText(t)
  BY DEF OfText, Ids
<1>2. IsFiniteSet(OfText(t))
  BY <1>1, FS_Subset
<1>3. IsFiniteSet(T) /\ Cardinality(T) <= Cardinality(OfText(t))
  BY <1>1, <1>2, FS_Subset
<1>4. QED
  BY <1>2, <1>3, FS_CardinalityType

LEMMA OfTextGrowsByOne ==
  ASSUME NEW t, Ids, NEW new, NEW T, T \subseteq OfText(t) \cup {new}
  PROVE  /\ Cardinality(T) \in Nat /\ Cardinality(OfText(t)) \in Nat
         /\ Cardinality(T) <= Cardinality(OfText(t)) + 1
<1>1. IsFiniteSet(OfText(t)) /\ Cardinality(OfText(t)) \in Nat
  BY OfTextGrows
<1>2. PICK U : U = OfText(t) \cup {new}
  OBVIOUS
<1>3. IsFiniteSet(U) /\ Cardinality(U) <= Cardinality(OfText(t)) + 1 /\ Cardinality(U) \in Nat
  BY <1>1, <1>2, FS_AddElement, FS_CardinalityType
<1>4. T \in SUBSET U
  BY <1>2
<1>5. IsFiniteSet(T) /\ Cardinality(T) <= Cardinality(U)
  BY <1>3, <1>4, FS_Subset
<1>6. Cardinality(T) \in Nat
  BY <1>5, FS_CardinalityType
<1>7. QED
  BY <1>1, <1>3, <1>5, <1>6

\* A text becomes unmade only by a failure, and no failure is forgotten.
LEMMA UnmadeStep ==
  ASSUME DTInv, OnePlace, [DemoNext]_demoVars, NEW t \in Texts
  PROVE  /\ failures'[t] \in Nat /\ failures[t] \in Nat
         /\ \/ (Unmade(t)' => Unmade(t)) /\ failures'[t] >= failures[t]
            \/ failures'[t] = failures[t] + 1
         /\ \A u \in Users : SendFails(u) /\ t = sending[u] => failures'[t] = failures[t] + 1
         /\ \A u \in Users : MakeMessage(u) /\ t = sending[u] =>
              Unmade(t) /\ ~Unmade(t)' /\ failures'[t] = failures[t]
<1> USE UsersArePanels
<1>1. /\ draft \in [Panels -> Texts \cup {NoText}] /\ NoText \notin Texts
      /\ sending \in [Panels -> Texts \cup {NoText}]
      /\ step \in [Users -> {"idle", "requested", "made", "accepted"}]
      /\ failures \in [Texts -> 0..MaxErrors] /\ failures[t] \in Nat
  BY DemoAssumption DEF DTInv, DemoTypeOK
<1> DEFINE Fewer == (Unmade(t)' => Unmade(t)) /\ failures' = failures
<1>2. ASSUME NEW x \in Panels, NEW s \in Texts, Type(x, s) PROVE Fewer
  <2>1. /\ s \notin typed /\ typed' = typed \cup {s} /\ draft' = [draft EXCEPT ![x] = s]
        /\ UNCHANGED <<sending, step, failures>>
    BY <1>2 DEF Type, serverVars
  <2>2. QED
    BY <1>1, <2>1 DEF Unmade
<1>3. ASSUME NEW x \in Panels, Submit(x) PROVE Fewer
  <2>1. /\ draft[x] # NoText /\ sending[x] = NoText /\ typed' = typed /\ failures' = failures
        /\ draft' = [draft EXCEPT ![x] = NoText] /\ sending' = [sending EXCEPT ![x] = draft[x]]
        /\ x \in Users => step' = [step EXCEPT ![x] = "requested"]
        /\ x \notin Users => step' = step
    BY <1>3 DEF Submit
  <2>2. QED
    BY <1>1, <2>1 DEF Unmade
<1>4. ASSUME NEW u \in Users, MakeMessage(u)
      PROVE  Fewer /\ (t = sending[u] => Unmade(t) /\ ~Unmade(t)')
  <2>1. /\ step[u] = "requested" /\ step' = [step EXCEPT ![u] = "made"]
        /\ UNCHANGED <<draft, sending, typed, failures>>
    BY <1>4 DEF MakeMessage, formVars
  <2>2. Fewer
    BY <1>1, <2>1 DEF Unmade
  <2>3. ASSUME t = sending[u] PROVE Unmade(t) /\ ~Unmade(t)'
    <3>1. Unmade(t)
      BY <2>1, <2>3 DEF Unmade
    <3>2. t \in typed /\ \A x \in Panels : draft[x] # t /\ (sending[x] = t => x = u)
      BY <2>3 DEF OnePlace
    <3>3. QED
      BY <1>1, <2>1, <3>1, <3>2 DEF Unmade
  <2>4. QED
    BY <2>2, <2>3
<1>5. ASSUME NEW u \in Users, Post(u) PROVE Fewer
  <2>1. /\ step[u] = "made" /\ step' = [step EXCEPT ![u] = "accepted"]
        /\ UNCHANGED <<draft, sending, typed, failures>>
    BY <1>5 DEF Post, formVars
  <2>2. QED
    BY <1>1, <2>1 DEF Unmade
<1>6. ASSUME NEW u \in Users, Answer(u) PROVE Fewer
  <2>1. /\ step' = [step EXCEPT ![u] = "idle"] /\ sending' = [sending EXCEPT ![u] = NoText]
        /\ UNCHANGED <<draft, typed, failures>>
    BY <1>6 DEF Answer, Finish
  <2>2. QED
    BY <1>1, <2>1 DEF Unmade
<1>7. ASSUME NEW u \in Users, SendFails(u)
      PROVE  /\ failures'[t] \in Nat
             /\ t = sending[u] => failures'[t] = failures[t] + 1
             /\ t # sending[u] => (Unmade(t)' => Unmade(t)) /\ failures'[t] = failures[t]
  <2>1. /\ failures' = [failures EXCEPT ![sending[u]] = @ + 1]
        /\ draft' = [draft EXCEPT ![u] = sending[u]]
        /\ step' = [step EXCEPT ![u] = "idle"] /\ sending' = [sending EXCEPT ![u] = NoText]
        /\ UNCHANGED typed
    BY <1>7 DEF SendFails, Restored, Finish
  <2>2. failures'[t] = IF t = sending[u] THEN failures[t] + 1 ELSE failures[t]
    BY <1>1, <2>1
  <2>3. ASSUME t # sending[u] PROVE Unmade(t)' => Unmade(t)
    BY <1>1, <2>1, <2>3 DEF Unmade
  <2>4. QED
    BY <1>1, <2>2, <2>3
<1>8. ASSUME PromptAnswered \/ PromptFails PROVE Fewer
  <2>1. /\ sending' = [sending EXCEPT !["sysmaint"] = NoText]
        /\ UNCHANGED <<draft, typed, failures, step>>
    BY <1>8 DEF PromptAnswered, PromptFails, serverVars
  <2>2. QED
    BY <1>1, <2>1 DEF Unmade
<1>9. ASSUME UNCHANGED <<draft, sending, step, typed, failures>> PROVE Fewer
  BY <1>9 DEF Unmade
<1>10. Fewer \/ \E u \in Users : SendFails(u)
  <2>1. CASE \/ \E x \in Panels, s \in Texts : Type(x, s)
             \/ \E x \in Panels : Submit(x)
             \/ \E u \in Users : MakeMessage(u) \/ Post(u) \/ Answer(u)
             \/ PromptAnswered \/ PromptFails
    BY <1>2, <1>3, <1>4, <1>5, <1>6, <1>8, <2>1
  <2>2. CASE \/ \E k \in Polls : StartPoll(k) \/ PollAnswered(k) \/ PollFails(k)
             \/ \E m \in mailbox : Take(m) \/ TakeInVain(m)
             \/ \E m \in autos : AutoStatus(m)
             \/ Tick \/ UNCHANGED demoVars
    <3>1. UNCHANGED <<draft, sending, step, typed, failures>>
      BY <2>2 DEF demoVars, formVars, serverVars, StartPoll, PollAnswered, PollFails, Take,
         TakeInVain, AutoStatus, Tick
    <3>2. QED
      BY <1>9, <3>1
  <2>3. QED
    BY <2>1, <2>2 DEF DemoNext
<1>11. QED
  BY <1>1, <1>4, <1>7, <1>10

LEMMA NextCounted == DTInv /\ OnePlace /\ Ids /\ Counted /\ [DemoNext]_demoVars => Counted'
<1> SUFFICES ASSUME DTInv, OnePlace, Ids, Counted, [DemoNext]_demoVars, NEW t \in Texts
             PROVE  Cardinality(OfText(t)') + (IF Unmade(t)' THEN 1 ELSE 0) <= 1 + failures'[t]
  BY DEF Counted
<1>1. PICK T : T = OfText(t)'
  OBVIOUS
<1>2. PICK c, e \in Int : c = Cardinality(OfText(t)) /\ e = failures[t]
  BY OfTextGrows, UnmadeStep
<1>3. /\ c + (IF Unmade(t) THEN 1 ELSE 0) <= 1 + e
      /\ failures'[t] \in Nat
      /\ \/ (Unmade(t)' => Unmade(t)) /\ failures'[t] >= e
         \/ failures'[t] = e + 1
  BY <1>2, UnmadeStep DEF Counted
<1>4. CASE T \subseteq OfText(t)
  <2>1. PICK d \in Int : d = Cardinality(T) /\ d <= c
    BY <1>2, <1>4, OfTextGrows
  <2>2. QED
    BY <1>1, <1>2, <1>3, <2>1
<1>5. ASSUME NEW u \in Users, step[u] = "requested", MakeMessage(u) \/ SendFails(u),
             Existing' \subseteq Existing \cup {NewMessage(u)}, ~(T \subseteq OfText(t))
      PROVE  Cardinality(T) + (IF Unmade(t)' THEN 1 ELSE 0) <= 1 + failures'[t]
  <2>1. T \subseteq OfText(t) \cup {NewMessage(u)} /\ NewMessage(u).text = t
    BY <1>1, <1>5 DEF OfText
  <2>2. t = sending[u]
    BY <1>5, <2>1, NewMessageIs
  <2>3. Unmade(t)
    BY <1>5, <2>2 DEF Unmade
  <2>4. PICK d \in Int : d = Cardinality(T) /\ d <= c + 1
    <3>1. Cardinality(T) \in Nat /\ Cardinality(T) <= Cardinality(OfText(t)) + 1
      BY <2>1, OfTextGrowsByOne
    <3>2. QED
      BY <1>2, <3>1
  <2>5. CASE MakeMessage(u)
    <3>1. ~Unmade(t)' /\ failures'[t] = e
      BY <1>2, <2>2, <2>5, UnmadeStep
    <3>2. QED
      BY <1>2, <1>3, <2>3, <2>4, <3>1
  <2>6. CASE SendFails(u)
    <3>1. failures'[t] = e + 1
      BY <1>2, <2>2, <2>6, UnmadeStep
    <3>2. QED
      BY <1>2, <1>3, <2>3, <2>4, <3>1
  <2>7. QED
    BY <1>5, <2>5, <2>6
<1>6. Existing' \subseteq Existing => T \subseteq OfText(t)
  BY <1>1 DEF OfText
<1>7. QED
  BY <1>1, <1>4, <1>5, <1>6, ExistingStep

CInv == DTInv /\ OnePlace /\ Ids /\ Counted

LEMMA InitCInv == DemoInit => CInv
<1> SUFFICES ASSUME DemoInit PROVE CInv
  OBVIOUS
<1>1. DTInv
  BY InitDTInv
<1>2. OnePlace
  BY UsersArePanels, DemoAssumption DEF DemoInit, OnePlace
<1>3. Existing = {}
  BY DEF DemoInit, Existing, Exists, IsIn
<1>4. Ids
  BY <1>3, FS_EmptySet DEF Ids
<1>5. \A t \in Texts : OfText(t) = {} /\ failures[t] = 0
  BY <1>3 DEF OfText, DemoInit
<1>6. Counted
  BY <1>5, FS_EmptySet DEF Counted
<1>7. QED
  BY <1>1, <1>2, <1>4, <1>6 DEF CInv

LEMMA CInvInvariant == DemoSpec => []CInv
  BY InitCInv, NextDTInv, NextOnePlace, NextIds, NextCounted, PTL DEF DemoSpec, CInv

\* ShownOnceBarFailures: for any number of polls that overlap and of retries,
\* the thread has a text once, and once more at most for each failure.
THEOREM ShownOnce == DemoSpec => []ShownOnceBarFailures
<1>1. CInv => ShownOnceBarFailures
  <2> SUFFICES ASSUME CInv, NEW t \in Texts
               PROVE  Cardinality({i \in DOMAIN thread : thread[i].text = t}) <= 1 + failures[t]
    BY DEF ShownOnceBarFailures
  <2>1. PICK S : S = {i \in DOMAIN thread : thread[i].text = t}
    OBVIOUS
  <2>2. /\ DOMAIN thread \in SUBSET Nat /\ \A i \in DOMAIN thread : thread[i] \in Message
    <3>1. thread \in Seq(Message)
      BY DEF CInv, DTInv, DemoTypeOK
    <3>2. QED
      BY <3>1, LenProperties
  <2>3. \A i, j \in DOMAIN thread : thread[i].id = thread[j].id => i = j
    BY <2>2 DEF CInv, DTInv, ArrangedOnce
  <2> DEFINE shown == [i \in S |-> thread[i]]
  <2>4. shown \in Injection(S, OfText(t))
    <3>1. \A i \in S : thread[i] \in OfText(t)
      BY <2>1, <2>2 DEF OfText, Existing, Exists, IsIn
    <3>2. \A i, j \in S : thread[i] = thread[j] => i = j
      BY <2>1, <2>3
    <3>3. QED
      BY <3>1, <3>2 DEF Injection, IsInjective
  <2>5. IsFiniteSet(OfText(t)) /\ Cardinality(OfText(t)) \in Nat
    BY OfTextGrows DEF CInv
  <2>6. IsFiniteSet(S) /\ Cardinality(S) <= Cardinality(OfText(t))
    BY <2>4, <2>5, FS_Injection
  <2>7. Cardinality(S) \in Nat
    BY <2>6, FS_CardinalityType
  <2>8. Cardinality(OfText(t)) + (IF Unmade(t) THEN 1 ELSE 0) <= 1 + failures[t]
    BY DEF CInv, Counted
  <2>9. failures[t] \in Nat
    BY DemoAssumption DEF CInv, DTInv, DemoTypeOK
  <2>10. QED
    BY <2>1, <2>5, <2>6, <2>7, <2>8, <2>9
<1>2. QED
  BY <1>1, CInvInvariant, PTL

\* A text that was typed and not dropped is kept by each step.
LEMMA NextNothingLost == CInv /\ NothingTypedIsLost /\ [DemoNext]_demoVars => NothingTypedIsLost'
<1> DEFINE Safe(t) == \/ \E x \in Panels : t \in {draft[x], sending[x]}
                      \/ \E i \in DOMAIN thread : thread[i].text = t
                      \/ <<t, "user">> \in log
<1> SUFFICES ASSUME CInv, NothingTypedIsLost, [DemoNext]_demoVars,
                    NEW t, t \in typed' \ dropped'
             PROVE  Safe(t)'
  BY DEF NothingTypedIsLost
<1> USE UsersArePanels
<1>1. /\ draft \in [Panels -> Texts \cup {NoText}] /\ NoText \notin Texts
      /\ sending \in [Panels -> Texts \cup {NoText}]
      /\ typed' \subseteq Texts /\ t # NoText
      /\ thread \in Seq(Message) /\ ArrangedOnce(thread)
      /\ t \in typed \ dropped => Safe(t)
  <2>1. DTInv' /\ DTInv
    BY NextDTInv DEF CInv
  <2>2. QED
    BY <2>1, DemoAssumption DEF DTInv, DemoTypeOK, NothingTypedIsLost
<1>2. ASSUME NEW new \in Seq(Message), thread' = MergeDirectMessages(thread, new),
             \E i \in DOMAIN thread : thread[i].text = t
      PROVE  \E i \in DOMAIN thread' : thread'[i].text = t
  <2>1. \A i \in DOMAIN thread : \E n \in DOMAIN thread' : thread'[n] = thread[i]
    BY <1>1, <1>2, MergeIs
  <2>2. QED
    BY <1>2, <2>1
<1>3. ASSUME NEW x \in Panels, NEW s \in Texts, Type(x, s) PROVE Safe(t)'
  <2>1. /\ typed' = typed \cup {s} /\ draft' = [draft EXCEPT ![x] = s]
        /\ dropped' = dropped \cup ({draft[x]} \ {NoText})
        /\ UNCHANGED <<sending, thread, log>>
    BY <1>3 DEF Type, Dropping, statusVars
  <2>2. CASE t = s
    BY <1>1, <2>1, <2>2
  <2>3. CASE t # s
    <3>1. Safe(t) /\ t # draft[x]
      BY <1>1, <2>1, <2>3
    <3>2. QED
      BY <1>1, <2>1, <3>1
  <2>4. QED
    BY <2>2, <2>3
<1>4. ASSUME NEW x \in Panels, Submit(x) PROVE Safe(t)'
  <2>1. /\ sending[x] = NoText /\ UNCHANGED <<typed, dropped, thread>>
        /\ draft' = [draft EXCEPT ![x] = NoText] /\ sending' = [sending EXCEPT ![x] = draft[x]]
        /\ log \subseteq log'
    BY <1>4 DEF Submit
  <2>2. Safe(t)
    BY <1>1, <2>1
  <2>3. QED
    BY <1>1, <2>1, <2>2
<1>5. ASSUME NEW u \in Users, Answer(u) PROVE Safe(t)'
  <2>1. /\ step[u] = "accepted" /\ thread' = MergeDirectMessages(thread, <<message[u]>>)
        /\ sending' = [sending EXCEPT ![u] = NoText]
        /\ UNCHANGED <<typed, dropped, draft, log>>
    BY <1>5 DEF Answer, Finish
  <2>2. message[u] \in Message /\ message[u].text = sending[u] /\ Exists(message[u])
    BY <2>1 DEF CInv, DTInv, Forms, Exists
  <2>3. PICK new \in Seq(Message) : new = <<message[u]>>
    <3>1. <<message[u]>> \in Seq(Message)
      BY <2>2
    <3>2. QED
      BY <3>1
  <2>4. \E n \in DOMAIN thread' : thread'[n].text = sending[u]
    <3>1. PICK n \in DOMAIN thread' : thread'[n].id = message[u].id
      <4>1. 1 \in DOMAIN new /\ new[1] = message[u]
        BY <2>3
      <4>2. HasId(new[1].id, thread')
        BY <1>1, <2>1, <2>3, <4>1, MergeHasAll
      <4>3. QED
        BY <4>1, <4>2 DEF HasId
    <3>2. IsIn(thread'[n], thread) \/ IsIn(thread'[n], new)
      BY <1>1, <2>1, <2>3, MergeAdds
    <3>3. CASE IsIn(thread'[n], new)
      BY <2>2, <2>3, <3>3 DEF IsIn
    <3>4. CASE IsIn(thread'[n], thread)
      <4>1. thread'[n] \in Existing
        BY <1>1, <3>4, LenProperties DEF Existing, Exists, IsIn
      <4>2. message[u] \in Existing
        BY <2>2 DEF Existing
      <4>3. QED
        BY <2>2, <3>1, <4>1, <4>2 DEF CInv, Ids
    <3>5. QED
      BY <3>2, <3>3, <3>4
  <2>5. Safe(t)
    BY <1>1, <2>1
  <2>6. CASE t = sending[u]
    BY <2>4, <2>6
  <2>7. CASE t # sending[u]
    <3>1. CASE \E i \in DOMAIN thread : thread[i].text = t
      BY <1>2, <2>1, <2>3, <3>1
    <3>2. CASE \E x \in Panels : t \in {draft[x], sending[x]}
      BY <1>1, <2>1, <2>7, <3>2
    <3>3. QED
      BY <2>1, <2>5, <3>1, <3>2
  <2>8. QED
    BY <2>6, <2>7
<1>6. ASSUME NEW u \in Users, SendFails(u) PROVE Safe(t)'
  <2>1. /\ draft' = [draft EXCEPT ![u] = sending[u]] /\ dropped' = dropped \cup ({draft[u]} \ {NoText})
        /\ sending' = [sending EXCEPT ![u] = NoText] /\ UNCHANGED <<typed, thread, log>>
    BY <1>6 DEF SendFails, Restored, Dropping, Finish, statusVars
  <2>2. Safe(t) /\ t # draft[u]
    BY <1>1, <2>1
  <2>3. QED
    BY <1>1, <2>1, <2>2
<1>7. ASSUME NEW k \in Polls, PollAnswered(k) PROVE Safe(t)'
  <2>1. /\ thread' = MergeDirectMessages(thread, got[k]) /\ got[k] \in Seq(Message)
        /\ UNCHANGED <<typed, dropped, draft, sending, log>>
    BY <1>7 DEF PollAnswered, formVars, statusVars, CInv, DTInv, DemoTypeOK
  <2>2. Safe(t)
    BY <1>1, <2>1
  <2>3. QED
    BY <1>2, <2>1, <2>2
<1>8. CASE PromptAnswered \/ PromptFails
  <2>1. /\ sending["sysmaint"] # NoText /\ sending' = [sending EXCEPT !["sysmaint"] = NoText]
        /\ log \subseteq log' /\ UNCHANGED <<typed, dropped, draft, thread>>
    BY <1>8 DEF PromptAnswered, PromptFails
  <2>2. <<sending["sysmaint"], "user">> \in log'
    BY <2>1 DEF CInv, DTInv, Forms
  <2>3. Safe(t)
    BY <1>1, <2>1
  <2>4. QED
    BY <1>1, <2>1, <2>2, <2>3
<1>9. CASE log \subseteq log' /\ UNCHANGED <<draft, sending, typed, dropped, thread>>
  BY <1>1, <1>9
<1>10. CASE \/ \E u \in Users : MakeMessage(u) \/ Post(u)
            \/ \E k \in Polls : StartPoll(k) \/ PollFails(k)
            \/ \E m \in mailbox : Take(m) \/ TakeInVain(m)
            \/ \E m \in autos : AutoStatus(m)
            \/ Tick \/ UNCHANGED demoVars
  <2>1. log \subseteq log' /\ UNCHANGED <<draft, sending, typed, dropped, thread>>
    BY <1>10 DEF demoVars, formVars, statusVars, MakeMessage, Post, StartPoll, PollFails,
       Take, TakeInVain, AutoStatus, Tick
  <2>2. QED
    BY <1>9, <2>1
<1>11. QED
  BY <1>3, <1>4, <1>5, <1>6, <1>7, <1>8, <1>10 DEF DemoNext

\* NothingTypedIsLost: of any number of texts, each that was typed and not
\* written over is in an input, on its way, or shown.
THEOREM TextsAreKept == DemoSpec => []NothingTypedIsLost
<1>1. DemoInit => NothingTypedIsLost
  BY DEF DemoInit, NothingTypedIsLost
<1>2. QED
  BY <1>1, CInvInvariant, NextNothingLost, PTL DEF DemoSpec
=============================================================================
