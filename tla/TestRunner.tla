---------------------------- MODULE TestRunner ----------------------------
(***************************************************************************)
(* The test suite of the web application: lib/test-suite/runner.ts runs    *)
(* every test in order, at most twice each and under a timeout, and stores *)
(* its results through lib/test-suite/database.ts; app/api/test/run streams*)
(* the progress of a run to the browser tab that asked for it.             *)
(*                                                                         *)
(* The server is one JavaScript thread, and SQLite is called               *)
(* synchronously: an action is what runs between two awaits.  The awaits   *)
(* of a run are the race of a test function with its timer, and the pause  *)
(* before a retry.  Losing the race does not stop the function.            *)
(***************************************************************************)
EXTENDS Naturals, FiniteSets, Sequences, SequencesExt

CONSTANTS
  Runs,        \* ids that randomUUID can give to runs
  NoRun,       \* no run (null)
  Tabs,        \* browser tabs with the test page
  EarlierRuns, \* runs that earlier processes completed, oldest first
  NTests,      \* number of tests of the suite
  KeptRuns,    \* runs that the cleanup keeps, 100 in the code
  MaxFaults,   \* bound: statements of the results database that throw
  MaxCrashes   \* bound: times that the server process ends

ASSUME TestRunnerAssumption ==
  /\ NoRun \notin Runs
  /\ EarlierRuns \in Seq(Runs) /\ Len(EarlierRuns) <= KeptRuns + 1
  /\ NTests \in Nat \ {0}
  /\ KeptRuns \in Nat \ {0}
  /\ MaxFaults \in Nat
  /\ MaxCrashes \in Nat

VARIABLES
  isRunning,      \* the module-level lock
  currentRunId,   \* the run that holds it
  runner,         \* runner[r]: how far runAll of the run r is
  executing,      \* test functions that have been called and have not settled
  won,            \* test functions that passed before their timer
  rows,           \* test_runs, in order of started_at
  saved,          \* test_results
  stream,         \* stream[r]: the server-sent events of the run r
  tab,            \* tab[t]: what the page t shows
  faults, crashes \* how much of the bounds is used

vars == <<isRunning, currentRunId, runner, executing, won, rows, saved,
          stream, tab, faults, crashes>>

maxAttempts == 2

Tests == 1..NTests
Calls == Runs \X Tests \X (1..maxAttempts)

Results == [test : Tests, status : {"passed", "failed"}, attempt : 1..maxAttempts]

RunnerStates ==
  [pc : {"new", "race", "pause", "completed", "rejected", "lost"},
   test : Tests, attempt : 1..maxAttempts, results : Seq(Results)]

Rows == [run : Runs, status : {"running", "completed"},
         passed : 0..NTests, failed : 0..NTests, retried : 0..NTests]

TypeOK ==
  /\ isRunning \in BOOLEAN
  /\ currentRunId \in Runs \cup {NoRun}
  /\ runner \in [Runs -> RunnerStates]
  /\ executing \subseteq Calls
  /\ won \subseteq Calls
  /\ rows \in Seq(Rows)
  /\ saved \subseteq [run : Runs, result : Results]
  /\ stream \in [Runs -> {"none", "open", "completed", "error", "broken"}]
  /\ tab \in [Tabs -> [running : BOOLEAN, run : Runs \cup {NoRun},
                       shows : {"nothing", "summary", "error"}]]
  /\ faults \in 0..MaxFaults
  /\ crashes \in 0..MaxCrashes

Earlier == Range(EarlierRuns)
PassedAt(i) == [test |-> i, status |-> "passed", attempt |-> 1]

Init ==
  /\ isRunning = FALSE
  /\ currentRunId = NoRun
  /\ runner = [r \in Runs |-> [pc |-> IF r \in Earlier THEN "completed" ELSE "new",
                              test |-> 1, attempt |-> 1, results |-> <<>>]]
  /\ executing = {}
  /\ won = {<<r, i, 1>> : r \in Earlier, i \in Tests}
  /\ rows = [i \in DOMAIN EarlierRuns |->
               [run |-> EarlierRuns[i], status |-> "completed",
                passed |-> NTests, failed |-> 0, retried |-> 0]]
  /\ saved = {[run |-> r, result |-> PassedAt(i)] : r \in Earlier, i \in Tests}
  /\ stream = [r \in Runs |-> "none"]
  /\ tab = [t \in Tabs |-> [running |-> FALSE, run |-> NoRun, shows |-> "nothing"]]
  /\ faults = 0
  /\ crashes = 0

InProgress(r) == runner[r].pc \in {"race", "pause"}

-----------------------------------------------------------------------------
(* The results database.                                                   *)

\* The n last elements of s: the rows are in the order of started_at.
LastOf(s, n) == IF Len(s) <= n THEN s ELSE SubSeq(s, Len(s) - n + 1, Len(s))

Newest(n) == Range(LastOf(rows, n))
RunsOf(S) == {row.run : row \in S}

\* Mutant of ResultsKept: the offset of the first DELETE is off by one.
ResultsKeptOffByOne == {s \in saved : s.run \in RunsOf(Newest(KeptRuns - 1))}

ResultsKept == {s \in saved : s.run \in RunsOf(Newest(KeptRuns))}

\* Mutant of RowsKept: the limit of the second DELETE is off by one.
RowsKeptOneMore == LastOf(rows, KeptRuns + 1)

RowsKept == LastOf(rows, KeptRuns)

NewRow(r) == [run |-> r, status |-> "running", passed |-> 0, failed |-> 0, retried |-> 0]

\* createTestRun executes three statements, each on its own: the deletion of
\* old results, that of old runs, and the insertion.  done of them succeed.
CreateTestRun(r, done) ==
  /\ saved' = IF done >= 1 THEN ResultsKept ELSE saved
  /\ rows' = CASE done <= 1 -> rows
               [] done = 2 -> RowsKept
               [] done = 3 -> Append(RowsKept, NewRow(r))

\* updateTestResult: a row of its own for each test of a run.
Inserted(r, result) == saved \cup {[run |-> r, result |-> result]}

Summary(r, results) ==
  [run |-> r, status |-> "completed",
   passed |-> Cardinality({i \in DOMAIN results : results[i].status = "passed"}),
   failed |-> Cardinality({i \in DOMAIN results : results[i].status = "failed"}),
   retried |-> Cardinality({i \in DOMAIN results : results[i].attempt > 1})]

\* Mutant of CompleteTestRun: a run with failures is not marked.
CompleteIfAllPassed(r, results) ==
  IF Summary(r, results).failed > 0 THEN UNCHANGED rows
  ELSE rows' = [i \in DOMAIN rows |->
                  IF rows[i].run = r THEN Summary(r, results) ELSE rows[i]]

CompleteTestRun(r, results) ==
  rows' = [i \in DOMAIN rows |->
             IF rows[i].run = r THEN Summary(r, results) ELSE rows[i]]

ResultsIn(r) == {s.result : s \in {x \in saved : x.run = r}}

\* getTestDataForAnalysis: the newest completed runs, each with what its
\* results say.
Analysed ==
  LET completed == {i \in DOMAIN rows : rows[i].status = "completed"}
      newer(i) == {j \in completed : j > i}
  IN {rows[i] : i \in {j \in completed : Cardinality(newer(j)) < KeptRuns}}

Breakdown(r) ==
  [passed |-> Cardinality({x \in ResultsIn(r) : x.status = "passed"}),
   failed |-> Cardinality({x \in ResultsIn(r) : x.status # "passed"})]

-----------------------------------------------------------------------------
(* runAll and executeTestWithRetry.                                        *)

\* What the finally block of runAll does.
Release == isRunning' = FALSE /\ currentRunId' = NoRun

KeepLock == UNCHANGED <<isRunning, currentRunId>>

\* An event that ends the stream, if a client still listens.
Send(r, event) ==
  stream' = [stream EXCEPT ![r] = IF @ = "open" THEN event ELSE @]

Call(r, test, attempt) == executing' = executing \cup {<<r, test, attempt>>}

\* Mutant of Reject: the rejection of runAll is only logged.
RejectSilently(r) ==
  /\ faults < MaxFaults
  /\ faults' = faults + 1
  /\ runner' = [runner EXCEPT ![r].pc = "rejected"]
  /\ Release
  /\ UNCHANGED stream

\* Mutant of Reject: the lock is released on the path of completion only.
RejectWithoutRelease(r) ==
  /\ faults < MaxFaults
  /\ faults' = faults + 1
  /\ runner' = [runner EXCEPT ![r].pc = "rejected"]
  /\ KeepLock
  /\ Send(r, "error")

\* A statement of the results database throws: runAll rejects, the lock is
\* released and the stream says so.
Reject(r) ==
  /\ faults < MaxFaults
  /\ faults' = faults + 1
  /\ runner' = [runner EXCEPT ![r].pc = "rejected"]
  /\ Release
  /\ Send(r, "error")

\* getTestStatus, which the route asks before it starts a run.
TestStatus == [isRunning |-> isRunning, currentRunId |-> currentRunId]

\* randomUUID: an id that no run has.
FreshRun == CHOOSE r \in Runs : runner[r].pc = "new"

\* GET /api/test/run for the tab t: the status check, and runAll as far as
\* the first await.
GetRun(t, r) ==
  /\ ~tab[t].running
  /\ runner[r].pc = "new"
  /\ r = FreshRun
  /\ ~TestStatus.isRunning
  /\ \/ /\ CreateTestRun(r, 3)
        /\ isRunning' = TRUE
        /\ currentRunId' = r
        /\ runner' = [runner EXCEPT ![r].pc = "race"]
        /\ Call(r, 1, 1)
        /\ stream' = [stream EXCEPT ![r] = "open"]
        /\ UNCHANGED faults
     \/ /\ faults < MaxFaults
        /\ \E done \in 0..2 : CreateTestRun(r, done)
        /\ faults' = faults + 1
        /\ runner' = [runner EXCEPT ![r].pc = "rejected"]
        /\ Release
        /\ stream' = [stream EXCEPT ![r] = "error"]
        /\ UNCHANGED executing
  /\ tab' = [tab EXCEPT ![t] = [running |-> TRUE, run |-> r, shows |-> "nothing"]]
  /\ UNCHANGED <<won, crashes>>

\* The same request while a run is in progress: 409, which EventSource
\* reports to onerror.
GetRunRefused(t) ==
  /\ ~tab[t].running
  /\ TestStatus.isRunning
  /\ tab' = [tab EXCEPT ![t].shows = "error"]
  /\ UNCHANGED <<isRunning, currentRunId, runner, executing, won, rows, saved,
                 stream, faults, crashes>>

\* The current test of the run r has its result: it is saved and the next
\* test is called, or the run is completed.  calls are the functions that
\* are still executing.
TestDone(r, status, calls) ==
  LET me == runner[r]
      result == [test |-> me.test, status |-> status, attempt |-> me.attempt]
      results == Append(me.results, result)
  IN \/ /\ saved' = Inserted(r, result)
        /\ me.test < NTests
        /\ runner' = [runner EXCEPT ![r] =
                        [pc |-> "race", test |-> me.test + 1, attempt |-> 1,
                         results |-> results]]
        /\ executing' = calls \cup {<<r, me.test + 1, 1>>}
        /\ KeepLock
        /\ UNCHANGED <<rows, stream, faults>>
     \/ /\ saved' = Inserted(r, result)
        /\ me.test = NTests
        /\ CompleteTestRun(r, results)
        /\ runner' = [runner EXCEPT ![r].pc = "completed", ![r].results = <<>>]
        /\ executing' = calls
        /\ Release
        /\ Send(r, "completed")
        /\ UNCHANGED faults
     \/ /\ saved' \in {saved} \cup {x \in {Inserted(r, result)} : me.test = NTests}
        /\ executing' = calls
        /\ Reject(r)
        /\ UNCHANGED rows

\* The first attempt pauses before the retry; the second one is final.
AttemptFailed(r, calls) ==
  IF runner[r].attempt < maxAttempts
  THEN /\ runner' = [runner EXCEPT ![r].pc = "pause"]
       /\ executing' = calls
       /\ KeepLock
       /\ UNCHANGED <<rows, saved, stream, faults>>
  ELSE TestDone(r, "failed", calls)

\* Mutant of Raced: whichever attempt of the test settles decides.
RacedByAnyAttempt(r, call) ==
  /\ runner[r].pc = "race"
  /\ call[1] = r
  /\ call[2] = runner[r].test

\* The call that the race of the run r is about.
Raced(r, call) ==
  /\ runner[r].pc = "race"
  /\ call = <<r, runner[r].test, runner[r].attempt>>

\* A test function settles in time.
FnPasses(call) ==
  /\ call \in executing
  /\ Raced(call[1], call)
  /\ won' = won \cup {call}
  /\ TestDone(call[1], "passed", executing \ {call})
  /\ UNCHANGED <<tab, crashes>>

FnThrows(call) ==
  /\ call \in executing
  /\ Raced(call[1], call)
  /\ AttemptFailed(call[1], executing \ {call})
  /\ UNCHANGED <<won, tab, crashes>>

\* A function that lost its race settles: nobody looks at it any more.
FnSettlesLate(call) ==
  /\ call \in executing
  /\ ~Raced(call[1], call)
  /\ executing' = executing \ {call}
  /\ UNCHANGED <<isRunning, currentRunId, runner, won, rows, saved, stream,
                 tab, faults, crashes>>

\* Mutant of TimerFires: the retry is awaited without a timer.
TimerFiresOnFirstAttempt(r) ==
  /\ runner[r].pc = "race"
  /\ runner[r].attempt = 1
  /\ AttemptFailed(r, executing)
  /\ UNCHANGED <<won, tab, crashes>>

\* The timer wins; the function goes on.
TimerFires(r) ==
  /\ runner[r].pc = "race"
  /\ AttemptFailed(r, executing)
  /\ UNCHANGED <<won, tab, crashes>>

\* The pause of one second is over.
Retry(r) ==
  /\ runner[r].pc = "pause"
  /\ runner' = [runner EXCEPT ![r].pc = "race", ![r].attempt = @ + 1]
  /\ Call(r, runner[r].test, runner[r].attempt + 1)
  /\ UNCHANGED <<isRunning, currentRunId, won, rows, saved, stream, tab,
                 faults, crashes>>

-----------------------------------------------------------------------------
(* The page and the process.                                               *)

\* The event that ends the run, or the loss of the connection, reaches the
\* page: it closes the EventSource and enables the button.
TabHears(t) ==
  LET r == tab[t].run IN
  /\ tab[t].running
  /\ stream[r] \in {"completed", "error", "broken"}
  /\ tab' = [tab EXCEPT ![t].running = FALSE,
                        ![t].shows = IF stream[r] = "completed" THEN "summary" ELSE "error"]
  /\ UNCHANGED <<isRunning, currentRunId, runner, executing, won, rows, saved,
                 stream, faults, crashes>>

\* The connection of a run breaks; the run goes on without a listener.
Disconnect(r) ==
  /\ stream[r] \in {"open", "completed", "error"}
  /\ \E t \in Tabs : tab[t].running /\ tab[t].run = r
  /\ stream' = [stream EXCEPT ![r] = "broken"]
  /\ UNCHANGED <<isRunning, currentRunId, runner, executing, won, rows, saved,
                 tab, faults, crashes>>

\* The process ends and starts again: the lock, the timers and the functions
\* are gone, the tables are not.
Crash ==
  /\ crashes < MaxCrashes
  /\ crashes' = crashes + 1
  /\ Release
  /\ runner' = [r \in Runs |-> IF InProgress(r) THEN [runner[r] EXCEPT !.pc = "lost"]
                                                ELSE runner[r]]
  /\ executing' = {}
  /\ stream' = [r \in Runs |-> IF stream[r] \in {"open", "completed", "error"}
                               THEN "broken" ELSE stream[r]]
  /\ UNCHANGED <<won, rows, saved, tab, faults>>

Next ==
  \/ \E t \in Tabs, r \in Runs : GetRun(t, r)
  \/ \E t \in Tabs : GetRunRefused(t) \/ TabHears(t)
  \/ \E call \in executing : FnPasses(call) \/ FnThrows(call) \/ FnSettlesLate(call)
  \/ \E r \in Runs : TimerFires(r) \/ Retry(r) \/ Disconnect(r)
  \/ Crash

Spec == Init /\ [][Next]_vars

\* Timers fire and events arrive; nothing makes a test function settle.  One run
\* at a time is in progress, so its timers are the only ones.
Fairness ==
  /\ WF_vars(\E r \in Runs : TimerFires(r)) /\ WF_vars(\E r \in Runs : Retry(r))
  /\ \A t \in Tabs : WF_vars(TabHears(t))

FairSpec == Spec /\ Fairness

-----------------------------------------------------------------------------
(* Properties.                                                             *)

\* The lock is held exactly while runAll of the run it names is between its
\* first and its last statement, whatever test functions, statements of the
\* database or clients do; so no two runs are ever in progress.
LockMatchesRun ==
  /\ \A r \in Runs : InProgress(r) <=> isRunning /\ currentRunId = r
  /\ isRunning <=> currentRunId \in Runs

\* A row that says running is the run in progress, or one that the end of the
\* process or an exception of the database cut short.
RunningRowHasCause ==
  \A row \in Range(rows) : row.status = "running" =>
    InProgress(row.run) \/ runner[row.run].pc \in {"rejected", "lost"}

\* What the analysis reports of a run agrees with the results it reads: one
\* for every test, and the counts of its row, although the cleanup deletes
\* results and rows in two statements.  Only the oldest row beyond the limit
\* can have lost its results.
AnalysedRunsAreWhole ==
  \A row \in Analysed \cap Newest(KeptRuns) :
    /\ {x.test : x \in ResultsIn(row.run)} = Tests
    /\ Breakdown(row.run) = [passed |-> row.passed, failed |-> row.failed]
    /\ row.passed + row.failed = NTests

\* The tables stay bounded although runs that never completed pile up too:
\* at most one row beyond the limit, and no result without its run.
RetentionHolds ==
  /\ Len(rows) <= KeptRuns + 1
  /\ {s.run : s \in saved} \subseteq RunsOf(Range(rows))

\* A stored verdict is the verdict of the attempt it names: that attempt passed
\* in time and no earlier one did, or both attempts failed.  An attempt that
\* timed out and passes later never counts.
VerdictIsOfItsAttempt ==
  \A s \in saved :
    LET passes == {a \in 1..maxAttempts : <<s.run, s.result.test, a>> \in won}
    IN IF s.result.status = "passed" THEN passes = {s.result.attempt}
       ELSE passes = {} /\ s.result.attempt = maxAttempts

\* A run ends and releases the lock even if no test function ever settles.
RunEnds == \A r \in Runs \ Earlier : InProgress(r) ~> ~InProgress(r)

\* The page never waits for ever: completion, an exception of the runner, the
\* end of the process and a broken connection all reach it.
PageSettles == \A t \in Tabs : tab[t].running ~> ~tab[t].running
=============================================================================
