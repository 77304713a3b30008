-------------------------- MODULE PreKeys_proofs --------------------------
(***************************************************************************)
(* PreKeys: type correctness, NamedKeysAreKept, BootstrapExports and       *)
(* BootstrapVerifies, for any sets of processes and peers and any bounds.  *)
(***************************************************************************)
EXTENDS PreKeys, TLAPS

Busy == [task : Tasks, at : Steps, n : 1..3, left : 0..MaxCount, signer : Nat,
         id : Ids, bundle : Bundle]

LEMMA KindFacts ==
  /\ \A n \in 1..3 : Generated[n] \in Kinds
  /\ \A m, n \in 1..3 : Generated[m] = Generated[n] => m = n
  /\ Kinds = {Generated[n] : n \in 1..3}
<1>1. /\ Generated[1] = "preKey" /\ Generated[2] = "signedPreKey"
      /\ Generated[3] = "kyberPreKey"
  BY DEF Generated
<1>2. 1..3 = {1, 2, 3}
  OBVIOUS
<1>3. QED
  BY <1>1, <1>2 DEF Kinds

LEMMA NoBundleType ==
  /\ 1 \in Ids
  /\ NoKey \notin Key
  /\ NoBundle \in Bundle
  /\ Idle.at = "idle" /\ Idle.task = "none" /\ Idle.n = 1
  /\ Idle \notin Busy /\ Idle \in Proc /\ Proc = Busy \cup {Idle}
<1>1. 1 \in Ids
  BY PreKeysAssumption DEF Ids
<1>2. NoBundle \in Bundle
  BY <1>1 DEF NoBundle, Bundle
<1>3. Idle.at = "idle" /\ Idle.task = "none" /\ Idle.n = 1
  BY DEF Idle
<1>4. Idle \notin Busy
  BY <1>3 DEF Busy, Tasks
<1>5. Proc = Busy \cup {Idle}
  BY DEF Proc, Busy
<1>6. QED
  BY <1>1, <1>2, <1>3, <1>4, <1>5 DEF NoKey, Key

\* A process that is not idle is at a step of its task.
LEMMA ProcTypes ==
  ASSUME TypeOK, NEW p \in Procs
  PROVE  /\ proc[p] = Idle \/ proc[p] \in Busy
         /\ proc[p] = Idle <=> proc[p].at = "idle"
         /\ proc[p].n \in 1..3 /\ Kind(p) \in Kinds
<1>1. proc[p] = Idle \/ proc[p] \in Busy
  BY NoBundleType DEF TypeOK
<1>2. proc[p] \in Busy => proc[p].at # "idle" /\ proc[p].n \in 1..3
  BY DEF Busy, Steps
<1>3. proc[p].n \in 1..3
  BY <1>1, <1>2, NoBundleType
<1>4. QED
  BY <1>1, <1>2, <1>3, NoBundleType, KindFacts DEF Kind

LEMMA GoToEffect ==
  ASSUME TypeOK, NEW p \in Procs, NEW r \in Proc, GoTo(p, r)
  PROVE  /\ proc' \in [Procs -> Proc]
         /\ \A q \in Procs : proc'[q] = IF q = p THEN r ELSE proc[q]
         /\ overlap \subseteq overlap' /\ Overlaps(proc') \subseteq overlap'
         /\ overlap' \in SUBSET {"counter", "generation", "identity"}
<1>1. Overlaps(proc') \subseteq {"counter", "generation", "identity"}
  BY DEF Overlaps
<1>2. proc' = [proc EXCEPT ![p] = r] /\ overlap' = overlap \cup Overlaps(proc')
  BY DEF GoTo
<1>3. QED
  BY <1>1, <1>2 DEF TypeOK

LEMMA GoType ==
  ASSUME TypeOK, NEW p \in Procs, NEW step \in Steps, proc[p].at # "idle"
  PROVE  [proc[p] EXCEPT !.at = step] \in Proc
  BY ProcTypes, NoBundleType DEF Busy

LEMMA IdTypes ==
  ASSUME TypeOK, NEW k \in Kinds
  PROVE  /\ NextId(k) \in 1..(MaxIds + 1)
         /\ LatestId(k) \in Ids
         /\ record[k] \in [Ids -> Key \cup {NoKey}]
  BY PreKeysAssumption DEF TypeOK, NextId, LatestId, Ids

LEMMA BusyType ==
  ASSUME NEW task \in Tasks, NEW at \in Steps, NEW left \in 0..MaxCount
  PROVE  /\ [Idle EXCEPT !.task = task, !.left = left, !.at = at] \in Busy
         /\ [Idle EXCEPT !.task = task, !.at = at] \in Busy
<1>1. 1 \in Ids /\ NoBundle \in Bundle
  BY NoBundleType
<1>2. 0 \in 0..MaxCount /\ 0 \in Nat /\ 1 \in 1..3
  BY PreKeysAssumption
<1>3. QED
  BY <1>1, <1>2 DEF Idle, Busy

LEMMA FirstType ==
  ASSUME NEW task \in Tasks
  PROVE  First(task) \in {"check", "setLocalId", "load", "export"} /\ First(task) \in Steps
<1>1. CASE task = "bootstrap"
  BY <1>1 DEF First, Steps
<1>2. CASE task = "init"
  BY <1>2 DEF First, Steps
<1>3. CASE task = "generate"
  BY <1>3 DEF First, Steps
<1>4. CASE task = "upload"
  BY <1>4 DEF First, Steps
<1>5. QED
  BY <1>1, <1>2, <1>3, <1>4 DEF Tasks

LEMMA AfterSaveType ==
  ASSUME NEW r \in Busy
  PROVE  /\ AfterSave(r) \in Proc
         /\ AfterSave(r).task \in {r.task, "none"}
         /\ AfterSave(r).at \in {"draw", "register", "idle"}
         /\ AfterSave(r).at = "draw" =>
              /\ AfterSave(r).signer = r.signer
              /\ AfterSave(r).n \in {r.n, r.n + 1} /\ AfterSave(r).n \in 1..3
         /\ AfterSave(r).at = "register" => r.n = 3
<1> DEFINE draw == [r EXCEPT !.at = "draw", !.id = 1]
<1>1. draw \in Busy /\ draw.task = r.task /\ draw.signer = r.signer /\ draw.n = r.n
      /\ draw.left = r.left /\ draw.at = "draw"
  BY NoBundleType DEF Busy, Steps
<1> HIDE DEF draw
<1>2. CASE r.n = 1 /\ r.left > 1
  <2>1. r.left - 1 \in 0..MaxCount
    BY <1>2, PreKeysAssumption DEF Busy
  <2>2. AfterSave(r) = [draw EXCEPT !.left = @ - 1]
    BY <1>2 DEF AfterSave, draw
  <2>3. QED
    BY <1>1, <2>1, <2>2, NoBundleType DEF Busy
<1>3. CASE ~(r.n = 1 /\ r.left > 1) /\ r.n < 3
  <2>1. AfterSave(r) = [draw EXCEPT !.n = @ + 1]
    BY <1>3 DEF AfterSave, draw
  <2>2. r.n + 1 \in 1..3
    BY <1>3 DEF Busy
  <2>3. QED
    BY <1>1, <2>1, <2>2, NoBundleType DEF Busy
<1>4. CASE ~(r.n < 3) /\ ~(r.n = 1 /\ r.left > 1)
  <2>0. r.n = 3
    BY <1>4 DEF Busy
  <2>1. AfterSave(r) = IF r.task = "bootstrap"
                         THEN [Idle EXCEPT !.task = r.task, !.at = "register"]
                         ELSE Idle
    BY <1>4 DEF AfterSave
  <2>2. [Idle EXCEPT !.task = "bootstrap", !.at = "register"] \in Busy
    <3>1. 0 \in 0..MaxCount
      BY PreKeysAssumption
    <3>2. QED
      BY <3>1, BusyType DEF Steps, Tasks
  <2>3. [Idle EXCEPT !.task = r.task, !.at = "register"].task = r.task
        /\ [Idle EXCEPT !.task = r.task, !.at = "register"].at = "register"
    BY DEF Idle
  <2>4. QED
    BY <2>0, <2>1, <2>2, <2>3, NoBundleType
<1>5. QED
  BY <1>2, <1>3, <1>4

-----------------------------------------------------------------------------
(***************************************************************************)
(* Types.                                                                  *)
(***************************************************************************)
LEMMA ExportTypes ==
  ASSUME TypeOK, NEW p \in Procs
  PROVE  /\ proc[p].at = "export" =>
              [proc[p] EXCEPT !.at = "records", !.bundle =
                [NoBundle EXCEPT !.identity = identity,
                                 !.id = [k \in Kinds |-> LatestId(k)]]] \in Busy
         /\ proc[p].at = "records" /\ (\A k \in Kinds : Found(proc[p].bundle)[k] # NoKey) =>
              [proc[p] EXCEPT !.at = "upload", !.bundle.key = Found(proc[p].bundle)] \in Busy
<1> DEFINE b == [NoBundle EXCEPT !.identity = identity,
                                 !.id = [k \in Kinds |-> LatestId(k)]]
           c == [proc[p].bundle EXCEPT !.key = Found(proc[p].bundle)]
<1>1. b \in Bundle
  BY NoBundleType, IdTypes DEF Bundle, TypeOK
<1>2. ASSUME proc[p].at = "export"
      PROVE  [proc[p] EXCEPT !.at = "records", !.bundle = b] \in Busy
  <2> HIDE DEF b
  <2>1. proc[p] \in Busy
    BY <1>2, ProcTypes, NoBundleType
  <2>2. QED
    BY <1>1, <2>1 DEF Busy, Steps
<1>3. ASSUME proc[p].at = "records", \A k \in Kinds : Found(proc[p].bundle)[k] # NoKey
      PROVE  [proc[p] EXCEPT !.at = "upload", !.bundle.key = Found(proc[p].bundle)] \in Busy
  <2>1. proc[p] \in Busy
    BY <1>3, ProcTypes, NoBundleType
  <2>2. proc[p].bundle \in Bundle
    BY <2>1 DEF Busy
  <2>3. Found(proc[p].bundle) \in [Kinds -> Key \cup {NoKey}]
    BY <2>2, IdTypes DEF Found, Bundle
  <2>4. c \in Bundle
    BY <2>2, <2>3 DEF Bundle
  <2>5. [proc[p] EXCEPT !.at = "upload", !.bundle.key = Found(proc[p].bundle)]
          = [proc[p] EXCEPT !.at = "upload", !.bundle = c]
    BY <2>1, <2>2 DEF Busy, Bundle
  <2> HIDE DEF c
  <2>6. QED
    BY <2>1, <2>4, <2>5 DEF Busy, Steps
<1>4. QED
  BY <1>2, <1>3

LEMMA TypeStep ==
  ASSUME TypeOK, [Next]_vars
  PROVE  TypeOK'
<1>1. ASSUME NEW p \in Procs, NEW task \in Tasks, NEW count \in 1..MaxCount,
             Start(p, task, count)
      PROVE  TypeOK'
  <2> DEFINE r == [Idle EXCEPT !.task = task, !.left = count, !.at = First(task)]
  <2>1. count \in 0..MaxCount
    BY PreKeysAssumption
  <2>2. r \in Proc
    BY <2>1, FirstType, BusyType, NoBundleType
  <2> HIDE DEF r
  <2>3. GoTo(p, r) /\ UNCHANGED <<store, relay, session>>
    BY <1>1 DEF Start, r
  <2>4. QED
    BY <2>2, <2>3, GoToEffect DEF TypeOK, store, relay
<1>2. ASSUME NEW p \in Procs, Stop(p) PROVE TypeOK'
  BY <1>2, NoBundleType, GoToEffect DEF Stop, TypeOK, store, relay
<1>3. ASSUME NEW p \in Procs, Check(p) PROVE TypeOK'
  <2>1. Go(p, "load") \/ Go(p, "setLocalId")
    BY <1>3 DEF Check
  <2>2. \A step \in {"load", "setLocalId"} : [proc[p] EXCEPT !.at = step] \in Proc
    BY <1>3, GoType DEF Check, Steps
  <2>3. QED
    BY <1>3, <2>1, <2>2, GoToEffect DEF Check, Go, TypeOK, store, relay
<1>4. ASSUME NEW p \in Procs, SetLocalIdentity(p) PROVE TypeOK'
  <2>1. [proc[p] EXCEPT !.at = "setIdentity"] \in Proc
    BY <1>4, GoType DEF SetLocalIdentity, Steps
  <2>2. QED
    BY <1>4, <2>1, GoToEffect DEF SetLocalIdentity, Go, TypeOK, relay
<1>5. ASSUME NEW p \in Procs, SetIdentityKeyPair(p) PROVE TypeOK'
  <2>1. [proc[p] EXCEPT !.at = "load"] \in Proc
    BY <1>5, GoType DEF SetIdentityKeyPair, Steps
  <2>2. QED
    BY <1>5, <2>1, GoToEffect DEF SetIdentityKeyPair, Go, TypeOK, relay
<1>6. ASSUME NEW p \in Procs, LoadIdentityKeyPair(p) PROVE TypeOK'
  <2>1. proc[p] \in Busy
    BY <1>6, ProcTypes, NoBundleType DEF LoadIdentityKeyPair
  <2>2. [proc[p] EXCEPT !.at = "draw", !.signer = identity] \in Proc
    BY <2>1, NoBundleType DEF Busy, Steps, TypeOK
  <2>3. QED
    BY <1>6, <2>2, GoToEffect DEF LoadIdentityKeyPair, TypeOK, store, relay
<1>7. ASSUME NEW p \in Procs, ReadCounter(p) PROVE TypeOK'
  <2>1. proc[p] \in Busy
    BY <1>7, ProcTypes, NoBundleType DEF ReadCounter
  <2>2. NextId(Kind(p)) \in Ids
    BY <1>7, ProcTypes, IdTypes, PreKeysAssumption DEF ReadCounter, Ids, Kind
  <2>3. [proc[p] EXCEPT !.at = "bump", !.id = NextId(Kind(p))] \in Proc
    BY <2>1, <2>2, NoBundleType DEF Busy, Steps
  <2>4. QED
    BY <1>7, <2>3, GoToEffect DEF ReadCounter, Kind, TypeOK, store, relay
<1>8. ASSUME NEW p \in Procs, WriteCounter(p) PROVE TypeOK'
  <2>1. [proc[p] EXCEPT !.at = "save"] \in Proc
    BY <1>8, GoType DEF WriteCounter, Steps
  <2>2. proc[p].id + 1 \in 2..(MaxIds + 1)
    <3>1. proc[p] \in Busy
      BY <1>8, ProcTypes, NoBundleType DEF WriteCounter
    <3>2. QED
      BY <3>1, PreKeysAssumption DEF Busy, Ids
  <2>3. counter' \in [Kinds -> {0} \cup 2..(MaxIds + 1)]
    BY <1>8, <2>2 DEF WriteCounter, TypeOK
  <2>4. QED
    BY <1>8, <2>1, <2>3, GoToEffect DEF WriteCounter, Go, TypeOK, relay
<1>9. ASSUME NEW p \in Procs, SavePreKey(p) PROVE TypeOK'
  <2> DEFINE x == [made |-> made + 1, by |-> proc[p].signer]
  <2>1. proc[p] \in Busy
    BY <1>9, ProcTypes, NoBundleType DEF SavePreKey
  <2>2. x \in Key /\ made + 1 \in Nat
    BY <2>1 DEF Busy, TypeOK, Key
  <2>3. AfterSave(proc[p]) \in Proc
    BY <2>1, AfterSaveType
  <2> HIDE DEF x
  <2>4. record' \in [Kinds -> [Ids -> Key \cup {NoKey}]]
    <3>1. record' = [record EXCEPT ![Kind(p)][proc[p].id] = x]
      BY <1>9 DEF SavePreKey, Kind, x
    <3>2. QED
      BY <2>2, <3>1 DEF TypeOK
  <2>5. QED
    BY <1>9, <2>2, <2>3, <2>4, GoToEffect DEF SavePreKey, TypeOK, relay
<1>10. ASSUME NEW p \in Procs, Register(p) PROVE TypeOK'
  <2>1. [proc[p] EXCEPT !.at = "export"] \in Proc
    BY <1>10, GoType DEF Register, Steps
  <2>2. QED
    BY <1>10, <2>1, GoToEffect DEF Register, Go, TypeOK, store
<1>11. ASSUME NEW p \in Procs, ExportIds(p) PROVE TypeOK'
  BY <1>11, ExportTypes, NoBundleType, GoToEffect DEF ExportIds, TypeOK, store, relay
<1>12. ASSUME NEW p \in Procs, ExportRecords(p) PROVE TypeOK'
  BY <1>12, ExportTypes, NoBundleType, GoToEffect DEF ExportRecords, TypeOK, store, relay
<1>13. ASSUME NEW p \in Procs, Upload(p) PROVE TypeOK'
  <2>1. proc[p].bundle \in Bundle
    BY <1>13, ProcTypes, NoBundleType DEF Upload, Busy
  <2>2. QED
    BY <1>13, <2>1, NoBundleType, GoToEffect DEF Upload, TypeOK, store
<1>14. ASSUME ClientRegister PROVE TypeOK'
  BY <1>14 DEF ClientRegister, TypeOK, store
<1>15. ASSUME NEW q \in Peers, Fetch(q) PROVE TypeOK'
  BY <1>15 DEF Fetch, TypeOK, store, relay
<1>16. ASSUME NEW q \in Peers, ReceivePreKeyMessage(q) PROVE TypeOK'
  BY <1>16 DEF ReceivePreKeyMessage, TypeOK, relay, Bundle, Kinds
<1>17. CASE UNCHANGED vars
  BY <1>17 DEF vars, store, relay, TypeOK
<1>18. QED
  BY <1>1, <1>2, <1>3, <1>4, <1>5, <1>6, <1>7, <1>8, <1>9, <1>10, <1>11, <1>12,
     <1>13, <1>14, <1>15, <1>16, <1>17 DEF Next

\* The variables keep their types: in particular a process never writes or exports
\* an id outside the ids that nextCounter gives out.
THEOREM TypeCorrect == Spec => []TypeOK
<1>1. Init => TypeOK
  <2>1. NoBundle \in Bundle /\ Idle \in Proc
    BY NoBundleType
  <2>2. QED
    <3>1. Init => /\ counter \in [Kinds -> {0} \cup 2..(MaxIds + 1)]
                  /\ record \in [Kinds -> [Ids -> Key \cup {NoKey}]]
      BY DEF Init
    <3>2. Init => /\ proc \in [Procs -> Proc] /\ session \in [Peers -> Bundle]
                  /\ directory \in Bundle /\ used \in SUBSET Ids
      BY <2>1 DEF Init
    <3>3. Init => localId \in BOOLEAN /\ registered \in BOOLEAN
      BY Zenon DEF Init
    <3>4. Init => identity \in Nat /\ made \in Nat /\ overlap = {}
      BY DEF Init
    <3>5. QED
      BY <3>1, <3>2, <3>3, <3>4 DEF TypeOK
<1>2. TypeOK /\ [Next]_vars => TypeOK'
  BY TypeStep
<1>3. QED
  BY <1>1, <1>2, PTL DEF Spec

-----------------------------------------------------------------------------
(***************************************************************************)
(* Overlaps are recorded as they arise.                                    *)
(***************************************************************************)
\* What each step does to the processes: it moves one, or none.
LEMMA Moves ==
  ASSUME TypeOK, [Next]_vars
  PROVE  /\ overlap \subseteq overlap'
         /\ proc' = proc \/ Overlaps(proc') \subseteq overlap'
<1>1. ASSUME NEW p \in Procs, NEW r, GoTo(p, r)
      PROVE  overlap \subseteq overlap' /\ Overlaps(proc') \subseteq overlap'
  BY <1>1 DEF GoTo
<1>2. CASE UNCHANGED vars
  BY <1>2 DEF vars
<1>3. CASE ClientRegister \/ \E q \in Peers : Fetch(q) \/ ReceivePreKeyMessage(q)
  BY <1>3 DEF ClientRegister, Fetch, ReceivePreKeyMessage
<1>4. ASSUME NEW p \in Procs,
             \/ \E task \in Tasks, count \in 1..MaxCount : Start(p, task, count)
             \/ Check(p) \/ SetLocalIdentity(p) \/ SetIdentityKeyPair(p)
             \/ LoadIdentityKeyPair(p) \/ ReadCounter(p) \/ WriteCounter(p) \/ SavePreKey(p)
             \/ Register(p) \/ ExportIds(p) \/ ExportRecords(p) \/ Upload(p) \/ Stop(p)
      PROVE  \E r : GoTo(p, r)
  BY <1>4 DEF Start, Check, SetLocalIdentity, SetIdentityKeyPair, LoadIdentityKeyPair,
     ReadCounter, WriteCounter, SavePreKey, Register, ExportIds, ExportRecords, Upload,
     Stop, Go
<1>5. QED
  BY <1>1, <1>2, <1>3, <1>4 DEF Next

LEMMA NoticingStep ==
  ASSUME TypeOK, Overlaps(proc) \subseteq overlap, [Next]_vars
  PROVE  Overlaps(proc)' \subseteq overlap'
<1>1. proc' = proc => Overlaps(proc)' = Overlaps(proc)
  BY DEF Overlaps
<1>2. QED
  BY <1>1, Moves DEF Overlaps

-----------------------------------------------------------------------------
(***************************************************************************)
(* AllAreKept.                                                             *)
(***************************************************************************)
LEMMA KindOf ==
  ASSUME TypeOK, TypeOK', NEW p \in Procs, NEW q \in Procs
  PROVE  /\ Kind(p) = Kind(q) => proc[p].n = proc[q].n
         /\ Kind(p)' \in Kinds
         /\ proc'[q] = proc[q] => Kind(q)' = Kind(q)
<1>1. \A r \in Proc : r.n \in 1..3
  BY NoBundleType DEF Busy
<1>2. proc[p].n \in 1..3 /\ proc[q].n \in 1..3 /\ proc'[p].n \in 1..3
  BY <1>1 DEF TypeOK
<1>3. QED
  BY <1>2, KindFacts DEF Kind

\* A step that writes neither counters nor records and puts no bundle together.
LEMMA QuietCounting ==
  ASSUME TypeOK, TypeOK', Counting, AllAreKept, overlap \subseteq overlap',
         UNCHANGED <<counter, record>>, Bundles' \subseteq Bundles,
         NEW p \in Procs, \A q \in Procs : q # p => proc'[q] = proc[q],
         proc'[p].at # "save",
         proc'[p].at = "bump" => proc'[p].id = NextId(Kind(p)')
  PROVE  Counting' /\ AllAreKept'
<1>1. \A b \in Bundles' : Holds(b)' <=> Holds(b)
  BY DEF Holds
<1>2. \A k : NextId(k)' = NextId(k)
  BY DEF NextId
<1>3. \A q \in Procs : q # p => Kind(q)' = Kind(q)
  BY DEF Kind
<1>4. AllAreKept'
  BY <1>1 DEF AllAreKept
<1>5. Counting'
  BY <1>2, <1>3 DEF Counting
<1>6. QED
  BY <1>4, <1>5

LEMMA WriteCounterCounting ==
  ASSUME TypeOK, TypeOK', Overlaps(proc) \subseteq overlap, Counting, AllAreKept,
         NEW p \in Procs, WriteCounter(p)
  PROVE  Counting' /\ AllAreKept'
<1> DEFINE r == [proc[p] EXCEPT !.at = "save"]
<1>0. PICK k \in Kinds : k = Kind(p)
  BY ProcTypes
<1>1. r \in Proc
  BY GoType DEF WriteCounter, Steps
<1>2. /\ \A q \in Procs : proc'[q] = IF q = p THEN r ELSE proc[q]
      /\ overlap \subseteq overlap'
  BY <1>1, GoToEffect DEF WriteCounter, Go
<1>3. proc[p] \in Busy /\ proc[p].at = "bump"
  BY ProcTypes, NoBundleType DEF WriteCounter
<1>4. r.at = "save" /\ r.id = proc[p].id /\ r.n = proc[p].n /\ proc[p].id \in Nat
  BY <1>3 DEF Busy, Ids
<1>5. /\ record' = record /\ UNCHANGED <<directory, session>>
      /\ counter' = [counter EXCEPT ![k] = proc[p].id + 1]
  BY <1>0 DEF WriteCounter, relay, Kind
<1> HIDE DEF r
<1>6. /\ NextId(k)' = proc[p].id + 1
      /\ \A l \in Kinds \ {k} : NextId(l)' = NextId(l)
  <2>1. counter'[k] = proc[p].id + 1 /\ \A l \in Kinds \ {k} : counter'[l] = counter[l]
    BY <1>3, <1>5 DEF TypeOK
  <2>2. proc[p].id + 1 # 0
    BY <1>4
  <2>3. QED
    BY <2>1, <2>2 DEF NextId
<1>7. Kind(p)' = k /\ \A q \in Procs : q # p => Kind(q)' = Kind(q)
  BY <1>0, <1>2, <1>4 DEF Kind
<1>8. Bundles' \subseteq Bundles
  BY <1>2, <1>4, <1>5 DEF Bundles
<1>9. AllAreKept'
  <2>1. \A b \in Bundles' : Holds(b)' <=> Holds(b)
    BY <1>5 DEF Holds
  <2>2. QED
    BY <1>2, <1>8, <2>1 DEF AllAreKept
<1>10. ASSUME "counter" \notin overlap'
       PROVE  /\ \A l \in Kinds, i \in Ids : i >= NextId(l)' => record[l][i] = NoKey
              /\ \A q \in Procs : proc'[q].at = "bump" => proc'[q].id = NextId(Kind(q))'
              /\ \A q \in Procs : proc'[q].at = "save" =>
                   proc'[q].id < NextId(Kind(q))' /\ record[Kind(q)'][proc'[q].id] = NoKey
              /\ \A o, q \in Procs :
                   /\ o # q /\ proc'[o].at = "save" /\ proc'[q].at = "save"
                   /\ proc'[o].n = proc'[q].n
                   => proc'[o].id # proc'[q].id
  <2>1. "counter" \notin overlap
    BY <1>2, <1>10
  <2>2. proc[p].id = NextId(k)
    BY <1>0, <1>3, <2>1 DEF Counting
  <2>3. \A q \in Procs : q # p /\ proc[q].at = "bump" => proc[q].n # proc[p].n
    BY <1>3, <2>1 DEF Overlaps
  <2>4. \A q \in Procs : proc[q].n # proc[p].n => Kind(q) # k
    BY <1>0, KindOf
  <2>5. \A q \in Procs : Kind(q) \in Kinds /\ proc[q].id \in Nat
    BY ProcTypes, NoBundleType DEF Busy, Idle, Ids
  <2>6. \A l \in Kinds : NextId(l) \in Nat /\ NextId(l)' \in Nat
    BY <1>4, <1>6, IdTypes, PreKeysAssumption
  <2>7. \A l \in Kinds, i \in Ids : i >= NextId(l)' => record[l][i] = NoKey
    <3>1. ASSUME NEW l \in Kinds, NEW i \in Ids, i >= NextId(l)'
          PROVE  i >= NextId(l)
      BY <1>4, <1>6, <2>2, <2>6, <3>1 DEF Ids
    <3>2. QED
      BY <2>1, <3>1 DEF Counting
  <2>8. ASSUME NEW q \in Procs, proc'[q].at = "bump"
        PROVE  proc'[q].id = NextId(Kind(q))'
    <3>1. q # p /\ proc'[q] = proc[q]
      BY <1>2, <1>4, <2>8
    <3>2. Kind(q) # k
      BY <2>3, <2>4, <2>8, <3>1
    <3>3. QED
      BY <1>6, <1>7, <2>1, <2>5, <2>8, <3>1, <3>2 DEF Counting
  <2>9. ASSUME NEW q \in Procs, proc'[q].at = "save"
        PROVE  proc'[q].id < NextId(Kind(q))' /\ record[Kind(q)'][proc'[q].id] = NoKey
    <3>1. CASE q = p
      <4>1. proc[p].id \in Ids
        BY <1>3 DEF Busy
      <4>2. QED
        BY <1>2, <1>3, <1>4, <1>6, <1>7, <2>1, <2>2, <2>6, <3>1, <4>1 DEF Counting
    <3>2. CASE q # p
      <4>1. proc[q].id < NextId(Kind(q)) /\ record[Kind(q)][proc[q].id] = NoKey
        BY <1>2, <2>1, <2>9, <3>2 DEF Counting
      <4>2. NextId(Kind(q))' >= NextId(Kind(q))
        <5>1. PICK l \in Kinds : l = Kind(q)
          BY <2>5
        <5>2. NextId(l)' >= NextId(l)
          BY <1>6, <2>2, <2>6
        <5>3. NextId(Kind(q))' = NextId(l)'
          BY <1>7, <3>2, <5>1 DEF NextId
        <5>4. QED
          BY <5>1, <5>2, <5>3
      <4>3. QED
        BY <1>2, <1>7, <2>5, <2>6, <3>2, <4>1, <4>2
    <3>3. QED
      BY <3>1, <3>2
  <2>10. ASSUME NEW q \in Procs, q # p, proc[q].at = "save", proc[q].n = proc[p].n
         PROVE  proc[q].id # proc[p].id
    <3>1. Kind(q) = k
      BY <1>0, <2>10 DEF Kind
    <3>2. proc[q].id < NextId(k)
      BY <2>1, <2>10, <3>1 DEF Counting
    <3>3. QED
      BY <1>3, <2>2, <2>5, <2>6, <3>2
  <2>11. ASSUME NEW o \in Procs, NEW q \in Procs, o # q, proc'[o].at = "save",
                proc'[q].at = "save", proc'[o].n = proc'[q].n
         PROVE  proc'[o].id # proc'[q].id
    <3>1. CASE o = p
      BY <1>2, <1>4, <2>10, <2>11, <3>1
    <3>2. CASE q = p
      BY <1>2, <1>4, <2>10, <2>11, <3>2
    <3>3. CASE o # p /\ q # p
      BY <1>2, <2>1, <2>11, <3>3 DEF Counting
    <3>4. QED
      BY <3>1, <3>2, <3>3
  <2>12. QED
    BY <2>7, <2>8, <2>9, <2>11
<1>11. QED
  <2>1. \A b \in Bundles', l \in Kinds : b.key[l] # NoKey
    BY <1>8 DEF Counting
  <2>2. QED
    BY <1>5, <1>9, <1>10, <2>1 DEF Counting

LEMMA SavePreKeyCounting ==
  ASSUME TypeOK, TypeOK', Counting, AllAreKept,
         NEW p \in Procs, SavePreKey(p)
  PROVE  Counting' /\ AllAreKept'
<1> DEFINE r == AfterSave(proc[p])
<1>0. PICK k \in Kinds : k = Kind(p)
  BY ProcTypes
<1>1. proc[p] \in Busy /\ proc[p].at = "save" /\ proc[p].id \in Ids
  BY ProcTypes, NoBundleType DEF SavePreKey, Busy
<1>2. r \in Proc /\ r.at \in {"draw", "register", "idle"}
  BY <1>1, AfterSaveType
<1>3. /\ \A q \in Procs : proc'[q] = IF q = p THEN r ELSE proc[q]
      /\ overlap \subseteq overlap'
  BY <1>2, GoToEffect DEF SavePreKey
<1> HIDE DEF r
<1>4. UNCHANGED <<counter, directory, session>>
  BY DEF SavePreKey, relay
<1>5. PICK x : record' = [record EXCEPT ![k][proc[p].id] = x]
  BY <1>0 DEF SavePreKey, Kind
<1>6. \A l \in Kinds, i \in Ids : ~(l = k /\ i = proc[p].id) => record'[l][i] = record[l][i]
  BY <1>1, <1>5 DEF TypeOK
<1>7. Bundles' \subseteq Bundles
  BY <1>2, <1>3, <1>4 DEF Bundles
<1>8. \A q \in Procs : q # p => Kind(q)' = Kind(q)
  BY <1>3 DEF Kind
<1>9. \A l : NextId(l)' = NextId(l)
  BY <1>4 DEF NextId
<1>10. ASSUME "counter" \notin overlap'
       PROVE  /\ proc[p].id < NextId(k) /\ record[k][proc[p].id] = NoKey
              /\ \A q \in Procs : q # p /\ proc[q].at = "save" =>
                   ~(Kind(q) = k /\ proc[q].id = proc[p].id)
  <2>1. "counter" \notin overlap
    BY <1>3, <1>10
  <2>2. proc[p].id < NextId(k) /\ record[k][proc[p].id] = NoKey
    BY <1>0, <1>1, <2>1 DEF Counting
  <2>3. ASSUME NEW q \in Procs, q # p, proc[q].at = "save", Kind(q) = k
        PROVE  proc[q].id # proc[p].id
    <3>1. proc[p].n = proc[q].n
      BY <1>0, <2>3, KindOf
    <3>2. QED
      BY <1>1, <2>1, <2>3, <3>1 DEF Counting
  <2>4. QED
    BY <2>2, <2>3
<1>11. AllAreKept'
  <2> SUFFICES ASSUME NEW b \in Bundles', "counter" \notin overlap'
               PROVE  Holds(b)'
    BY DEF AllAreKept
  <2>1. b \in Bundles /\ Holds(b)
    BY <1>3, <1>7 DEF AllAreKept
  <2>2. b \in Bundle
    BY <2>1, NoBundleType, ProcTypes DEF Bundles, TypeOK, Busy
  <2>3. ASSUME NEW l \in Kinds PROVE record'[l][b.id[l]] = b.key[l]
    <3>1. record[l][b.id[l]] = b.key[l] /\ b.key[l] # NoKey /\ b.id[l] \in Ids
      BY <2>1, <2>2 DEF Holds, Counting, Bundle
    <3>2. ~(l = k /\ b.id[l] = proc[p].id)
      BY <1>10, <3>1
    <3>3. QED
      BY <1>6, <3>1, <3>2
  <2>4. QED
    BY <2>3 DEF Holds
<1>12. ASSUME "counter" \notin overlap'
       PROVE  /\ \A l \in Kinds, i \in Ids : i >= NextId(l) => record'[l][i] = NoKey
              /\ \A q \in Procs : proc'[q].at = "bump" => proc'[q].id = NextId(Kind(q))'
              /\ \A q \in Procs : proc'[q].at = "save" =>
                   proc'[q].id < NextId(Kind(q))' /\ record'[Kind(q)'][proc'[q].id] = NoKey
              /\ \A o, q \in Procs :
                   /\ o # q /\ proc'[o].at = "save" /\ proc'[q].at = "save"
                   /\ proc'[o].n = proc'[q].n
                   => proc'[o].id # proc'[q].id
  <2>1. "counter" \notin overlap
    BY <1>3, <1>12
  <2>2. \A l \in Kinds : NextId(l) \in Nat
    BY IdTypes, PreKeysAssumption
  <2>3. ASSUME NEW l \in Kinds, NEW i \in Ids, i >= NextId(l)
        PROVE  record'[l][i] = NoKey
    <3>1. ~(l = k /\ i = proc[p].id)
      BY <1>1, <1>10, <1>12, <2>2, <2>3 DEF Ids
    <3>2. QED
      BY <1>6, <2>1, <2>3, <3>1 DEF Counting
  <2>4. ASSUME NEW q \in Procs, proc'[q].at \in {"bump", "save"}
        PROVE  /\ q # p /\ proc'[q] = proc[q] /\ Kind(q)' = Kind(q)
               /\ NextId(Kind(q))' = NextId(Kind(q))
               /\ proc[q].id \in Ids /\ Kind(q) \in Kinds
    <3>1. q # p /\ proc'[q] = proc[q]
      BY <1>2, <1>3, <2>4
    <3>2. Kind(q)' = Kind(q)
      BY <1>8, <3>1
    <3>3. proc[q] \in Busy /\ Kind(q) \in Kinds
      BY <2>4, <3>1, ProcTypes, NoBundleType
    <3>4. QED
      BY <1>4, <3>1, <3>2, <3>3 DEF NextId, Busy
  <2>5. ASSUME NEW q \in Procs, proc'[q].at = "save"
        PROVE  proc'[q].id < NextId(Kind(q))' /\ record'[Kind(q)'][proc'[q].id] = NoKey
    <3>1. ~(Kind(q) = k /\ proc[q].id = proc[p].id)
      BY <1>10, <1>12, <2>4, <2>5
    <3>2. record'[Kind(q)][proc[q].id] = record[Kind(q)][proc[q].id]
      BY <1>6, <2>4, <2>5, <3>1
    <3>3. QED
      BY <2>1, <2>4, <2>5, <3>2 DEF Counting
  <2>6. \A q \in Procs : proc'[q].at = "bump" => proc'[q].id = NextId(Kind(q))'
    BY <2>1, <2>4 DEF Counting
  <2>7. \A o, q \in Procs :
          /\ o # q /\ proc'[o].at = "save" /\ proc'[q].at = "save"
          /\ proc'[o].n = proc'[q].n
          => proc'[o].id # proc'[q].id
    BY <2>1, <2>4 DEF Counting
  <2>8. QED
    BY <2>3, <2>5, <2>6, <2>7
<1>13. QED
  <2>1. \A b \in Bundles', l \in Kinds : b.key[l] # NoKey
    BY <1>7 DEF Counting
  <2>2. QED
    BY <1>9, <1>11, <1>12, <2>1 DEF Counting

LEMMA ExportRecordsCounting ==
  ASSUME TypeOK, TypeOK', Counting, AllAreKept,
         NEW p \in Procs, ExportRecords(p)
  PROVE  Counting' /\ AllAreKept'
<1> DEFINE b == proc[p].bundle
           r == [proc[p] EXCEPT !.at = "upload", !.bundle.key = Found(b)]
<1>1. r \in Busy /\ r \in Proc
  <2>1. proc[p].at = "records" /\ \A k \in Kinds : Found(b)[k] # NoKey
    BY DEF ExportRecords
  <2>2. r \in Busy
    BY <2>1, ExportTypes
  <2>3. QED
    BY <2>2, NoBundleType
<1>2. /\ \A q \in Procs : proc'[q] = IF q = p THEN r ELSE proc[q]
      /\ overlap \subseteq overlap'
  BY <1>1, GoToEffect DEF ExportRecords
<1>3. proc[p] \in Busy /\ b \in Bundle
  BY ProcTypes, NoBundleType DEF ExportRecords, Busy
<1>4. /\ r.at = "upload" /\ r.bundle.id = b.id
      /\ r.bundle.key = Found(b)
  BY <1>3 DEF Busy, Bundle
<1>5. \A k \in Kinds : Found(b)[k] = record[k][b.id[k]] /\ Found(b)[k] # NoKey
  BY DEF ExportRecords, Found
<1>6. UNCHANGED <<counter, record, directory, session>>
  BY DEF ExportRecords, store, relay
<1> HIDE DEF b, r
<1>7. PICK c : c = r.bundle
  OBVIOUS
<1>8. Bundles' \subseteq Bundles \cup {c}
  BY <1>2, <1>6, <1>7 DEF Bundles
<1>9. Holds(c)' /\ \A k \in Kinds : c.key[k] # NoKey
  BY <1>4, <1>5, <1>6, <1>7 DEF Holds
<1>10. AllAreKept'
  <2>1. \A d \in Bundles : Holds(d)' <=> Holds(d)
    BY <1>6 DEF Holds
  <2>2. QED
    BY <1>2, <1>8, <1>9, <2>1 DEF AllAreKept
<1>11. Counting'
  <2>1. \A q \in Procs : proc'[q].at \in {"bump", "save"} =>
          proc'[q] = proc[q] /\ Kind(q)' = Kind(q)
    BY <1>2, <1>4 DEF Kind
  <2>2. \A k : NextId(k)' = NextId(k)
    BY <1>6 DEF NextId
  <2>3. \A q \in Procs : proc'[q].at \in {"bump", "save"} =>
          NextId(Kind(q))' = NextId(Kind(q))
    BY <1>6, <2>1 DEF NextId
  <2>4. \A d \in Bundles', k \in Kinds : d.key[k] # NoKey
    BY <1>8, <1>9 DEF Counting
  <2>5. QED
    BY <1>2, <1>6, <2>1, <2>2, <2>3, <2>4 DEF Counting
<1>12. QED
  BY <1>10, <1>11

LEMMA CountingStep ==
  ASSUME TypeOK, Overlaps(proc) \subseteq overlap, Counting, AllAreKept, [Next]_vars
  PROVE  Counting' /\ AllAreKept'
<1>0. TypeOK' /\ overlap \subseteq overlap'
  BY TypeStep, Moves
\* The steps that move a process and leave counters, records and bundles alone.
<1>1. ASSUME NEW p \in Procs, NEW r \in Proc, GoTo(p, r), r.at \notin {"bump", "save", "upload"},
             UNCHANGED <<counter, record>>,
             Bundles' \subseteq Bundles
      PROVE  Counting' /\ AllAreKept'
  <2>1. \A q \in Procs : proc'[q] = IF q = p THEN r ELSE proc[q]
    BY <1>1, GoToEffect
  <2>2. QED
    BY <1>0, <1>1, <2>1, QuietCounting
<1>2. ASSUME NEW p \in Procs, NEW r \in Proc, GoTo(p, r), r.at # "upload",
             UNCHANGED <<directory, session>>
      PROVE  Bundles' \subseteq Bundles
  BY <1>2, GoToEffect DEF Bundles
<1>3. ASSUME NEW p \in Procs, NEW r \in Proc, GoTo(p, r), r.at \notin {"bump", "save", "upload"},
             UNCHANGED <<counter, record, directory, session>>
      PROVE  Counting' /\ AllAreKept'
  BY <1>1, <1>2, <1>3
<1>4. ASSUME NEW p \in Procs, NEW step \in Steps \ {"bump", "save", "upload"},
             proc[p].at # "idle", Go(p, step),
             UNCHANGED <<counter, record, directory, session>>
      PROVE  Counting' /\ AllAreKept'
  <2>1. [proc[p] EXCEPT !.at = step] \in Proc
    BY <1>4, GoType
  <2>2. [proc[p] EXCEPT !.at = step].at = step
    BY <1>4, ProcTypes, NoBundleType DEF Busy
  <2>3. QED
    BY <1>3, <1>4, <2>1, <2>2 DEF Go
<1>5. ASSUME NEW p \in Procs, NEW task \in Tasks, NEW count \in 1..MaxCount,
             Start(p, task, count)
      PROVE  Counting' /\ AllAreKept'
  <2> DEFINE r == [Idle EXCEPT !.task = task, !.left = count, !.at = First(task)]
  <2>1. count \in 0..MaxCount
    BY PreKeysAssumption
  <2>2. r \in Proc /\ r.at = First(task)
    BY <2>1, FirstType, BusyType, NoBundleType DEF Idle
  <2> HIDE DEF r
  <2>3. GoTo(p, r) /\ UNCHANGED <<store, relay, session>>
    BY <1>5 DEF Start, r
  <2>4. QED
    BY <1>3, <2>2, <2>3, FirstType DEF store, relay
<1>6. ASSUME NEW p \in Procs, Stop(p) PROVE Counting' /\ AllAreKept'
  BY <1>3, <1>6, NoBundleType DEF Stop, store, relay
<1>7. ASSUME NEW p \in Procs, Check(p) PROVE Counting' /\ AllAreKept'
  BY <1>4, <1>7 DEF Check, Steps, store, relay
<1>8. ASSUME NEW p \in Procs, SetLocalIdentity(p) PROVE Counting' /\ AllAreKept'
  BY <1>4, <1>8 DEF SetLocalIdentity, Steps, relay
<1>9. ASSUME NEW p \in Procs, SetIdentityKeyPair(p) PROVE Counting' /\ AllAreKept'
  BY <1>4, <1>9 DEF SetIdentityKeyPair, Steps, relay
<1>10. ASSUME NEW p \in Procs, Register(p) PROVE Counting' /\ AllAreKept'
  BY <1>4, <1>10 DEF Register, Steps, store
<1>11. ASSUME NEW p \in Procs, LoadIdentityKeyPair(p) PROVE Counting' /\ AllAreKept'
  <2> DEFINE r == [proc[p] EXCEPT !.at = "draw", !.signer = identity]
  <2>1. proc[p] \in Busy
    BY <1>11, ProcTypes, NoBundleType DEF LoadIdentityKeyPair
  <2>2. r \in Proc /\ r.at = "draw"
    BY <2>1, NoBundleType DEF Busy, Steps, TypeOK
  <2>3. QED
    BY <1>3, <1>11, <2>2 DEF LoadIdentityKeyPair, store, relay
<1>12. ASSUME NEW p \in Procs, ExportIds(p) PROVE Counting' /\ AllAreKept'
  <2> DEFINE r == [proc[p] EXCEPT !.at = "records", !.bundle =
               [NoBundle EXCEPT !.identity = identity, !.id = [k \in Kinds |-> LatestId(k)]]]
  <2>1. proc[p] \in Busy
    BY <1>12, ProcTypes, NoBundleType DEF ExportIds
  <2>2. r \in Proc /\ r.at = "records"
    BY <1>12, <2>1, ExportTypes, NoBundleType DEF Busy, ExportIds
  <2> HIDE DEF r
  <2>3. GoTo(p, r) /\ UNCHANGED <<store, relay, session>>
    BY <1>12 DEF ExportIds, r
  <2>4. QED
    BY <1>3, <2>2, <2>3 DEF store, relay
<1>13. ASSUME NEW p \in Procs, Upload(p) PROVE Counting' /\ AllAreKept'
  <2>1. proc[p].bundle \in Bundles \cup {NoBundle}
    BY <1>13 DEF Upload, Bundles
  <2>2. directory' = proc[p].bundle /\ UNCHANGED session /\ GoTo(p, Idle)
    BY <1>13 DEF Upload
  <2>3. \A q \in Procs : proc'[q] = IF q = p THEN Idle ELSE proc[q]
    BY <2>2, NoBundleType, GoToEffect
  <2>4. Bundles' \subseteq Bundles
    BY <2>1, <2>2, <2>3, NoBundleType DEF Bundles
  <2>5. QED
    BY <1>1, <1>13, <2>2, <2>4, NoBundleType DEF Upload, store
<1>14. ASSUME NEW p \in Procs, ReadCounter(p) PROVE Counting' /\ AllAreKept'
  <2> DEFINE r == [proc[p] EXCEPT !.at = "bump", !.id = NextId(Kind(p))]
  <2>1. proc[p] \in Busy
    BY <1>14, ProcTypes, NoBundleType DEF ReadCounter
  <2>2. NextId(Kind(p)) \in Ids
    BY <1>14, ProcTypes, IdTypes, PreKeysAssumption DEF ReadCounter, Ids, Kind
  <2>3. r \in Proc /\ r.at = "bump" /\ r.id = NextId(Kind(p)) /\ r.n = proc[p].n
    BY <2>1, <2>2, NoBundleType DEF Busy, Steps
  <2> HIDE DEF r
  <2>4. GoTo(p, r) /\ UNCHANGED <<counter, record, directory, session>>
    BY <1>14 DEF ReadCounter, Kind, store, relay, r
  <2>5. \A q \in Procs : proc'[q] = IF q = p THEN r ELSE proc[q]
    BY <2>3, <2>4, GoToEffect
  <2>6. Kind(p)' = Kind(p)
    BY <2>3, <2>5 DEF Kind
  <2>7. Bundles' \subseteq Bundles
    BY <1>2, <2>3, <2>4
  <2>8. QED
    BY <1>0, <2>3, <2>4, <2>5, <2>6, <2>7, QuietCounting
<1>15. CASE \/ ClientRegister \/ UNCHANGED vars
            \/ \E q \in Peers : Fetch(q) \/ ReceivePreKeyMessage(q)
  <2>1. UNCHANGED <<counter, record, proc, overlap>>
    BY <1>15 DEF ClientRegister, Fetch, ReceivePreKeyMessage, vars, store
  <2>2. Bundles' \subseteq Bundles
    BY <1>15 DEF ClientRegister, Fetch, ReceivePreKeyMessage, vars, relay, Bundles, TypeOK
  <2>3. /\ \A b \in Bundles' : Holds(b)' <=> Holds(b)
        /\ \A k : NextId(k)' = NextId(k)
        /\ \A p \in Procs : Kind(p)' = Kind(p) /\ NextId(Kind(p))' = NextId(Kind(p))
    BY <2>1 DEF Holds, NextId, Kind
  <2>4. QED
    BY <2>1, <2>2, <2>3 DEF Counting, AllAreKept
<1>16. QED
  BY <1>0, <1>5, <1>6, <1>7, <1>8, <1>9, <1>10, <1>11, <1>12, <1>13, <1>14, <1>15,
     WriteCounterCounting, SavePreKeyCounting, ExportRecordsCounting DEF Next

LEMMA CountingInit ==
  ASSUME Init
  PROVE  Overlaps(proc) \subseteq overlap /\ Counting /\ AllAreKept
<1>1. \A p \in Procs : proc[p] = Idle /\ proc[p].at = "idle"
  BY NoBundleType DEF Init
<1>2. Bundles = {}
  BY <1>1 DEF Init, Bundles
<1>3. QED
  BY <1>1, <1>2 DEF Init, Overlaps, Counting, AllAreKept

-----------------------------------------------------------------------------
(***************************************************************************)
(* BootstrapExports and BootstrapVerifies.                                 *)
(***************************************************************************)
\* What the two rest on.
Progress == Renewing /\ BootstrapExports /\ Signing /\ BootstrapVerifies

LEMMA DoneFacts ==
  ASSUME TypeOK, NEW p \in Procs
  PROVE  /\ Done(p) \subseteq Kinds
         /\ Generating(p) => Kind(p) \notin Done(p)
<1>1. proc[p].n \in 1..3 /\ Kind(p) = Generated[proc[p].n]
  BY ProcTypes DEF Kind
<1>2. \A i \in 1..(proc[p].n - 1) : i \in 1..3 /\ i # proc[p].n
  BY <1>1
<1>3. QED
  BY <1>1, <1>2, KindFacts DEF Done

\* A step that writes neither identity nor counters nor records and moves a process
\* no further in its generation.
LEMMA QuietProgress ==
  ASSUME TypeOK, Progress, overlap \subseteq overlap',
         UNCHANGED <<identity, counter, record>>,
         NEW p \in Procs, \A q \in Procs : q # p => proc'[q] = proc[q],
         proc'[p].at \notin {"save", "records", "upload"},
         proc'[p].at \in {"check", "setLocalId", "setIdentity", "load"} => proc'[p].n = 1,
         Generating(p)' => \/ proc'[p].signer = identity
                           \/ Generating(p) /\ proc'[p].signer = proc[p].signer,
         proc'[p].task = "bootstrap" =>
           \/ Done(p)' = {}
           \/ proc[p].task = "bootstrap" /\ Done(p)' = Done(p)
  PROVE  Progress'
<1>1. \A q \in Procs : q # p =>
        /\ Kind(q)' = Kind(q) /\ Done(q)' = Done(q) /\ Generating(q)' = Generating(q)
        /\ Found(proc[q].bundle)' = Found(proc[q].bundle)
        /\ Verifies(proc[q].bundle)' = Verifies(proc[q].bundle)
        /\ LatestId(Kind(q))' = LatestId(Kind(q))
  BY DEF Kind, Done, Generating, Found, Verifies, LatestId
<1>2. \A k : Latest(k)' = Latest(k)
  BY DEF Latest, LatestId
<1>3. Renewing'
  BY <1>1, <1>2 DEF Progress, Renewing
<1>4. BootstrapExports'
  BY <1>1 DEF Progress, BootstrapExports
<1>5. Signing'
  BY <1>1, <1>2 DEF Progress, Signing
<1>6. BootstrapVerifies'
  BY <1>1 DEF Progress, BootstrapVerifies
<1>7. QED
  BY <1>3, <1>4, <1>5, <1>6 DEF Progress

\* Unless flagged, nothing happens beside a process that has drawn an id and not
\* saved its record.
LEMMA Alone ==
  ASSUME NEW f, NEW o, Overlaps(f) \subseteq o, "generation" \notin o,
         NEW p \in Procs, f[p].at = "save", NEW q \in Procs, q # p
  PROVE  f[q].at \notin {"draw", "bump", "save", "register", "export"}
BY DEF Overlaps

\* What does not change for a process that does not move.
LEMMA Others ==
  ASSUME UNCHANGED record, NEW q \in Procs, proc'[q] = proc[q]
  PROVE  /\ Kind(q)' = Kind(q) /\ Done(q)' = Done(q) /\ Generating(q)' = Generating(q)
         /\ Found(proc[q].bundle)' = Found(proc[q].bundle)
         /\ Verifies(proc[q].bundle)' = Verifies(proc[q].bundle)
BY DEF Kind, Done, Generating, Found, Verifies

LEMMA WriteCounterProgress ==
  ASSUME TypeOK, TypeOK', Progress, (Overlaps(proc) \subseteq overlap)',
         NEW p \in Procs, WriteCounter(p)
  PROVE  Progress'
<1> DEFINE r == [proc[p] EXCEPT !.at = "save"]
<1>1. proc[p] \in Busy /\ proc[p].at = "bump" /\ proc[p].id \in 1..MaxIds
  BY ProcTypes, NoBundleType DEF WriteCounter, Busy, Ids
<1>2. /\ r \in Proc /\ r.at = "save" /\ r.id = proc[p].id /\ r.n = proc[p].n
      /\ r.signer = proc[p].signer /\ r.task = proc[p].task
  BY <1>1, NoBundleType DEF Busy, Steps
<1> HIDE DEF r
<1>3. GoTo(p, r) /\ UNCHANGED <<identity, record>>
      /\ counter' = [counter EXCEPT ![Kind(p)] = proc[p].id + 1]
  BY DEF WriteCounter, Go, Kind, r
<1>4. /\ \A q \in Procs : proc'[q] = IF q = p THEN r ELSE proc[q]
      /\ overlap \subseteq overlap'
  BY <1>2, <1>3, GoToEffect
<1>5. PICK k \in Kinds : k = Kind(p)
  BY ProcTypes
<1>6. /\ Kind(p)' = k /\ Done(p)' = Done(p)
      /\ Generating(p) /\ Generating(p)' /\ k \notin Done(p) /\ Done(p) \subseteq Kinds
  BY <1>1, <1>2, <1>4, <1>5, DoneFacts DEF Kind, Done, Generating
<1>7. counter'[k] = proc[p].id + 1 /\ \A l \in Kinds \ {k} : counter'[l] = counter[l]
  BY <1>3, <1>5 DEF TypeOK
<1>8. LatestId(k)' = r.id
  BY <1>1, <1>2, <1>7, PreKeysAssumption DEF LatestId
<1>9. \A l \in Done(p) : Latest(l)' = Latest(l)
  BY <1>3, <1>6, <1>7 DEF Latest, LatestId
<1>10. ASSUME "generation" \notin overlap', NEW q \in Procs, q # p
       PROVE  proc'[q].at # "save" /\ Done(q) = {} /\ Done(q)' = {}
  <2>1. Overlaps(proc') \subseteq overlap' /\ proc'[p].at = "save"
    BY <1>2, <1>4 DEF Overlaps
  <2>2. proc'[q].at \notin {"draw", "bump", "save", "register", "export"}
    BY <1>10, <2>1, Alone
  <2>3. QED
    BY <1>4, <1>10, <2>2 DEF Done, Generating
<1>11. \A q \in Procs \ {p} :
         /\ proc'[q] = proc[q]
         /\ Kind(q)' = Kind(q) /\ Done(q)' = Done(q) /\ Generating(q)' = Generating(q)
         /\ Found(proc[q].bundle)' = Found(proc[q].bundle)
         /\ Verifies(proc[q].bundle)' = Verifies(proc[q].bundle)
  BY <1>3, <1>4, Others
<1>12. Renewing'
  <2>1. \A q \in Procs :
          proc'[q].at \in {"check", "setLocalId", "setIdentity", "load"} => proc'[q].n = 1
    BY <1>2, <1>4 DEF Progress, Renewing
  <2>2. ASSUME "generation" \notin overlap', NEW q \in Procs
        PROVE  /\ proc'[q].at = "save" => proc'[q].id = LatestId(Kind(q))'
               /\ proc'[q].task = "bootstrap" => \A l \in Done(q)' : Latest(l)' # NoKey
    <3>1. CASE q = p
      <4>1. proc[p].task = "bootstrap" => \A l \in Done(p) : Latest(l) # NoKey
        BY <1>4, <2>2 DEF Progress, Renewing
      <4>2. LatestId(Kind(p))' = r.id
        BY <1>6, <1>8 DEF LatestId
      <4>3. QED
        BY <1>2, <1>4, <1>6, <1>9, <3>1, <4>1, <4>2
    <3>2. CASE q # p
      BY <1>10, <2>2, <3>2
    <3>3. QED
      BY <3>1, <3>2
  <2>3. QED
    BY <2>1, <2>2 DEF Renewing
<1>13. BootstrapExports'
  BY <1>2, <1>4, <1>11 DEF Progress, BootstrapExports
<1>14. Signing'
  <2>1. ASSUME overlap' \cap {"generation", "identity"} = {}, NEW q \in Procs
        PROVE  /\ Generating(q)' => proc'[q].signer = identity
               /\ proc'[q].task = "bootstrap" =>
                    /\ \A l \in Done(q)' : Latest(l)'.by = identity
                    /\ proc'[q].at \in {"records", "upload"} =>
                         proc'[q].bundle.identity = identity
                    /\ proc'[q].at = "records" =>
                         \A l \in Kinds : Found(proc[q].bundle)[l].by = identity
    <3>1. overlap \cap {"generation", "identity"} = {}
      BY <1>4, <2>1
    <3>2. CASE q = p
      BY <1>2, <1>4, <1>6, <1>9, <3>1, <3>2 DEF Progress, Signing
    <3>3. CASE q # p
      BY <1>10, <1>11, <2>1, <3>1, <3>3 DEF Progress, Signing
    <3>4. QED
      BY <3>2, <3>3
  <2>2. \A q \in Procs : proc'[q].at = "records" =>
          Found(proc[q].bundle)' = Found(proc[q].bundle) /\ proc'[q] = proc[q]
    BY <1>2, <1>4, <1>11
  <2>3. QED
    BY <1>3, <2>1, <2>2 DEF Signing
<1>15. BootstrapVerifies'
  BY <1>2, <1>4, <1>11 DEF Progress, BootstrapVerifies
<1>16. QED
  BY <1>12, <1>13, <1>14, <1>15 DEF Progress

LEMMA SavePreKeyProgress ==
  ASSUME TypeOK, TypeOK', Progress, Overlaps(proc) \subseteq overlap,
         NEW p \in Procs, SavePreKey(p)
  PROVE  Progress'
<1>1. /\ proc[p] \in Busy /\ proc[p].at = "save" /\ proc[p].id \in Ids
      /\ proc[p].n \in 1..3 /\ made \in Nat
  BY ProcTypes, NoBundleType DEF SavePreKey, Busy, TypeOK
<1>2. PICK r \in Proc :
        /\ r = AfterSave(proc[p]) /\ GoTo(p, r) /\ r.task \in {proc[p].task, "none"}
        /\ r.at \in {"draw", "register", "idle"}
        /\ r.at = "draw" => r.signer = proc[p].signer /\ r.n \in {proc[p].n, proc[p].n + 1}
        /\ r.at = "register" => proc[p].n = 3
  BY <1>1, AfterSaveType DEF SavePreKey
<1>3. PICK x : x = [made |-> made + 1, by |-> proc[p].signer]
  OBVIOUS
<1>4. x # NoKey /\ x.by = proc[p].signer
  BY <1>1, <1>3 DEF NoKey
<1>5. PICK k \in Kinds : k = Kind(p)
  BY ProcTypes
<1>6. /\ \A q \in Procs : proc'[q] = IF q = p THEN r ELSE proc[q]
      /\ overlap \subseteq overlap'
  BY <1>2, GoToEffect
<1>7. UNCHANGED <<identity, counter>> /\ record' = [record EXCEPT ![k][proc[p].id] = x]
  BY <1>3, <1>5 DEF SavePreKey, Kind
<1>8. \A l \in Kinds, i \in Ids :
        record'[l][i] = IF l = k /\ i = proc[p].id THEN x ELSE record[l][i]
  BY <1>1, <1>7 DEF TypeOK
<1>9. Done(p)' \subseteq Done(p) \cup {k} /\ Done(p) \subseteq Kinds /\ k \notin Done(p)
  <2>1. CASE r.at = "draw"
    <3>1. Done(p)' = {Generated[i] : i \in 1..(r.n - 1)}
      BY <1>6, <2>1 DEF Done, Generating
    <3>2. \A i \in 1..(r.n - 1) : i \in 1..(proc[p].n - 1) \/ i = proc[p].n
      BY <1>1, <1>2, <2>1
    <3>3. Done(p) = {Generated[i] : i \in 1..(proc[p].n - 1)}
      BY <1>1 DEF Done, Generating
    <3>4. QED
      BY <1>1, <1>5, <3>1, <3>2, <3>3, DoneFacts DEF Kind, Generating
  <2>2. CASE r.at = "register"
    <3>1. Done(p) = {Generated[i] : i \in 1..2} /\ k = Generated[3]
      BY <1>1, <1>2, <1>5, <2>2 DEF Done, Generating, Kind
    <3>2. Kinds \subseteq Done(p) \cup {k}
      BY <3>1 DEF Kinds, Generated
    <3>3. Done(p)' \subseteq Kinds
      BY DoneFacts, <1>6, <2>2 DEF Done, Generating
    <3>4. QED
      BY <1>1, <1>5, <3>2, <3>3, DoneFacts DEF Generating
  <2>3. CASE r.at = "idle"
    BY <1>1, <1>5, <1>6, <2>3, DoneFacts DEF Done, Generating
  <2>4. QED
    BY <1>2, <2>1, <2>2, <2>3
<1>10. \A l \in Kinds : LatestId(l)' = LatestId(l) /\ LatestId(l) \in Ids
  BY <1>7, IdTypes DEF LatestId
<1>11. /\ \A l \in Kinds \ {k} : Latest(l)' = Latest(l)
       /\ "generation" \notin overlap => Latest(k)' = x
  <2>1. \A l \in Kinds : Latest(l)' = record'[l][LatestId(l)]
    BY <1>10 DEF Latest
  <2>2. "generation" \notin overlap => LatestId(k) = proc[p].id
    BY <1>1, <1>5 DEF Progress, Renewing
  <2>3. QED
    BY <1>8, <1>10, <2>1, <2>2 DEF Latest
<1>12. ASSUME "generation" \notin overlap', NEW q \in Procs, q # p
       PROVE  proc'[q].at # "save" /\ ~Generating(q)' /\ Done(q)' = {}
  <2>1. "generation" \notin overlap
    BY <1>6, <1>12
  <2>2. proc[q].at \notin {"draw", "bump", "save", "register", "export"}
    BY <1>1, <1>12, <2>1, Alone
  <2>3. QED
    BY <1>6, <1>12, <2>2 DEF Done, Generating
<1>13. ASSUME NEW q \in Procs, proc'[q].at \in {"records", "upload"}
       PROVE  /\ q # p /\ proc'[q] = proc[q] /\ ~Generating(q)' /\ Done(q)' = {}
              /\ Verifies(proc[q].bundle)' = Verifies(proc[q].bundle)
              /\ \A l \in Kinds : Found(proc[q].bundle)'[l] \in {x, Found(proc[q].bundle)[l]}
  <2>1. q # p /\ proc'[q] = proc[q]
    BY <1>2, <1>6, <1>13
  <2>2. proc[q].bundle \in Bundle
    BY <1>13, <2>1, ProcTypes, NoBundleType DEF Busy
  <2>3. \A l \in Kinds : proc[q].bundle.id[l] \in Ids
    BY <2>2 DEF Bundle
  <2>4. QED
    BY <1>8, <1>13, <2>1, <2>3 DEF Found, Verifies, Done, Generating
<1>14. Renewing'
  <2>1. \A q \in Procs :
          proc'[q].at \in {"check", "setLocalId", "setIdentity", "load"} => proc'[q].n = 1
    BY <1>2, <1>6 DEF Progress, Renewing
  <2>2. ASSUME "generation" \notin overlap', NEW q \in Procs
        PROVE  /\ proc'[q].at # "save"
               /\ proc'[q].task = "bootstrap" => \A l \in Done(q)' : Latest(l)' # NoKey
    <3>1. CASE q = p
      <4>1. proc[p].task = "bootstrap" => \A l \in Done(p) : Latest(l) # NoKey
        BY <1>6, <2>2 DEF Progress, Renewing
      <4>2. r.task = "bootstrap" => proc[p].task = "bootstrap"
        BY <1>2
      <4>3. QED
        BY <1>2, <1>4, <1>6, <1>9, <1>11, <2>2, <3>1, <4>1, <4>2
    <3>2. CASE q # p
      BY <1>12, <2>2, <3>2
    <3>3. QED
      BY <3>1, <3>2
  <2>3. QED
    BY <2>1, <2>2 DEF Renewing
<1>15. BootstrapExports'
  BY <1>4, <1>6, <1>13 DEF Progress, BootstrapExports
<1>16. Signing'
  <2>1. ASSUME overlap' \cap {"generation", "identity"} = {}, NEW q \in Procs
        PROVE  /\ Generating(q)' => proc'[q].signer = identity
               /\ proc'[q].task = "bootstrap" =>
                    /\ \A l \in Done(q)' : Latest(l)'.by = identity
                    /\ proc'[q].at \in {"records", "upload"} =>
                         proc'[q].bundle.identity = identity
                    /\ proc'[q].at = "records" =>
                         \A l \in Kinds : Found(proc[q].bundle)'[l].by = identity
    <3>1. overlap \cap {"generation", "identity"} = {}
      BY <1>6, <2>1
    <3>2. x.by = identity
      BY <1>1, <1>4, <3>1 DEF Progress, Signing, Generating
    <3>3. CASE q = p
      <4>1. Generating(q)' => proc'[q].signer = identity
        BY <1>2, <1>4, <1>6, <3>2, <3>3 DEF Generating
      <4>2. proc'[q].task = "bootstrap" => \A l \in Done(q)' : Latest(l)'.by = identity
        <5>1. r.task = "bootstrap" => \A l \in Done(p) : Latest(l).by = identity
          BY <1>2, <3>1 DEF Progress, Signing
        <5>2. QED
          BY <1>6, <1>9, <1>11, <3>1, <3>2, <3>3, <5>1
      <4>3. QED
        BY <1>2, <1>6, <3>3, <4>1, <4>2
    <3>4. CASE q # p
      BY <1>6, <1>12, <1>13, <2>1, <3>1, <3>2, <3>4 DEF Progress, Signing
    <3>5. QED
      BY <3>3, <3>4
  <2>2. \A q \in Procs : proc'[q].at = "records" => proc'[q] = proc[q]
    BY <1>13
  <2>3. QED
    BY <1>7, <2>1, <2>2 DEF Signing
<1>17. BootstrapVerifies'
  BY <1>6, <1>13 DEF Progress, BootstrapVerifies
<1>18. QED
  BY <1>14, <1>15, <1>16, <1>17 DEF Progress

LEMMA SetIdentityKeyPairProgress ==
  ASSUME TypeOK, TypeOK', Progress, Overlaps(proc) \subseteq overlap,
         NEW p \in Procs, SetIdentityKeyPair(p)
  PROVE  Progress'
<1>1. proc[p] \in Busy /\ proc[p].at = "setIdentity" /\ proc[p].n = 1
  BY ProcTypes, NoBundleType DEF SetIdentityKeyPair, Progress, Renewing
<1>2. PICK r \in Proc : /\ GoTo(p, r) /\ r.at = "load" /\ r.n = 1
  <2>1. [proc[p] EXCEPT !.at = "load"] \in Proc
    BY <1>1, GoType, NoBundleType DEF Steps, Busy
  <2>2. [proc[p] EXCEPT !.at = "load"].at = "load" /\ [proc[p] EXCEPT !.at = "load"].n = 1
    BY <1>1 DEF Busy
  <2>3. QED
    BY <2>1, <2>2 DEF SetIdentityKeyPair, Go
<1>3. /\ \A q \in Procs : proc'[q] = IF q = p THEN r ELSE proc[q]
      /\ overlap \subseteq overlap'
  BY <1>2, GoToEffect
<1>4. UNCHANGED <<counter, record>>
  BY DEF SetIdentityKeyPair
<1>5. \A q \in Procs \ {p} :
         /\ proc'[q] = proc[q]
         /\ Kind(q)' = Kind(q) /\ Done(q)' = Done(q) /\ Generating(q)' = Generating(q)
         /\ Found(proc[q].bundle)' = Found(proc[q].bundle)
         /\ Verifies(proc[q].bundle)' = Verifies(proc[q].bundle)
         /\ LatestId(Kind(q))' = LatestId(Kind(q))
  BY <1>3, <1>4, Others DEF LatestId
<1>6. \A l : Latest(l)' = Latest(l)
  BY <1>4 DEF Latest, LatestId
<1>7. Done(p)' = {} /\ ~Generating(p)'
  BY <1>2, <1>3 DEF Done, Generating
\* Unless flagged, the identity key is replaced when no other process is at work.
<1>8. ASSUME "identity" \notin overlap, NEW q \in Procs, q # p
      PROVE  proc[q] = Idle /\ ~Generating(q)
  BY <1>1, <1>8, NoBundleType DEF Overlaps, Generating
<1>9. Renewing'
  BY <1>2, <1>3, <1>5, <1>6, <1>7 DEF Progress, Renewing
<1>10. BootstrapExports'
  BY <1>2, <1>3, <1>5 DEF Progress, BootstrapExports
<1>11. Signing'
  BY <1>2, <1>3, <1>5, <1>7, <1>8, NoBundleType DEF Signing
<1>12. BootstrapVerifies'
  BY <1>2, <1>3, <1>5 DEF Progress, BootstrapVerifies
<1>13. QED
  BY <1>9, <1>10, <1>11, <1>12 DEF Progress

LEMMA ExportIdsProgress ==
  ASSUME TypeOK, TypeOK', Progress, NEW p \in Procs, ExportIds(p)
  PROVE  Progress'
<1> DEFINE b == [NoBundle EXCEPT !.identity = identity, !.id = [k \in Kinds |-> LatestId(k)]]
<1>1. proc[p] \in Busy /\ proc[p].at = "export" /\ ~Generating(p) /\ Done(p) = Kinds
  BY ProcTypes, NoBundleType DEF ExportIds, Generating, Done
<1>2. b.identity = identity /\ \A k \in Kinds : b.id[k] = LatestId(k)
  BY DEF NoBundle
<1>3. PICK r \in Proc :
        GoTo(p, r) /\ r.at = "records" /\ r.task = proc[p].task /\ r.bundle = b
  <2>1. [proc[p] EXCEPT !.at = "records", !.bundle = b] \in Proc
    BY <1>1, ExportTypes, NoBundleType
  <2>2. GoTo(p, [proc[p] EXCEPT !.at = "records", !.bundle = b])
    BY DEF ExportIds
  <2> HIDE DEF b
  <2>3. QED
    BY <1>1, <2>1, <2>2 DEF Busy
<1> HIDE DEF b
<1>4. /\ \A q \in Procs : proc'[q] = IF q = p THEN r ELSE proc[q]
      /\ overlap \subseteq overlap'
  BY <1>3, GoToEffect
<1>5. UNCHANGED <<identity, counter, record>>
  BY DEF ExportIds, store
<1>6. \A q \in Procs \ {p} :
         /\ proc'[q] = proc[q]
         /\ Kind(q)' = Kind(q) /\ Done(q)' = Done(q) /\ Generating(q)' = Generating(q)
         /\ Found(proc[q].bundle)' = Found(proc[q].bundle)
         /\ Verifies(proc[q].bundle)' = Verifies(proc[q].bundle)
         /\ LatestId(Kind(q))' = LatestId(Kind(q))
  BY <1>4, <1>5, Others DEF LatestId
<1>7. \A l : Latest(l)' = Latest(l)
  BY <1>5 DEF Latest, LatestId
<1>8. Done(p)' = {} /\ ~Generating(p)'
  BY <1>3, <1>4 DEF Done, Generating
<1>9. \A k \in Kinds : Found(proc[p].bundle)'[k] = Latest(k)
  BY <1>2, <1>3, <1>4, <1>5 DEF Found, Latest
<1>10. Renewing'
  BY <1>3, <1>4, <1>6, <1>7, <1>8 DEF Progress, Renewing
<1>11. BootstrapExports'
  BY <1>1, <1>3, <1>4, <1>6, <1>9 DEF Progress, BootstrapExports, Renewing
<1>12. Signing'
  <2>1. \A q \in Procs \ {p} : overlap' \cap {"generation", "identity"} = {} =>
          /\ Generating(q)' => proc'[q].signer = identity
          /\ proc'[q].task = "bootstrap" =>
               /\ \A l \in Done(q)' : Latest(l)'.by = identity
               /\ proc'[q].at \in {"records", "upload"} => proc'[q].bundle.identity = identity
               /\ proc'[q].at = "records" =>
                    \A l \in Kinds : Found(proc[q].bundle)'[l].by = identity
    BY <1>4, <1>6, <1>7 DEF Progress, Signing
  <2>2. overlap' \cap {"generation", "identity"} = {} /\ proc'[p].task = "bootstrap" =>
          /\ proc'[p].bundle.identity = identity
          /\ \A l \in Kinds : Found(proc[p].bundle)'[l].by = identity
    BY <1>1, <1>2, <1>3, <1>4, <1>9 DEF Progress, Signing
  <2>3. QED
    BY <1>5, <1>8, <2>1, <2>2 DEF Signing
<1>13. BootstrapVerifies'
  BY <1>3, <1>4, <1>6 DEF Progress, BootstrapVerifies
<1>14. QED
  BY <1>10, <1>11, <1>12, <1>13 DEF Progress

LEMMA ExportRecordsProgress ==
  ASSUME TypeOK, TypeOK', Progress, NEW p \in Procs, ExportRecords(p)
  PROVE  Progress'
<1> DEFINE b == proc[p].bundle
<1>1. proc[p] \in Busy /\ proc[p].at = "records" /\ b \in Bundle
  BY ProcTypes, NoBundleType DEF ExportRecords, Busy
<1>2. PICK r \in Proc :
        /\ GoTo(p, r) /\ r.at = "upload" /\ r.task = proc[p].task
        /\ r.bundle.identity = b.identity /\ r.bundle.key = Found(b)
  <2>1. proc[p].at = "records" /\ \A k \in Kinds : Found(b)[k] # NoKey
    BY DEF ExportRecords
  <2>2. [proc[p] EXCEPT !.at = "upload", !.bundle.key = Found(b)] \in Busy
    BY <2>1, ExportTypes
  <2>3. [proc[p] EXCEPT !.at = "upload", !.bundle.key = Found(b)] \in Proc
    BY <2>2, NoBundleType
  <2>4. QED
    BY <1>1, <2>3 DEF ExportRecords, Busy, Bundle
<1>3. /\ \A q \in Procs : proc'[q] = IF q = p THEN r ELSE proc[q]
      /\ overlap \subseteq overlap'
  BY <1>2, GoToEffect
<1>4. UNCHANGED <<identity, counter, record>>
  BY DEF ExportRecords, store
<1>5. \A q \in Procs \ {p} :
         /\ proc'[q] = proc[q]
         /\ Kind(q)' = Kind(q) /\ Done(q)' = Done(q) /\ Generating(q)' = Generating(q)
         /\ Found(proc[q].bundle)' = Found(proc[q].bundle)
         /\ Verifies(proc[q].bundle)' = Verifies(proc[q].bundle)
         /\ LatestId(Kind(q))' = LatestId(Kind(q))
  BY <1>3, <1>4, Others DEF LatestId
<1>6. \A l : Latest(l)' = Latest(l)
  BY <1>4 DEF Latest, LatestId
<1>7. Done(p)' = {} /\ ~Generating(p)'
  BY <1>2, <1>3 DEF Done, Generating
<1>8. Renewing'
  BY <1>2, <1>3, <1>5, <1>6, <1>7 DEF Progress, Renewing
<1>9. BootstrapExports'
  BY <1>2, <1>3, <1>5 DEF Progress, BootstrapExports
<1>10. Signing'
  <2>1. \A q \in Procs \ {p} : overlap' \cap {"generation", "identity"} = {} =>
          /\ Generating(q)' => proc'[q].signer = identity
          /\ proc'[q].task = "bootstrap" =>
               /\ \A l \in Done(q)' : Latest(l)'.by = identity
               /\ proc'[q].at \in {"records", "upload"} => proc'[q].bundle.identity = identity
               /\ proc'[q].at = "records" =>
                    \A l \in Kinds : Found(proc[q].bundle)'[l].by = identity
    BY <1>3, <1>5, <1>6 DEF Progress, Signing
  <2>2. overlap' \cap {"generation", "identity"} = {} /\ proc'[p].task = "bootstrap" =>
          proc'[p].at # "records" /\ proc'[p].bundle.identity = identity
    BY <1>1, <1>2, <1>3 DEF Progress, Signing
  <2>3. QED
    BY <1>4, <1>7, <2>1, <2>2 DEF Signing
<1>11. BootstrapVerifies'
  <2>1. overlap \cap {"generation", "identity"} = {} /\ r.task = "bootstrap" =>
          Verifies(proc[p].bundle)'
    BY <1>1, <1>2, <1>3 DEF Progress, Signing, Verifies, Kinds
  <2>2. QED
    BY <1>2, <1>3, <1>5, <2>1 DEF Progress, BootstrapVerifies
<1>12. QED
  BY <1>8, <1>9, <1>10, <1>11 DEF Progress

LEMMA ProgressStep ==
  ASSUME TypeOK, Overlaps(proc) \subseteq overlap, Progress, [Next]_vars
  PROVE  Progress'
<1>0. TypeOK' /\ overlap \subseteq overlap' /\ (Overlaps(proc) \subseteq overlap)'
  BY TypeStep, Moves, NoticingStep
\* The steps that write nothing these properties read and go no further in generation.
<1>1. ASSUME NEW p \in Procs, NEW r \in Proc, GoTo(p, r),
             UNCHANGED <<identity, counter, record>>,
             \/ r.at \in {"check", "setLocalId", "setIdentity", "load", "idle"}
             \/ r.at = "export" /\ r.task # "bootstrap",
             r.at \in {"check", "setLocalId", "setIdentity", "load"} => r.n = 1
      PROVE  Progress'
  <2>1. \A q \in Procs : proc'[q] = IF q = p THEN r ELSE proc[q]
    BY <1>1, GoToEffect
  <2>2. ~Generating(p)' /\ (r.task = "bootstrap" => Done(p)' = {})
    BY <1>1, <2>1 DEF Generating, Done
  <2>3. QED
    BY <1>0, <1>1, <2>1, <2>2, QuietProgress
<1>2. ASSUME NEW p \in Procs, NEW step \in {"load", "setLocalId", "setIdentity"},
             Go(p, step), proc[p].at \in {"check", "setLocalId"},
             UNCHANGED <<identity, counter, record>>
      PROVE  Progress'
  <2>1. proc[p] \in Busy /\ proc[p].n = 1
    BY <1>2, ProcTypes, NoBundleType DEF Progress, Renewing
  <2>2. [proc[p] EXCEPT !.at = step] \in Proc
    BY <1>2, GoType DEF Steps
  <2>3. [proc[p] EXCEPT !.at = step].at = step /\ [proc[p] EXCEPT !.at = step].n = 1
    BY <2>1 DEF Busy
  <2>4. QED
    BY <1>1, <1>2, <2>2, <2>3 DEF Go
<1>3. ASSUME NEW p \in Procs, NEW task \in Tasks, NEW count \in 1..MaxCount,
             Start(p, task, count)
      PROVE  Progress'
  <2> DEFINE r == [Idle EXCEPT !.task = task, !.left = count, !.at = First(task)]
  <2>1. count \in 0..MaxCount
    BY PreKeysAssumption
  <2>2. r \in Proc /\ r.at = First(task) /\ r.n = 1 /\ r.task = task
    BY <2>1, FirstType, BusyType, NoBundleType DEF Idle
  <2>3. First(task) = "export" => task # "bootstrap"
    BY DEF First
  <2> HIDE DEF r
  <2>4. GoTo(p, r) /\ UNCHANGED <<store, relay, session>>
    BY <1>3 DEF Start, r
  <2>5. QED
    BY <1>1, <2>2, <2>3, <2>4, FirstType DEF store
<1>4. ASSUME NEW p \in Procs, Stop(p) \/ Upload(p) PROVE Progress'
  BY <1>1, <1>4, NoBundleType DEF Stop, Upload, store
<1>5. ASSUME NEW p \in Procs, Check(p) \/ SetLocalIdentity(p) PROVE Progress'
  BY <1>2, <1>5 DEF Check, SetLocalIdentity, store
<1>6. ASSUME NEW p \in Procs, LoadIdentityKeyPair(p) PROVE Progress'
  <2> DEFINE r == [proc[p] EXCEPT !.at = "draw", !.signer = identity]
  <2>1. proc[p] \in Busy /\ proc[p].n = 1
    BY <1>6, ProcTypes, NoBundleType DEF LoadIdentityKeyPair, Progress, Renewing
  <2>2. r \in Proc /\ r.at = "draw" /\ r.signer = identity /\ r.n = 1
    BY <2>1, NoBundleType DEF Busy, Steps, TypeOK
  <2> HIDE DEF r
  <2>3. GoTo(p, r) /\ UNCHANGED <<identity, counter, record>>
    BY <1>6 DEF LoadIdentityKeyPair, store, r
  <2>4. \A q \in Procs : proc'[q] = IF q = p THEN r ELSE proc[q]
    BY <2>2, <2>3, GoToEffect
  <2>5. Done(p)' = {}
    BY <2>2, <2>4 DEF Done, Generating
  <2>6. QED
    BY <1>0, <2>2, <2>3, <2>4, <2>5, QuietProgress
<1>7. ASSUME NEW p \in Procs, ReadCounter(p) PROVE Progress'
  <2> DEFINE r == [proc[p] EXCEPT !.at = "bump", !.id = NextId(Kind(p))]
  <2>1. proc[p] \in Busy /\ proc[p].at = "draw"
    BY <1>7, ProcTypes, NoBundleType DEF ReadCounter
  <2>2. NextId(Kind(p)) \in Ids
    BY <1>7, ProcTypes, IdTypes, PreKeysAssumption DEF ReadCounter, Ids, Kind
  <2>3. /\ r \in Proc /\ r.at = "bump" /\ r.n = proc[p].n
        /\ r.signer = proc[p].signer /\ r.task = proc[p].task
    BY <2>1, <2>2, NoBundleType DEF Busy, Steps
  <2> HIDE DEF r
  <2>4. GoTo(p, r) /\ UNCHANGED <<identity, counter, record>>
    BY <1>7 DEF ReadCounter, Kind, store, r
  <2>5. \A q \in Procs : proc'[q] = IF q = p THEN r ELSE proc[q]
    BY <2>3, <2>4, GoToEffect
  <2>6. Done(p)' = Done(p) /\ Generating(p)
    BY <2>1, <2>3, <2>5 DEF Done, Generating
  <2>7. QED
    BY <1>0, <2>3, <2>4, <2>5, <2>6, QuietProgress
<1>8. ASSUME NEW p \in Procs, Register(p) PROVE Progress'
  <2> DEFINE r == [proc[p] EXCEPT !.at = "export"]
  <2>1. proc[p] \in Busy /\ proc[p].at = "register"
    BY <1>8, ProcTypes, NoBundleType DEF Register
  <2>2. r \in Proc /\ r.at = "export" /\ r.task = proc[p].task
    BY <2>1, NoBundleType DEF Busy, Steps
  <2> HIDE DEF r
  <2>3. GoTo(p, r) /\ UNCHANGED <<identity, counter, record>>
    BY <1>8 DEF Register, Go, store, r
  <2>4. \A q \in Procs : proc'[q] = IF q = p THEN r ELSE proc[q]
    BY <2>2, <2>3, GoToEffect
  <2>5. Done(p)' = Done(p) /\ ~Generating(p)'
    BY <2>1, <2>2, <2>4 DEF Done, Generating
  <2>6. QED
    BY <1>0, <2>2, <2>3, <2>4, <2>5, QuietProgress
<1>9. CASE \/ ClientRegister \/ UNCHANGED vars
           \/ \E q \in Peers : Fetch(q) \/ ReceivePreKeyMessage(q)
  <2>1. UNCHANGED <<identity, counter, record, proc, overlap>>
    BY <1>9 DEF ClientRegister, Fetch, ReceivePreKeyMessage, vars, store
  <2>2. /\ \A p \in Procs : Kind(p)' = Kind(p) /\ Done(p)' = Done(p)
                            /\ Generating(p)' = Generating(p)
        /\ \A b : Found(b)' = Found(b) /\ Verifies(b)' = Verifies(b)
        /\ \A k : Latest(k)' = Latest(k) /\ LatestId(k)' = LatestId(k)
    BY <2>1 DEF Kind, Done, Generating, Found, Verifies, Latest, LatestId
  <2>3. \A p \in Procs : LatestId(Kind(p))' = LatestId(Kind(p))
    BY <2>1 DEF LatestId, Kind
  <2>4. Renewing'
    BY <2>1, <2>2, <2>3 DEF Progress, Renewing
  <2>5. Signing'
    BY <2>1, <2>2 DEF Progress, Signing, Found
  <2>6. BootstrapExports' /\ BootstrapVerifies'
    BY <2>1 DEF Progress, BootstrapExports, BootstrapVerifies, Found, Verifies
  <2>7. QED
    BY <2>4, <2>5, <2>6 DEF Progress
<1>10. QED
  BY <1>0, <1>3, <1>4, <1>5, <1>6, <1>7, <1>8, <1>9, SetIdentityKeyPairProgress,
     WriteCounterProgress, SavePreKeyProgress, ExportIdsProgress, ExportRecordsProgress
  DEF Next

LEMMA ProgressInit ==
  ASSUME Init
  PROVE  Progress
<1>1. \A p \in Procs : proc[p] = Idle /\ Idle.at = "idle" /\ Idle.task = "none"
  BY NoBundleType DEF Init
<1>2. \A p \in Procs : ~Generating(p)
  BY <1>1 DEF Generating
<1>3. QED
  BY <1>1, <1>2 DEF Progress, Renewing, BootstrapExports, Signing, BootstrapVerifies

-----------------------------------------------------------------------------
\* The store between the steps of its processes: overlaps are noted when they arise,
\* ids are given out in order, and a bootstrap's own prekeys, or newer ones of the same
\* identity, are the latest.
THEOREM Invariance == Spec => []IInv
<1>1. Init => IInv
  BY CountingInit, ProgressInit DEF IInv, Progress
<1>2. TypeOK /\ IInv /\ [Next]_vars => IInv'
  BY NoticingStep, CountingStep, ProgressStep DEF IInv, Progress
<1>3. QED
  BY <1>1, <1>2, TypeCorrect, PTL DEF Spec

\* The store keeps every key that a bundle names and that is not used up, whether the
\* bundle is about to be uploaded, at the relay or in a peer's session, unless two
\* processes were inside nextCounter for the same kind of prekey.
THEOREM KeysAreKept == Spec => []NamedKeysAreKept
<1>1. IInv => NamedKeysAreKept
  <2>1. AllAreKept => NamedKeysAreKept
    BY DEF AllAreKept, NamedKeysAreKept, Holds
  <2>2. QED
    BY <2>1 DEF IInv
<1>2. QED
  BY <1>1, Invariance, PTL

\* A bootstrap finds the records of the bundle it exports, wherever an earlier process
\* ended between drawing an id and saving the prekey, unless generations overlapped.
THEOREM BootstrapsExport == Spec => []BootstrapExports
<1>1. IInv => BootstrapExports
  BY DEF IInv
<1>2. QED
  BY <1>1, Invariance, PTL

\* The bundle of a bootstrap verifies, whatever init or generate left behind, unless
\* processes overlapped.
THEOREM BootstrapsVerify == Spec => []BootstrapVerifies
<1>1. IInv => BootstrapVerifies
  BY DEF IInv
<1>2. QED
  BY <1>1, Invariance, PTL
=============================================================================
