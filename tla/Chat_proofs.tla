----------------------------- MODULE Chat_proofs -----------------------------
(***************************************************************************)
(* Chat: type correctness, OwnReply, LostReplyHasCause and                 *)
(* PullKeepsWhatItOpens, for any number of prompts, pulls and messages.    *)
(***************************************************************************)
EXTENDS Chat, SequenceTheorems, TLAPS

-----------------------------------------------------------------------------
(***************************************************************************)
(* Turns.  The queue holds each waiting prompt once, and only its head is  *)
(* reading: waits exclude each other.                                      *)
(***************************************************************************)
Turns ==
  /\ \A p \in Prompts : stage[p] \in {"queued", "reading"} <=>
                          \E i \in 1..Len(queue) : queue[i] = p
  /\ \A i, j \in 1..Len(queue) : queue[i] = queue[j] => i = j
  /\ \A p \in Prompts : stage[p] = "reading" => queue[1] = p

LEMMA Parts ==
  TypeOK <=> /\ accepted \subseteq Msgs
             /\ delivered \subseteq accepted /\ unmarked \subseteq accepted
             /\ conn \in Readers \cup {NoReader}
             /\ link \in [Readers -> {"none", "connecting", "open", "closing", "closed"}]
             /\ wire \in [Readers -> SUBSET Msgs] /\ reading \in [Readers -> SUBSET Msgs]
             /\ pending \in [Readers -> SUBSET Msgs] /\ received \in [Readers -> SUBSET Msgs]
             /\ stage \in [Readers -> {"idle", "queued", "reading", "finishing",
                                       "aborting", "answered", "failed"}]
             /\ prompted \subseteq Prompts
             /\ queue \in Seq(Prompts)
             /\ opened \subseteq Msgs
             /\ late \subseteq Readers \X Msgs
             /\ errors \in 0..MaxErrors
  BY DEF TypeOK

LEMMA InitTurns == Init => TypeOK /\ Turns
<1> SUFFICES ASSUME Init PROVE TypeOK /\ Turns
  OBVIOUS
<1>1. queue \in Seq(Prompts) /\ Len(queue) = 0
  BY EmptySeq DEF Init
<1>2. errors \in 0..MaxErrors
  BY ChatAssumption DEF Init
<1>3. TypeOK
  BY <1>1, <1>2, Parts DEF Init
<1>4. Turns
  BY <1>1 DEF Init, Turns, Readers
<1>5. QED
  BY <1>3, <1>4

\* The prompt at the head of the queue leaves it.
LEMMA HeadLeaves ==
  ASSUME TypeOK, Turns, NEW p \in Prompts, stage[p] \in {"queued", "reading"},
         queue[1] = p, queue' = Tail(queue),
         NEW result \in {"answered", "failed"}, stage' = [stage EXCEPT ![p] = result]
  PROVE  queue' \in Seq(Prompts) /\ Turns'
<1>1. queue \in Seq(Prompts) /\ queue # <<>>
  <2>1. \E i \in 1..Len(queue) : queue[i] = p
    BY DEF Turns
  <2>2. queue # <<>>
    BY <2>1, EmptySeq
  <2>3. QED
    BY <2>2 DEF TypeOK
<1>2. /\ queue' \in Seq(Prompts)
      /\ Len(queue') = Len(queue) - 1 /\ Len(queue) \in Nat /\ Len(queue) >= 1
      /\ \A i \in 1..(Len(queue) - 1) : queue'[i] = queue[i + 1]
  BY <1>1, HeadTailProperties, LenProperties, EmptySeq
<1>3. \A r \in Prompts : stage'[r] = IF r = p THEN result ELSE stage[r]
  BY Parts DEF Readers
<1>4. \A i, j \in 1..Len(queue') : queue'[i] = queue'[j] => i = j
  BY <1>2 DEF Turns
<1>5. ASSUME NEW r \in Prompts
      PROVE  stage'[r] \in {"queued", "reading"} <=> \E i \in 1..Len(queue') : queue'[i] = r
  <2>1. CASE r = p
    <3>1. \A i \in 1..Len(queue) : queue[i] = p => i = 1
      BY <1>2 DEF Turns
    <3>2. \A i \in 1..Len(queue') : queue'[i] # p
      BY <1>2, <3>1
    <3>3. QED
      BY <1>3, <2>1, <3>2
  <2>2. CASE r # p
    <3>1. ASSUME NEW i \in 1..Len(queue), queue[i] = r PROVE \E j \in 1..Len(queue') : queue'[j] = r
      <4>1. i - 1 \in 1..Len(queue') /\ queue'[i - 1] = r
        BY <1>2, <2>2, <3>1
      <4>2. QED
        BY <4>1
    <3>2. ASSUME NEW j \in 1..Len(queue'), queue'[j] = r PROVE \E i \in 1..Len(queue) : queue[i] = r
      <4>1. j + 1 \in 1..Len(queue) /\ queue[j + 1] = r
        BY <1>2, <3>2
      <4>2. QED
        BY <4>1
    <3>3. QED
      BY <1>3, <2>2, <3>1, <3>2 DEF Turns
  <2>3. QED
    BY <2>1, <2>2
<1>6. \A r \in Prompts : stage'[r] # "reading"
  BY <1>3 DEF Turns
<1>7. QED
  BY <1>2, <1>4, <1>5, <1>6 DEF Turns

\* Steps of pulls, and steps that leave stages and queue alone.
LEMMA TurnsOfPull ==
  ASSUME TypeOK, Turns, \A p \in Prompts : stage'[p] = stage[p], queue' = queue
  PROVE  Turns'
  BY DEF Turns

LEMMA WriteType ==
  ASSUME TypeOK, NEW m \in Msgs, Write(m), conn # NoReader,
         accepted' \subseteq Msgs, accepted \subseteq accepted', m \in accepted'
  PROVE  /\ wire' \in [Readers -> SUBSET Msgs]
         /\ delivered' \subseteq accepted' /\ unmarked' \subseteq accepted'
         /\ errors' \in 0..MaxErrors
<1>1. conn \in Readers
  BY Parts
<1>2. wire' \in [Readers -> SUBSET Msgs]
  BY <1>1, Parts DEF Write
<1>3. delivered' \subseteq accepted' /\ unmarked' \subseteq accepted'
  BY Parts DEF Write
<1>4. errors' \in 0..MaxErrors
  BY Parts, ChatAssumption DEF Write
<1>5. QED
  BY <1>2, <1>3, <1>4

LEMMA SettlePromptTurns ==
  ASSUME TypeOK, Turns, NEW p \in Prompts, NEW result \in {"answered", "failed"},
         SettlePrompt(p, result)
  PROVE  /\ queue' \in Seq(Prompts) /\ Turns'
         /\ stage' \in [Readers -> {"idle", "queued", "reading", "finishing",
                                    "aborting", "answered", "failed"}]
<1>1. stage[p] = "reading" /\ stage' = [stage EXCEPT ![p] = result] /\ queue' = Tail(queue)
  BY DEF SettlePrompt, Continued
<1>2. queue[1] = p
  BY <1>1 DEF Turns
<1>3. queue' \in Seq(Prompts) /\ Turns'
  BY <1>1, <1>2, HeadLeaves
<1>4. QED
  BY <1>1, <1>3, Parts

LEMMA CloseSocketType ==
  ASSUME TypeOK, NEW r \in Readers, CloseSocket(r)
  PROVE  link' \in [Readers -> {"none", "connecting", "open", "closing", "closed"}]
  BY Parts DEF CloseSocket

LEMMA SettlePullType ==
  ASSUME TypeOK, Turns, NEW q \in Pulls, NEW next \in {"finishing", "aborting"},
         SettlePull(q, next), UNCHANGED queue
  PROVE  /\ stage' \in [Readers -> {"idle", "queued", "reading", "finishing",
                                    "aborting", "answered", "failed"}]
         /\ pending' \in [Readers -> SUBSET Msgs]
         /\ Turns'
<1>1. q \in Readers /\ q \notin Prompts
  BY ChatAssumption DEF Readers
<1>2. reading[q] \subseteq Msgs
  BY <1>1, Parts
<1>3. \A p \in Prompts : stage'[p] = stage[p]
  BY <1>1, Parts DEF SettlePull, Readers
<1>4. Turns'
  BY <1>3, TurnsOfPull
<1>5. QED
  BY <1>1, <1>2, <1>4, Parts DEF SettlePull, Awaited

-----------------------------------------------------------------------------
(***************************************************************************)
(* TypeOK /\ Turns is inductive.                                           *)
(***************************************************************************)
LEMMA SubmitTurns ==
  ASSUME TypeOK, Turns, NEW p \in Prompts, Submit(p)
  PROVE  TypeOK' /\ Turns'
<1>1. p \in Readers /\ stage[p] = "idle" /\ stage' = [stage EXCEPT ![p] = "queued"]
  BY DEF Submit, Readers
<1>2. queue \in Seq(Prompts)
  BY Parts
<1>3. /\ queue' \in Seq(Prompts)
      /\ Len(queue) \in Nat /\ Len(queue') = Len(queue) + 1
      /\ \A i \in 1..Len(queue) : queue'[i] = queue[i]
      /\ queue'[Len(queue) + 1] = p
  BY <1>2, AppendProperties, LenProperties DEF Submit
<1>4. TypeOK'
  <2>1. stage' \in [Readers -> {"idle", "queued", "reading", "finishing",
                                "aborting", "answered", "failed"}]
    BY <1>1, Parts
  <2>2. QED
    BY <1>3, <2>1, Parts DEF Submit, relayVars, socketVars, readVars, TypeOK
<1>5. \A r \in Prompts : stage'[r] = IF r = p THEN "queued" ELSE stage[r]
  BY <1>1, Parts DEF Readers
<1>6. \A i \in 1..Len(queue) : queue[i] # p
  BY <1>1 DEF Turns
<1>7. \A i, j \in 1..Len(queue') : queue'[i] = queue'[j] => i = j
  <2> SUFFICES ASSUME NEW i \in 1..Len(queue'), NEW j \in 1..Len(queue'), queue'[i] = queue'[j]
               PROVE  i = j
    OBVIOUS
  <2>1. i \in 1..Len(queue) \/ i = Len(queue) + 1
    BY <1>3
  <2>2. j \in 1..Len(queue) \/ j = Len(queue) + 1
    BY <1>3
  <2>3. QED
    BY <1>3, <1>6, <2>1, <2>2 DEF Turns
<1>8. ASSUME NEW r \in Prompts
      PROVE  stage'[r] \in {"queued", "reading"} <=> \E i \in 1..Len(queue') : queue'[i] = r
  <2>1. CASE r = p
    BY <1>3, <1>5, <2>1
  <2>2. CASE r # p
    <3>1. ASSUME NEW i \in 1..Len(queue), queue[i] = r PROVE \E j \in 1..Len(queue') : queue'[j] = r
      BY <1>3, <3>1
    <3>2. ASSUME NEW j \in 1..Len(queue'), queue'[j] = r PROVE \E i \in 1..Len(queue) : queue[i] = r
      <4>1. j \in 1..Len(queue)
        BY <1>3, <2>2, <3>2
      <4>2. QED
        BY <1>3, <3>2, <4>1
    <3>3. QED
      BY <1>5, <2>2, <3>1, <3>2 DEF Turns
  <2>3. QED
    BY <2>1, <2>2
<1>9. \A r \in Prompts : stage'[r] = "reading" => queue'[1] = r
  <2> SUFFICES ASSUME NEW r \in Prompts, stage'[r] = "reading" PROVE queue'[1] = r
    OBVIOUS
  <2>1. stage[r] = "reading"
    BY <1>5
  <2>2. queue[1] = r /\ \E i \in 1..Len(queue) : queue[i] = r
    BY <2>1 DEF Turns
  <2>3. 1 \in 1..Len(queue)
    BY <1>3, <2>2
  <2>4. QED
    BY <1>3, <2>2, <2>3
<1>10. QED
  BY <1>4, <1>7, <1>8, <1>9 DEF Turns

LEMMA FirstOfQueue ==
  ASSUME TypeOK, Turns, NEW p \in Prompts, MayRun(p)
  PROVE  queue[1] = p /\ stage[p] = "queued"
  BY DEF MayRun

LEMMA PostTurns ==
  ASSUME TypeOK, Turns, NEW p \in Prompts, Post(p)
  PROVE  TypeOK' /\ Turns'
<1>1. p \in Readers /\ queue[1] = p /\ stage[p] = "queued"
  BY FirstOfQueue DEF Post, Readers
<1>2. TypeOK'
  <2>1. /\ stage' \in [Readers -> {"idle", "queued", "reading", "finishing",
                                   "aborting", "answered", "failed"}]
        /\ link' \in [Readers -> {"none", "connecting", "open", "closing", "closed"}]
        /\ prompted' \subseteq Prompts
    BY <1>1, Parts DEF Post
  <2>2. QED
    BY <2>1, Parts DEF Post, relayVars, readVars, TypeOK
<1>3. \A r \in Prompts : stage'[r] = IF r = p THEN "reading" ELSE stage[r]
  BY Parts DEF Post, Readers
<1>4. queue' = queue
  BY DEF Post
<1>5. \A r \in Prompts : stage'[r] = "reading" => queue'[1] = r
  BY <1>1, <1>3, <1>4 DEF Turns
<1>6. \A r \in Prompts : stage'[r] \in {"queued", "reading"} <=> stage[r] \in {"queued", "reading"}
  BY <1>1, <1>3
<1>7. QED
  BY <1>2, <1>4, <1>5, <1>6 DEF Turns

LEMMA TaskFailsTurns ==
  ASSUME TypeOK, Turns, NEW p \in Prompts, TaskFails(p)
  PROVE  TypeOK' /\ Turns'
<1>1. p \in Readers /\ queue[1] = p /\ stage[p] = "queued"
  BY FirstOfQueue DEF TaskFails, Readers
<1>2. stage' = [stage EXCEPT ![p] = "failed"] /\ queue' = Tail(queue)
  BY DEF TaskFails, Continued
<1>3. queue' \in Seq(Prompts) /\ Turns'
  BY <1>1, <1>2, HeadLeaves
<1>4. errors' \in 0..MaxErrors
  BY Parts, ChatAssumption DEF TaskFails
<1>5. prompted' \subseteq Prompts
  BY Parts DEF TaskFails
<1>6. stage' \in [Readers -> {"idle", "queued", "reading", "finishing",
                              "aborting", "answered", "failed"}]
  BY <1>1, <1>2, Parts
<1>7. TypeOK'
  BY <1>3, <1>4, <1>5, <1>6, Parts DEF TaskFails, relayVars, socketVars, readVars, TypeOK
<1>8. QED
  BY <1>3, <1>7

LEMMA DeliverTurns ==
  ASSUME TypeOK, Turns, NEW m \in Msgs, Deliver(m)
  PROVE  TypeOK' /\ Turns'
<1>1. Turns'
  BY TurnsOfPull DEF Deliver
<1>2. accepted' = accepted \cup {m}
  BY DEF Deliver
<1>3. /\ wire' \in [Readers -> SUBSET Msgs]
      /\ delivered' \subseteq accepted' /\ unmarked' \subseteq accepted'
      /\ errors' \in 0..MaxErrors
  <2>1. CASE conn # NoReader
    <3>1. Write(m)
      BY <2>1 DEF Deliver
    <3>2. accepted' \subseteq Msgs
      BY <1>2, Parts
    <3>3. QED
      BY <1>2, <2>1, <3>1, <3>2, WriteType
  <2>2. CASE conn = NoReader
    BY <1>2, <2>2, Parts DEF Deliver
  <2>3. QED
    BY <2>1, <2>2
<1>4. TypeOK'
  BY <1>2, <1>3, Parts DEF Deliver, readVars, TypeOK
<1>5. QED
  BY <1>1, <1>4

LEMMA OfferTurns ==
  ASSUME TypeOK, Turns, NEW m \in Msgs, Offer(m)
  PROVE  TypeOK' /\ Turns'
<1>1. Turns'
  BY TurnsOfPull DEF Offer
<1>2. /\ wire' \in [Readers -> SUBSET Msgs]
      /\ delivered' \subseteq accepted' /\ unmarked' \subseteq accepted'
      /\ errors' \in 0..MaxErrors
  BY Parts, WriteType DEF Offer
<1>3. TypeOK'
  BY <1>2, Parts DEF Offer, readVars, TypeOK
<1>4. QED
  BY <1>1, <1>3

LEMMA UpgradeTurns ==
  ASSUME TypeOK, Turns, NEW r \in Readers, Upgrade(r)
  PROVE  TypeOK' /\ Turns'
<1>1. Turns'
  BY TurnsOfPull DEF Upgrade
<1>2. link' \in [Readers -> {"none", "connecting", "open", "closing", "closed"}]
  BY Parts DEF Upgrade
<1>3. TypeOK'
  BY <1>2, Parts DEF Upgrade, readVars, TypeOK
<1>4. QED
  BY <1>1, <1>3

LEMMA StartPullTurns ==
  ASSUME TypeOK, Turns, NEW q \in Pulls, StartPull(q)
  PROVE  TypeOK' /\ Turns'
<1>1. q \in Readers /\ q \notin Prompts
  BY ChatAssumption DEF Readers
<1>2. \A p \in Prompts : stage'[p] = stage[p]
  BY <1>1, Parts DEF StartPull, Readers
<1>3. Turns'
  BY <1>2, TurnsOfPull DEF StartPull
<1>4. TypeOK'
  BY <1>1, Parts DEF StartPull, relayVars, readVars, TypeOK
<1>5. QED
  BY <1>3, <1>4

LEMMA PullReturnsTurns ==
  ASSUME TypeOK, Turns, NEW q \in Pulls, PullReturns(q)
  PROVE  TypeOK' /\ Turns'
<1>1. q \in Readers /\ q \notin Prompts
  BY ChatAssumption DEF Readers
<1>2. \A p \in Prompts : stage'[p] = stage[p]
  BY <1>1, Parts DEF PullReturns, Readers
<1>3. Turns'
  BY <1>2, TurnsOfPull DEF PullReturns
<1>4. link' \in [Readers -> {"none", "connecting", "open", "closing", "closed"}]
  BY <1>1, CloseSocketType DEF PullReturns
<1>5. stage' \in [Readers -> {"idle", "queued", "reading", "finishing",
                              "aborting", "answered", "failed"}]
  BY <1>1, Parts DEF PullReturns
<1>6. TypeOK'
  BY <1>4, <1>5, Parts DEF PullReturns, relayVars, readVars, TypeOK
<1>7. QED
  BY <1>3, <1>6

LEMMA OnMessageTurns ==
  ASSUME TypeOK, Turns, NEW r \in Readers, NEW m \in Msgs, OnMessage(r, m)
  PROVE  TypeOK' /\ Turns'
<1>1. Turns'
  BY TurnsOfPull DEF OnMessage
<1>2. wire' \in [Readers -> SUBSET Msgs] /\ reading' \in [Readers -> SUBSET Msgs]
  BY Parts DEF OnMessage
<1>3. late' \subseteq Readers \X Msgs
  BY Parts DEF OnMessage
<1>4. TypeOK'
  BY <1>2, <1>3, Parts DEF OnMessage, relayVars, TypeOK
<1>5. QED
  BY <1>1, <1>4

\* Where a decryption of r settles the wait of r.
LEMMA DecryptedSettles ==
  ASSUME NEW r \in Readers, NEW m \in Msgs, Decrypted(r, m)
  PROVE  \/ /\ r \in Prompts /\ m \notin opened /\ Wanted(r, m)
            /\ SettlePrompt(r, "answered") /\ CloseSocket(r)
            /\ received' = [received EXCEPT ![r] = @ \cup {m}]
         \/ /\ r \notin Prompts /\ m \notin opened /\ Wanted(r, m)
            /\ UNCHANGED <<stage, queue, link>>
            /\ received' = [received EXCEPT ![r] = @ \cup {m}]
         \/ /\ m \in opened \/ ~Wanted(r, m)
            /\ UNCHANGED <<received, stage, queue, link>>
  BY DEF Decrypted

LEMMA DecryptedTurns ==
  ASSUME TypeOK, Turns, NEW r \in Readers, NEW m \in Msgs, Decrypted(r, m)
  PROVE  TypeOK' /\ Turns'
<1>1. /\ reading' \in [Readers -> SUBSET Msgs] /\ pending' \in [Readers -> SUBSET Msgs]
      /\ late' \subseteq Readers \X Msgs /\ opened' \subseteq Msgs
  BY Parts DEF Decrypted
<1>2. received' \in [Readers -> SUBSET Msgs]
  BY DecryptedSettles, Parts
<1>3. /\ queue' \in Seq(Prompts) /\ Turns'
      /\ stage' \in [Readers -> {"idle", "queued", "reading", "finishing",
                                 "aborting", "answered", "failed"}]
      /\ link' \in [Readers -> {"none", "connecting", "open", "closing", "closed"}]
  <2>1. CASE r \in Prompts /\ SettlePrompt(r, "answered") /\ CloseSocket(r)
    BY <2>1, SettlePromptTurns, CloseSocketType
  <2>2. CASE UNCHANGED <<stage, queue, link>>
    BY <2>2, Parts, TurnsOfPull
  <2>3. QED
    BY <2>1, <2>2, DecryptedSettles
<1>4. TypeOK'
  BY <1>1, <1>2, <1>3, Parts DEF Decrypted, relayVars, TypeOK
<1>5. QED
  BY <1>3, <1>4

LEMMA TimeoutTurns ==
  ASSUME TypeOK, Turns, NEW r \in Readers, Timeout(r)
  PROVE  TypeOK' /\ Turns'
<1>1. /\ queue' \in Seq(Prompts) /\ Turns'
      /\ stage' \in [Readers -> {"idle", "queued", "reading", "finishing",
                                 "aborting", "answered", "failed"}]
      /\ link' \in [Readers -> {"none", "connecting", "open", "closing", "closed"}]
      /\ pending' \in [Readers -> SUBSET Msgs]
  <2>1. CASE r \in Prompts /\ SettlePrompt(r, "failed") /\ CloseSocket(r) /\ UNCHANGED pending
    BY <2>1, SettlePromptTurns, CloseSocketType, Parts
  <2>2. CASE r \in Pulls /\ SettlePull(r, "finishing") /\ UNCHANGED <<queue, link>>
    BY <2>2, SettlePullType, Parts
  <2>3. QED
    BY <2>1, <2>2 DEF Timeout
<1>2. TypeOK'
  BY <1>1, Parts DEF Timeout, relayVars, TypeOK
<1>3. QED
  BY <1>1, <1>2

LEMMA ClosedTurns ==
  ASSUME TypeOK, Turns, NEW r \in Readers, Closed(r)
  PROVE  TypeOK' /\ Turns'
<1>1. /\ queue' \in Seq(Prompts) /\ Turns'
      /\ stage' \in [Readers -> {"idle", "queued", "reading", "finishing",
                                 "aborting", "answered", "failed"}]
      /\ pending' \in [Readers -> SUBSET Msgs]
  <2>1. CASE UNCHANGED <<stage, queue, pending>>
    BY <2>1, TurnsOfPull, Parts
  <2>2. CASE r \in Prompts /\ SettlePrompt(r, "failed") /\ UNCHANGED pending
    BY <2>2, SettlePromptTurns, Parts
  <2>3. ASSUME r \in Pulls, NEW next \in {"finishing", "aborting"}, SettlePull(r, next),
               UNCHANGED queue
        PROVE  <1>1!1 /\ <1>1!2 /\ <1>1!3
    BY <2>3, SettlePullType, Parts
  <2>4. QED
    BY <2>1, <2>2, <2>3 DEF Closed
<1>2. /\ wire' \in [Readers -> SUBSET Msgs]
      /\ link' \in [Readers -> {"none", "connecting", "open", "closing", "closed"}]
      /\ conn' \in Readers \cup {NoReader} /\ unmarked' \subseteq accepted'
  BY Parts DEF Closed
<1>3. errors' \in 0..MaxErrors
  BY Parts, ChatAssumption DEF Closed
<1>4. TypeOK'
  BY <1>1, <1>2, <1>3, Parts DEF Closed, TypeOK
<1>5. QED
  BY <1>1, <1>4

LEMMA NextTurns == TypeOK /\ Turns /\ [Next]_vars => TypeOK' /\ Turns'
<1> SUFFICES ASSUME TypeOK, Turns, [Next]_vars PROVE TypeOK' /\ Turns'
  OBVIOUS
<1> USE DEF Readers, Msgs
<1>1. CASE UNCHANGED vars
  BY <1>1, Parts DEF vars, TypeOK, Turns
<1>2. ASSUME NEW p \in Prompts, Submit(p) PROVE TypeOK' /\ Turns'
  BY <1>2, SubmitTurns
<1>3. ASSUME NEW p \in Prompts, Post(p) PROVE TypeOK' /\ Turns'
  BY <1>3, PostTurns
<1>4. ASSUME NEW p \in Prompts, TaskFails(p) PROVE TypeOK' /\ Turns'
  BY <1>4, TaskFailsTurns
<1>5. ASSUME NEW p \in Prompts, AgentReplies(p) PROVE TypeOK' /\ Turns'
  BY <1>5, DeliverTurns DEF AgentReplies
<1>6. ASSUME NEW q \in Pulls, StartPull(q) PROVE TypeOK' /\ Turns'
  BY <1>6, StartPullTurns
<1>7. ASSUME NEW q \in Pulls, PullReturns(q) PROVE TypeOK' /\ Turns'
  BY <1>7, PullReturnsTurns
<1>8. ASSUME NEW d \in Directs, PeerSends(d) PROVE TypeOK' /\ Turns'
  BY <1>8, DeliverTurns DEF PeerSends
<1>9. ASSUME NEW m \in Msgs, Offer(m) PROVE TypeOK' /\ Turns'
  BY <1>9, OfferTurns
<1>10. ASSUME NEW r \in Readers, Upgrade(r) PROVE TypeOK' /\ Turns'
  BY <1>10, UpgradeTurns
<1>11. ASSUME NEW r \in Readers, Timeout(r) PROVE TypeOK' /\ Turns'
  BY <1>11, TimeoutTurns
<1>12. ASSUME NEW r \in Readers, Closed(r) PROVE TypeOK' /\ Turns'
  BY <1>12, ClosedTurns
<1>13. ASSUME NEW r \in Readers, NEW m \in Msgs, OnMessage(r, m) PROVE TypeOK' /\ Turns'
  BY <1>13, OnMessageTurns
<1>14. ASSUME NEW r \in Readers, NEW m \in Msgs, Decrypted(r, m) PROVE TypeOK' /\ Turns'
  BY <1>14, DecryptedTurns
<1>15. QED
  BY <1>1, <1>2, <1>3, <1>4, <1>5, <1>6, <1>7, <1>8, <1>9, <1>10, <1>11, <1>12, <1>13, <1>14
     DEF Next

\* Every variable keeps its type, and the prompts take turns.
THEOREM TypeCorrect == Spec => []TypeOK
<1>1. Spec => [](TypeOK /\ Turns)
  BY InitTurns, NextTurns, PTL DEF Spec
<1>2. QED
  BY <1>1, PTL

-----------------------------------------------------------------------------
(***************************************************************************)
(* OwnReply.                                                               *)
(***************************************************************************)
\* Steps that do not settle the wait of a prompt with its reply.
LEMMA OwnReplyKept ==
  ASSUME OwnReply,
         \A p \in Prompts : received'[p] = received[p]
                            /\ (stage'[p] = "answered" <=> stage[p] = "answered")
  PROVE  OwnReply'
  BY DEF OwnReply

\* No prompt is answered, and no reply is kept.
LEMMA NoneAnswered ==
  ASSUME OwnReply, received' = received,
         \A p \in Prompts : \/ stage'[p] = stage[p]
                            \/ stage[p] # "answered" /\ stage'[p] # "answered"
  PROVE  OwnReply'
  BY OwnReplyKept

LEMMA DecryptedOwn ==
  ASSUME TypeOK, OwnReply, NEW r \in Readers, NEW m \in Msgs, Decrypted(r, m)
  PROVE  OwnReply'
<1>1. CASE /\ r \in Prompts /\ Wanted(r, m) /\ SettlePrompt(r, "answered")
           /\ received' = [received EXCEPT ![r] = @ \cup {m}]
  <2>1. m = r /\ stage[r] = "reading" /\ stage' = [stage EXCEPT ![r] = "answered"]
    BY <1>1 DEF Wanted, IsReplyTo, SettlePrompt
  <2>2. received[r] = {}
    BY <1>1, <2>1 DEF OwnReply
  <2>3. received'[r] = {r} /\ stage'[r] = "answered"
    BY <1>1, <2>1, <2>2, Parts
  <2>4. \A p \in Prompts : p # r => received'[p] = received[p] /\ stage'[p] = stage[p]
    BY <1>1, <2>1, Parts DEF Readers
  <2>5. QED
    BY <2>3, <2>4 DEF OwnReply
<1>2. CASE /\ r \notin Prompts /\ UNCHANGED stage
           /\ received' = [received EXCEPT ![r] = @ \cup {m}]
  <2>1. \A p \in Prompts : received'[p] = received[p]
    BY <1>2, Parts DEF Readers
  <2>2. QED
    BY <1>2, <2>1, OwnReplyKept
<1>3. CASE UNCHANGED <<received, stage>>
  BY <1>3, OwnReplyKept
<1>4. QED
  BY <1>1, <1>2, <1>3, DecryptedSettles

LEMMA NextOwn == TypeOK /\ OwnReply /\ [Next]_vars => OwnReply'
<1> SUFFICES ASSUME TypeOK, OwnReply, [Next]_vars PROVE OwnReply'
  OBVIOUS
<1>1. CASE UNCHANGED <<stage, received>>
  BY <1>1, OwnReplyKept
<1>2. ASSUME NEW p \in Prompts, Submit(p) \/ Post(p) \/ TaskFails(p) PROVE OwnReply'
  <2>1. received' = received /\ stage[p] # "answered"
        /\ \E s \in {"queued", "reading", "failed"} : stage' = [stage EXCEPT ![p] = s]
    BY <1>2 DEF Submit, Post, TaskFails, MayRun, readVars
  <2>2. QED
    BY <2>1, NoneAnswered, Parts DEF Readers
<1>3. ASSUME NEW q \in Pulls, StartPull(q) \/ PullReturns(q) PROVE OwnReply'
  <2>1. q \notin Prompts /\ q \in Readers
    BY ChatAssumption DEF Readers
  <2>2. \A p \in Prompts : stage'[p] = stage[p]
    BY <1>3, <2>1, Parts DEF StartPull, PullReturns, Readers
  <2>3. received' = received
    BY <1>3 DEF StartPull, PullReturns, readVars
  <2>4. QED
    BY <2>2, <2>3, NoneAnswered
<1>5. ASSUME NEW p \in Prompts, SettlePrompt(p, "failed"), UNCHANGED received PROVE OwnReply'
  BY <1>5, NoneAnswered, Parts DEF SettlePrompt, Readers
<1>6. ASSUME NEW q \in Pulls, NEW next \in {"finishing", "aborting"}, SettlePull(q, next),
             UNCHANGED received
      PROVE  OwnReply'
  <2>1. \A p \in Prompts : stage'[p] = stage[p]
    BY <1>6, ChatAssumption, Parts DEF SettlePull, Readers
  <2>2. QED
    BY <1>6, <2>1, NoneAnswered
<1>7. ASSUME NEW r \in Readers, Timeout(r) PROVE OwnReply'
  BY <1>5, <1>6, <1>7 DEF Timeout
<1>8. ASSUME NEW r \in Readers, Closed(r) PROVE OwnReply'
  BY <1>1, <1>5, <1>6, <1>8 DEF Closed
<1>9. ASSUME NEW r \in Readers, NEW m \in Msgs, Decrypted(r, m) PROVE OwnReply'
  BY <1>9, DecryptedOwn
<1>10. ASSUME NEW m \in Msgs, Deliver(m) \/ Offer(m) PROVE OwnReply'
  BY <1>1, <1>10 DEF Deliver, Offer, readVars
<1>11. ASSUME NEW r \in Readers, Upgrade(r) PROVE OwnReply'
  BY <1>1, <1>11 DEF Upgrade, readVars
<1>12. ASSUME NEW r \in Readers, NEW m \in Msgs, OnMessage(r, m) PROVE OwnReply'
  BY <1>1, <1>12 DEF OnMessage
<1>13. QED
  BY <1>1, <1>2, <1>3, <1>7, <1>8, <1>9, <1>10, <1>11, <1>12
     DEF Next, vars, AgentReplies, PeerSends, Msgs

\* A prompt is answered with its own reply and with nothing else, whatever
\* late replies its wait reads.
THEOREM RepliesAreOwn == Spec => []OwnReply
<1>1. Init => OwnReply
  BY DEF Init, OwnReply, Readers
<1>2. QED
  BY <1>1, TypeCorrect, NextOwn, PTL DEF Spec

-----------------------------------------------------------------------------
(***************************************************************************)
(* LostReplyHasCause and PullKeepsWhatItOpens.  What a reader has under    *)
(* decryption came from the relay; a reply exists only after its prompt    *)
(* was posted; a foreign reply at a socket of another prompt came late; a  *)
(* pull waits for what came in time.                                       *)
(***************************************************************************)
FromRelay ==
  /\ \A r \in Readers : wire[r] \subseteq accepted /\ reading[r] \subseteq accepted
  /\ \A p \in Prompts : p \in accepted => p \in prompted
  /\ \A p \in Prompts : p \in prompted => stage[p] \notin {"idle", "queued"}

ForeignIsLate ==
  \A r, p \in Prompts :
    p \in reading[r] /\ p # r /\ stage[p] = "reading" => <<r, p>> \in late

PullWaits ==
  \A q \in Pulls, d \in Directs :
    d \in reading[q] /\ <<q, d>> \notin late =>
      \/ stage[q] = "reading"
      \/ stage[q] \in {"finishing", "aborting"} /\ d \in pending[q]

Causes == FromRelay /\ ForeignIsLate /\ PullWaits

\* Steps that change nothing of readers but a stage of a prompt, or the
\* stage of a pull that keeps its invariant.
LEMMA PromptStage ==
  ASSUME TypeOK, Causes, NEW p \in Prompts, NEW s, s # "idle", s # "queued",
         stage' = [stage EXCEPT ![p] = s],
         s = "reading" => stage[p] = "queued",
         \A r \in Readers : wire'[r] \subseteq wire[r],
         accepted' = accepted, prompted' \in {prompted, prompted \cup {p}},
         reading' = reading, pending' = pending, late' = late
  PROVE  Causes'
<1>1. \A r \in Readers : stage'[r] = IF r = p THEN s ELSE stage[r]
  BY Parts
<1>2. FromRelay'
  <2>1. \A r \in Readers : wire'[r] \subseteq accepted' /\ reading'[r] \subseteq accepted'
    BY DEF Causes, FromRelay
  <2>2. \A x \in Prompts : x \in accepted' => x \in prompted'
    BY DEF Causes, FromRelay
  <2>3. \A x \in Prompts : x \in prompted' => stage'[x] \notin {"idle", "queued"}
    BY <1>1 DEF Causes, FromRelay, Readers
  <2>4. QED
    BY <2>1, <2>2, <2>3 DEF FromRelay
<1>3. ForeignIsLate'
  <2> SUFFICES ASSUME NEW r \in Prompts, NEW x \in Prompts, x \in reading'[r], x # r,
                      stage'[x] = "reading"
               PROVE  <<r, x>> \in late'
    BY DEF ForeignIsLate
  <2>1. CASE x = p
    <3>1. stage[p] = "queued"
      BY <1>1, <2>1 DEF Readers
    <3>2. p \in prompted
      BY <2>1 DEF Causes, FromRelay, Readers
    <3>3. QED
      BY <3>1, <3>2 DEF Causes, FromRelay
  <2>2. CASE x # p
    BY <1>1, <2>2 DEF Causes, ForeignIsLate, Readers
  <2>3. QED
    BY <2>1, <2>2
<1>4. PullWaits'
  <2>1. \A q \in Pulls : stage'[q] = stage[q]
    BY <1>1, ChatAssumption DEF Readers
  <2>2. QED
    BY <2>1 DEF Causes, PullWaits
<1>5. QED
  BY <1>2, <1>3, <1>4 DEF Causes

LEMMA PullStage ==
  ASSUME TypeOK, Causes, NEW q \in Pulls, NEW s,
         stage' = [stage EXCEPT ![q] = s],
         \/ s = "reading" /\ pending' = pending
         \/ s \in {"finishing", "aborting"} /\ pending' = [pending EXCEPT ![q] = reading[q]]
         \/ stage[q] # "reading" /\ pending[q] = {} /\ pending' = pending,
         \A r \in Readers : wire'[r] \subseteq wire[r],
         accepted' = accepted, prompted' = prompted, reading' = reading, late' = late
  PROVE  Causes'
<1>1. \A r \in Readers : stage'[r] = IF r = q THEN s ELSE stage[r]
  BY Parts
<1>2. \A p \in Prompts : stage'[p] = stage[p]
  BY <1>1, ChatAssumption DEF Readers
<1>3. FromRelay'
  <2>1. \A r \in Readers : wire'[r] \subseteq accepted' /\ reading'[r] \subseteq accepted'
    BY DEF Causes, FromRelay
  <2>2. QED
    BY <1>2, <2>1 DEF Causes, FromRelay
<1>4. ForeignIsLate'
  BY <1>2 DEF Causes, ForeignIsLate
<1>5. PullWaits'
  <2> SUFFICES ASSUME NEW x \in Pulls, NEW d \in Directs, d \in reading[x], <<x, d>> \notin late
               PROVE  \/ stage'[x] = "reading"
                      \/ stage'[x] \in {"finishing", "aborting"} /\ d \in pending'[x]
    BY DEF PullWaits
  <2>1. \/ stage[x] = "reading"
        \/ stage[x] \in {"finishing", "aborting"} /\ d \in pending[x]
    BY DEF Causes, PullWaits
  <2>2. CASE x = q
    <3>1. q \in Readers
      BY DEF Readers
    <3>2. CASE s = "reading"
      BY <1>1, <2>2, <3>1, <3>2
    <3>3. CASE s \in {"finishing", "aborting"} /\ pending' = [pending EXCEPT ![q] = reading[q]]
      BY <1>1, <2>2, <3>1, <3>3, Parts
    <3>4. CASE stage[q] # "reading" /\ pending[q] = {}
      BY <2>1, <2>2, <3>4
    <3>5. QED
      BY <3>2, <3>3, <3>4
  <2>3. CASE x # q
    <3>1. x \in Readers /\ stage'[x] = stage[x]
      BY <1>1, <2>3 DEF Readers
    <3>2. pending'[x] = pending[x]
      BY <2>3, <3>1, Parts
    <3>3. QED
      BY <2>1, <3>1, <3>2
  <2>4. QED
    BY <2>2, <2>3
<1>6. QED
  BY <1>3, <1>4, <1>5 DEF Causes

LEMMA WireCauses ==
  ASSUME TypeOK, Causes, accepted \subseteq accepted',
         \A p \in Prompts : p \in accepted' => p \in prompted,
         \A r \in Readers : wire'[r] \subseteq accepted',
         UNCHANGED <<stage, prompted, reading, pending, late>>
  PROVE  Causes'
<1>1. FromRelay'
  <2>1. \A r \in Readers : reading[r] \subseteq accepted'
    BY DEF Causes, FromRelay
  <2>2. QED
    BY <2>1 DEF Causes, FromRelay
<1>2. ForeignIsLate' /\ PullWaits'
  BY DEF Causes, ForeignIsLate, PullWaits
<1>3. QED
  BY <1>1, <1>2 DEF Causes

LEMMA WriteWire ==
  ASSUME TypeOK, Causes, NEW m \in Msgs, Write(m), conn # NoReader, m \in accepted',
         accepted \subseteq accepted'
  PROVE  \A r \in Readers : wire'[r] \subseteq accepted'
<1>1. \A r \in Readers : wire'[r] \subseteq wire[r] \cup {m}
  BY Parts DEF Write
<1>2. QED
  BY <1>1 DEF Causes, FromRelay

LEMMA DeliverCauses ==
  ASSUME TypeOK, Causes, NEW m \in Msgs, Deliver(m), m \in Prompts => m \in prompted
  PROVE  Causes'
<1>1. accepted' = accepted \cup {m} /\ UNCHANGED <<stage, prompted, reading, pending, late>>
  BY DEF Deliver, readVars
<1>2. \A r \in Readers : wire'[r] \subseteq accepted'
  <2>1. CASE conn # NoReader
    <3>1. Write(m)
      BY <2>1 DEF Deliver
    <3>2. QED
      BY <1>1, <2>1, <3>1, WriteWire
  <2>2. CASE conn = NoReader
    BY <1>1, <2>2 DEF Deliver, Causes, FromRelay
  <2>3. QED
    BY <2>1, <2>2
<1>3. \A p \in Prompts : p \in accepted' => p \in prompted
  BY <1>1 DEF Causes, FromRelay
<1>4. QED
  BY <1>1, <1>2, <1>3, WireCauses

LEMMA OfferCauses ==
  ASSUME TypeOK, Causes, NEW m \in Msgs, Offer(m)
  PROVE  Causes'
<1>1. accepted' = accepted /\ UNCHANGED <<stage, prompted, reading, pending, late>>
  BY DEF Offer, readVars
<1>2. \A r \in Readers : wire'[r] \subseteq accepted'
  BY <1>1, WriteWire DEF Offer
<1>3. QED
  BY <1>1, <1>2, WireCauses DEF Causes, FromRelay

LEMMA OnMessageCauses ==
  ASSUME TypeOK, Turns, Causes, NEW r \in Readers, NEW m \in Msgs, OnMessage(r, m)
  PROVE  Causes'
<1>1. \A x \in Readers : reading'[x] = IF x = r THEN reading[x] \cup {m} ELSE reading[x]
  BY Parts DEF OnMessage
<1>2. \A x \in Readers : wire'[x] \subseteq wire[x]
  BY Parts DEF OnMessage
<1>3. /\ m \in wire[r] /\ UNCHANGED <<accepted, prompted, stage, pending>>
      /\ late \subseteq late'
      /\ stage[r] # "reading" => <<r, m>> \in late'
  BY DEF OnMessage, relayVars
<1>4. FromRelay'
  <2>1. \A x \in Readers : wire'[x] \subseteq accepted' /\ reading'[x] \subseteq accepted'
    BY <1>1, <1>2, <1>3 DEF Causes, FromRelay
  <2>2. QED
    BY <1>3, <2>1 DEF Causes, FromRelay
<1>5. ForeignIsLate'
  <2> SUFFICES ASSUME NEW x \in Prompts, NEW p \in Prompts, p \in reading'[x], p # x,
                      stage[p] = "reading"
               PROVE  <<x, p>> \in late'
    BY <1>3 DEF ForeignIsLate
  <2>1. CASE p \in reading[x]
    BY <1>3, <2>1 DEF Causes, ForeignIsLate
  <2>2. CASE x = r /\ p = m
    <3>1. stage[x] # "reading"
      BY DEF Turns
    <3>2. QED
      BY <1>3, <2>2, <3>1
  <2>3. QED
    BY <1>1, <2>1, <2>2 DEF Readers
<1>6. PullWaits'
  <2> SUFFICES ASSUME NEW q \in Pulls, NEW d \in Directs, d \in reading'[q], <<q, d>> \notin late'
               PROVE  \/ stage[q] = "reading"
                      \/ stage[q] \in {"finishing", "aborting"} /\ d \in pending[q]
    BY <1>3 DEF PullWaits
  <2>1. CASE d \in reading[q]
    BY <1>3, <2>1 DEF Causes, PullWaits
  <2>2. CASE q = r /\ d = m
    BY <1>3, <2>2
  <2>3. QED
    BY <1>1, <2>1, <2>2 DEF Readers
<1>7. QED
  BY <1>4, <1>5, <1>6 DEF Causes

LEMMA DecryptedCauses ==
  ASSUME TypeOK, Turns, Causes, NEW r \in Readers, NEW m \in Msgs, Decrypted(r, m)
  PROVE  Causes'
<1>1. /\ \A x \in Readers : reading'[x] = IF x = r THEN reading[x] \ {m} ELSE reading[x]
      /\ \A x \in Readers : pending'[x] = IF x = r THEN pending[x] \ {m} ELSE pending[x]
      /\ late' = late \ {<<r, m>>}
      /\ UNCHANGED <<accepted, wire, prompted>>
  BY Parts DEF Decrypted, relayVars
<1>2. \/ stage' = stage
      \/ r \in Prompts /\ stage[r] = "reading" /\ stage' = [stage EXCEPT ![r] = "answered"]
  BY DecryptedSettles DEF SettlePrompt
<1>3. /\ \A x \in Readers : stage'[x] = stage[x]
                            \/ (x \in Prompts /\ stage[x] = "reading" /\ stage'[x] = "answered")
      /\ \A x \in Readers : stage'[x] = "reading" => stage[x] = "reading"
  BY <1>2, Parts
<1>4. FromRelay'
  <2>1. \A x \in Readers : wire'[x] \subseteq accepted' /\ reading'[x] \subseteq accepted'
    BY <1>1 DEF Causes, FromRelay
  <2>2. \A x \in Prompts : x \in prompted' => stage'[x] \notin {"idle", "queued"}
    BY <1>1, <1>3 DEF Causes, FromRelay, Readers
  <2>3. QED
    BY <1>1, <2>1, <2>2 DEF Causes, FromRelay
<1>5. ForeignIsLate'
  <2> SUFFICES ASSUME NEW x \in Prompts, NEW p \in Prompts, p \in reading'[x], p # x,
                      stage'[p] = "reading"
               PROVE  <<x, p>> \in late'
    BY DEF ForeignIsLate
  <2>1. p \in reading[x] /\ ~(x = r /\ p = m)
    BY <1>1 DEF Readers
  <2>2. stage[p] = "reading"
    BY <1>3 DEF Readers
  <2>3. <<x, p>> \in late
    BY <2>1, <2>2 DEF Causes, ForeignIsLate
  <2>4. <<x, p>> # <<r, m>>
    BY <2>1
  <2>5. QED
    BY <1>1, <2>3, <2>4
<1>6. PullWaits'
  <2> SUFFICES ASSUME NEW q \in Pulls, NEW d \in Directs, d \in reading'[q], <<q, d>> \notin late'
               PROVE  \/ stage'[q] = "reading"
                      \/ stage'[q] \in {"finishing", "aborting"} /\ d \in pending'[q]
    BY DEF PullWaits
  <2>1. q \in Readers /\ q \notin Prompts
    BY ChatAssumption DEF Readers
  <2>2. d \in reading[q] /\ ~(q = r /\ d = m)
    BY <1>1, <2>1
  <2>3. <<q, d>> # <<r, m>>
    BY <2>2
  <2>4. <<q, d>> \notin late
    BY <1>1, <2>3
  <2>5. \/ stage[q] = "reading"
        \/ stage[q] \in {"finishing", "aborting"} /\ d \in pending[q]
    BY <2>2, <2>4 DEF Causes, PullWaits
  <2>6. stage'[q] = stage[q]
    BY <1>3, <2>1
  <2>7. d \in pending[q] => d \in pending'[q]
    BY <1>1, <2>1, <2>2
  <2>8. QED
    BY <2>5, <2>6, <2>7
<1>7. QED
  BY <1>4, <1>5, <1>6 DEF Causes

LEMMA NextCauses == TypeOK /\ Turns /\ Causes /\ [Next]_vars => Causes'
<1> SUFFICES ASSUME TypeOK, Turns, Causes, [Next]_vars PROVE Causes'
  OBVIOUS
<1>1. CASE UNCHANGED <<stage, accepted, wire, prompted, reading, pending, late>>
  BY <1>1 DEF Causes, FromRelay, ForeignIsLate, PullWaits
<1>2. ASSUME NEW p \in Prompts, Submit(p) PROVE Causes'
  <2>1. /\ stage[p] = "idle" /\ stage' = [stage EXCEPT ![p] = "queued"]
        /\ UNCHANGED <<accepted, wire, prompted, reading, pending, late>>
    BY <1>2 DEF Submit, relayVars, socketVars, readVars
  <2>2. \A r \in Readers : stage'[r] = IF r = p THEN "queued" ELSE stage[r]
    BY <2>1, Parts
  <2>3. FromRelay'
    BY <2>1, <2>2 DEF Causes, FromRelay, Readers
  <2>4. ForeignIsLate'
    BY <2>1, <2>2 DEF Causes, ForeignIsLate, Readers
  <2>5. PullWaits'
    BY <2>1, <2>2, ChatAssumption DEF Causes, PullWaits, Readers
  <2>6. QED
    BY <2>3, <2>4, <2>5 DEF Causes
<1>3. ASSUME NEW p \in Prompts, Post(p) PROVE Causes'
  <2>1. /\ stage[p] = "queued" /\ stage' = [stage EXCEPT ![p] = "reading"]
        /\ prompted' = prompted \cup {p}
        /\ UNCHANGED <<accepted, wire, reading, pending, late>>
    BY <1>3 DEF Post, MayRun, relayVars, readVars
  <2>2. FromRelay'
    <3>1. \A x \in Readers : stage'[x] = IF x = p THEN "reading" ELSE stage[x]
      BY <2>1, Parts
    <3>2. QED
      BY <2>1, <3>1 DEF Causes, FromRelay, Readers
  <2>3. QED
    BY <2>1, <2>2, PromptStage
<1>4. ASSUME NEW p \in Prompts, TaskFails(p) PROVE Causes'
  <2>1. /\ stage' = [stage EXCEPT ![p] = "failed"]
        /\ prompted' \in {prompted, prompted \cup {p}}
        /\ UNCHANGED <<accepted, wire, reading, pending, late>>
    BY <1>4 DEF TaskFails, relayVars, socketVars, readVars
  <2>2. QED
    BY <2>1, PromptStage
<1>5. ASSUME NEW p \in Prompts, AgentReplies(p) PROVE Causes'
  BY <1>5, DeliverCauses DEF AgentReplies, Msgs
<1>6. ASSUME NEW d \in Directs, PeerSends(d) PROVE Causes'
  <2>1. d \notin Prompts
    BY ChatAssumption
  <2>2. QED
    BY <1>6, <2>1, DeliverCauses DEF PeerSends, Msgs
<1>7. ASSUME NEW q \in Pulls, StartPull(q) PROVE Causes'
  <2>1. /\ stage' = [stage EXCEPT ![q] = "reading"]
        /\ UNCHANGED <<accepted, wire, prompted, reading, pending, late>>
    BY <1>7 DEF StartPull, relayVars, readVars
  <2>2. QED
    BY <2>1, PullStage
<1>8. ASSUME NEW q \in Pulls, PullReturns(q) PROVE Causes'
  <2>1. /\ stage[q] # "reading" /\ pending[q] = {}
        /\ \E s \in {"answered", "failed"} : stage' = [stage EXCEPT ![q] = s]
        /\ UNCHANGED <<accepted, wire, prompted, reading, pending, late>>
    BY <1>8 DEF PullReturns, relayVars, readVars
  <2>2. QED
    BY <2>1, PullStage
<1>9. ASSUME NEW m \in Msgs, Offer(m) PROVE Causes'
  BY <1>9, OfferCauses
<1>10. ASSUME NEW r \in Readers, Upgrade(r) PROVE Causes'
  BY <1>1, <1>10 DEF Upgrade, readVars
<1>11. ASSUME NEW p \in Prompts, SettlePrompt(p, "failed"), accepted' = accepted,
              \A r \in Readers : wire'[r] \subseteq wire[r],
              UNCHANGED <<prompted, reading, pending, late>>
       PROVE  Causes'
  <2>1. stage' = [stage EXCEPT ![p] = "failed"]
    BY <1>11 DEF SettlePrompt
  <2>2. QED
    BY <1>11, <2>1, PromptStage
<1>12. ASSUME NEW q \in Pulls, NEW next \in {"finishing", "aborting"}, SettlePull(q, next),
              accepted' = accepted, \A r \in Readers : wire'[r] \subseteq wire[r],
              UNCHANGED <<prompted, reading, late>>
       PROVE  Causes'
  <2>1. stage' = [stage EXCEPT ![q] = next] /\ pending' = [pending EXCEPT ![q] = reading[q]]
    BY <1>12 DEF SettlePull, Awaited
  <2>2. QED
    BY <1>12, <2>1, PullStage
<1>13. ASSUME NEW r \in Readers, Timeout(r) PROVE Causes'
  <2>1. UNCHANGED <<accepted, wire, prompted, reading, late>>
    BY <1>13 DEF Timeout, relayVars
  <2>2. QED
    BY <1>11, <1>12, <1>13, <2>1 DEF Timeout
<1>14. ASSUME NEW r \in Readers, Closed(r) PROVE Causes'
  <2>1. /\ UNCHANGED <<accepted, prompted, reading, late>>
        /\ \A x \in Readers : wire'[x] \subseteq wire[x]
    BY <1>14, Parts DEF Closed
  <2>2. CASE UNCHANGED <<stage, queue, pending>>
    <3>1. \A x \in Readers : wire'[x] \subseteq accepted'
      BY <2>1 DEF Causes, FromRelay
    <3>2. QED
      BY <2>1, <2>2, <3>1, WireCauses DEF Causes, FromRelay
  <2>3. QED
    BY <1>11, <1>12, <1>14, <2>1, <2>2 DEF Closed
<1>15. ASSUME NEW r \in Readers, NEW m \in Msgs, OnMessage(r, m) PROVE Causes'
  BY <1>15, OnMessageCauses
<1>16. ASSUME NEW r \in Readers, NEW m \in Msgs, Decrypted(r, m) PROVE Causes'
  BY <1>16, DecryptedCauses
<1>17. QED
  BY <1>1, <1>2, <1>3, <1>4, <1>5, <1>6, <1>7, <1>8, <1>9, <1>10, <1>13, <1>14, <1>15, <1>16
     DEF Next, vars

\* The three invariants together.
LEMMA CausesHold == Spec => [](TypeOK /\ Turns /\ Causes)
<1>1. Init => Causes
  BY DEF Init, Causes, FromRelay, ForeignIsLate, PullWaits, Readers
<1>2. QED
  BY <1>1, InitTurns, NextTurns, NextCauses, PTL DEF Spec

\* A prompt that waits loses its reply only to a pull, or to a reader that
\* got it after its own wait was over.
THEOREM LossesHaveCauses == Spec => LostReplyHasCause
<1>1. ASSUME Causes, NEW p \in Prompts, NEW r \in Readers,
             Opens(r, p), r # p, stage[p] = "reading"
      PROVE  r \in Pulls \/ <<r, p>> \in late
  BY <1>1 DEF Opens, Readers, Causes, ForeignIsLate
<1>2. Causes => [\A p \in Prompts, r \in Readers :
                   Opens(r, p) /\ r # p /\ stage[p] = "reading"
                     => r \in Pulls \/ <<r, p>> \in late]_vars
  BY <1>1
<1>3. QED
  BY <1>2, CausesHold, PTL DEF LostReplyHasCause

LEMMA OnlyDecryptedOpens ==
  ASSUME TypeOK, [Next]_vars, NEW r \in Readers, NEW m \in Msgs, Opens(r, m)
  PROVE  Decrypted(r, m)
<1>1. opened' # opened /\ m \in opened' \ opened /\ m \in reading[r] \ reading'[r]
  BY DEF Opens
<1>2. \E x \in Readers, y \in Msgs : Decrypted(x, y)
  BY <1>1 DEF Next, vars, Submit, Post, TaskFails, AgentReplies, PeerSends, Deliver, StartPull,
              PullReturns, Offer, Upgrade, Timeout, Closed, OnMessage, readVars
<1>3. PICK x \in Readers, y \in Msgs : Decrypted(x, y)
  BY <1>2
<1>4. y = m
  BY <1>1, <1>3 DEF Decrypted
<1>5. x = r
  BY <1>1, <1>3, Parts DEF Decrypted
<1>6. QED
  BY <1>3, <1>4, <1>5

\* What a pull opens in time is in its result, which is still to be made.
THEOREM PullsKeep == Spec => PullKeepsWhatItOpens
<1>1. ASSUME TypeOK, Causes, [Next]_vars, NEW q \in Pulls, NEW d \in Directs,
             Opens(q, d), <<q, d>> \notin late
      PROVE  d \in received'[q] /\ stage[q] \in {"reading", "finishing", "aborting"}
  <2>1. q \in Readers /\ q \notin Prompts /\ d \in Msgs
    BY ChatAssumption DEF Readers, Msgs
  <2>2. Decrypted(q, d) /\ d \notin opened /\ d \in reading[q]
    BY <1>1, <2>1, OnlyDecryptedOpens DEF Opens
  <2>3. stage[q] \in {"reading", "finishing", "aborting"}
    BY <1>1, <2>2 DEF Causes, PullWaits
  <2>4. Wanted(q, d)
    BY <2>1, <2>3 DEF Wanted
  <2>5. received' = [received EXCEPT ![q] = @ \cup {d}]
    BY <2>1, <2>2, <2>4, DecryptedSettles
  <2>6. QED
    BY <1>1, <2>1, <2>3, <2>5, Parts
<1>2. TypeOK /\ Causes /\ [Next]_vars =>
        [\A q \in Pulls, d \in Directs : Opens(q, d) /\ <<q, d>> \notin late =>
           d \in received'[q] /\ stage[q] \in {"reading", "finishing", "aborting"}]_vars
  BY <1>1
<1>3. QED
  BY <1>2, CausesHold, PTL DEF Spec, PullKeepsWhatItOpens
=============================================================================
