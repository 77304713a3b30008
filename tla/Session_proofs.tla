-------------------------- MODULE Session_proofs --------------------------
(***************************************************************************)
(* Session: type correctness, KeysAreUsedOnce, ReadAtMostOnce and          *)
(* UnreadStaysReadable, for any number of concurrent operations, messages  *)
(* and ratchet keys.                                                       *)
(***************************************************************************)
EXTENDS Session, SequenceTheorems, TLAPS

-----------------------------------------------------------------------------
(***************************************************************************)
(* Types.                                                                  *)
(***************************************************************************)
LEMMA OnChainType == \A c \in Nat : OnChain(c) \in Record
  BY DEF OnChain, Record

LEMMA OpenedType ==
  ASSUME TypeOK, NEW r \in Record, NEW m \in Message
  PROVE  Opened(r, m) \in Record
<1>1. r.used \cup {Key(m)} \in SUBSET (Nat \X Nat)
  BY DEF Record, Message, Key
<1>2. Len(against) + 1 \in Nat
  BY LenProperties DEF TypeOK
<1>3. QED
  BY <1>1, <1>2 DEF Opened, Record, Message

\* A slot in use is an operation with a record.
LEMMA OpTypes ==
  ASSUME TypeOK, NEW u \in Users, NEW o \in Ops
  PROVE  /\ op[u][o] \in Op
         /\ op[u][o].kind \in {"idle", "encrypt", "decrypt"}
         /\ op[u][o] = Idle <=> op[u][o].kind = "idle"
         /\ op[u][o] # Idle => op[u][o].record \in Record /\ op[u][o].msg \in Nat
<1>1. op[u][o] \in Op
  BY DEF TypeOK
<1>2. QED
  BY <1>1 DEF Op, Idle

LEMMA BeginEffect ==
  ASSUME TypeOK, NEW u \in Users, NEW o \in Ops, NEW x \in Op, Begin(u, o, x)
  PROVE  /\ op[u][o] = Idle
         /\ op' \in [Users -> [Ops -> Op]]
         /\ overlapped' \in [Users -> SUBSET {"encrypt", "decrypt"}]
         /\ \A v \in Users, p \in Ops :
              op'[v][p] = IF v = u /\ p = o THEN x ELSE op[v][p]
         /\ \A v \in Users : overlapped[v] \subseteq overlapped'[v]
         /\ overlapped'[u] = {} => \A p \in Ops : op[u][p] = Idle
         /\ "encrypt" \notin overlapped'[u] =>
              \A p \in Ops \ {o} :
                /\ op[u][p].kind # "encrypt"
                /\ x.kind = "encrypt" => op[u][p] = Idle
<1> DEFINE others == {op[u][p].kind : p \in Ops \ {o}} \ {"idle"}
           added  == CASE others = {} -> {}
                       [] "encrypt" \in others \cup {x.kind} -> {"encrypt"}
                       [] OTHER -> {"decrypt"}
<1>1. /\ op[u][o] = Idle
      /\ op' = [op EXCEPT ![u][o] = x]
      /\ overlapped' = [overlapped EXCEPT ![u] = @ \cup added]
  BY DEF Begin
<1>2. added \in SUBSET {"encrypt", "decrypt"}
  OBVIOUS
<1>3. others # {} => added # {}
  OBVIOUS
<1>4. ASSUME others # {}, "encrypt" \in others \cup {x.kind} PROVE "encrypt" \in added
  BY <1>4
<1> HIDE DEF added
<1>5. overlapped'[u] = overlapped[u] \cup added
  BY <1>1 DEF TypeOK
<1>6. others = {} => \A p \in Ops : op[u][p] = Idle
  BY <1>1, OpTypes
<1>7. ASSUME "encrypt" \notin overlapped'[u], NEW p \in Ops \ {o}
      PROVE  /\ op[u][p].kind # "encrypt"
             /\ x.kind = "encrypt" => op[u][p] = Idle
  <2>1. others # {} => "encrypt" \notin others \cup {x.kind}
    BY <1>4, <1>5, <1>7
  <2>2. op[u][p].kind = "idle" \/ op[u][p].kind \in others
    OBVIOUS
  <2>3. QED
    BY <2>1, <2>2, OpTypes
<1>8. QED
  BY <1>1, <1>2, <1>3, <1>5, <1>6, <1>7 DEF TypeOK

LEMMA EndEffect ==
  ASSUME TypeOK, NEW u \in Users, NEW o \in Ops, End(u, o)
  PROVE  /\ op' \in [Users -> [Ops -> Op]]
         /\ overlapped' = overlapped
         /\ \A v \in Users, p \in Ops :
              op'[v][p] = IF v = u /\ p = o THEN Idle ELSE op[v][p]
  BY DEF End, TypeOK, Op

LEMMA BeginTypes ==
  ASSUME TypeOK, NEW u \in Users, NEW i \in DOMAIN posted
  PROVE  /\ GetSession(u) # NoSession =>
              [kind |-> "encrypt", record |-> GetSession(u), msg |-> 0] \in Op
         /\ [kind   |-> "decrypt",
             record |-> IF GetSession(u) = NoSession THEN OnChain(SignedPreKey)
                                                     ELSE GetSession(u),
             msg    |-> i] \in Op
  BY OnChainType DEF TypeOK, GetSession, Op, SignedPreKey

LEMMA TypeStep ==
  ASSUME TypeOK, Numbering, [Next]_vars
  PROVE  TypeOK'
<1>1. ASSUME NEW u \in Users, NEW o \in Ops, BeginEncrypt(u, o) PROVE TypeOK'
  <2>1. [kind |-> "encrypt", record |-> GetSession(u), msg |-> 0] \in Op
    BY <1>1 DEF BeginEncrypt, TypeOK, GetSession, Op
  <2>2. QED
    BY <1>1, <2>1, BeginEffect DEF BeginEncrypt, TypeOK
<1>2. ASSUME NEW u \in Users, NEW o \in Ops, NEW i \in DOMAIN posted, BeginDecrypt(u, o, i)
      PROVE TypeOK'
  BY <1>2, BeginTypes, BeginEffect DEF BeginDecrypt, TypeOK
<1>3. ASSUME NEW u \in Users, NEW o \in Ops, EndEncrypt(u, o) PROVE TypeOK'
  <2> DEFINE r == op[u][o].record
             m == [from |-> u, chain |-> r.send, n |-> r.next]
  <2>1. r \in Record
    BY <1>3, OpTypes DEF EndEncrypt
  <2>2. m \in Message /\ [r EXCEPT !.next = @ + 1] \in Record
    BY <2>1 DEF Message, Record
  <2>3. posted' \in Seq(Message) /\ Len(posted') = Len(posted) + 1
    BY <1>3, <2>2, AppendProperties DEF EndEncrypt, TypeOK
  <2>4. reads' \in Seq(Nat) /\ Len(reads') = Len(posted')
    BY <1>3, <2>3, AppendProperties DEF EndEncrypt, TypeOK
  <2>5. op' \in [Users -> [Ops -> Op]] /\ UNCHANGED overlapped
    BY <1>3, EndEffect DEF EndEncrypt
  <2>6. QED
    BY <1>3, <2>2, <2>3, <2>4, <2>5 DEF EndEncrypt, SaveSession, TypeOK
<1>4. ASSUME NEW u \in Users, NEW o \in Ops, EndDecrypt(u, o) PROVE TypeOK'
  <2> DEFINE r == op[u][o].record
             i == op[u][o].msg
             m == posted[i]
  <2>1. r \in Record /\ i \in DOMAIN posted
    BY <1>4, OpTypes DEF Numbering, EndDecrypt
  <2>2. m \in Message
    BY <2>1 DEF TypeOK
  <2>3. Opened(r, m) \in Record
    BY <2>1, <2>2, OpenedType
  <2>4. against' \in Seq(Nat)
    <3>1. m.chain \in Nat
      BY <2>2 DEF Message
    <3>2. against' = against \/ against' = Append(against, m.chain)
      BY <1>4 DEF EndDecrypt
    <3>3. against \in Seq(Nat)
      BY DEF TypeOK
    <3>4. Append(against, m.chain) \in Seq(Nat)
      BY <3>1, <3>3, AppendProperties
    <3>5. QED
      BY <3>2, <3>3, <3>4
  <2>5. reads' \in Seq(Nat) /\ Len(reads') = Len(posted)
    <3>1. i \in DOMAIN reads /\ reads[i] \in Nat
      BY <2>1 DEF TypeOK
    <3>2. QED
      BY <1>4, <3>1, ExceptSeq DEF EndDecrypt, TypeOK
  <2>6. op' \in [Users -> [Ops -> Op]] /\ UNCHANGED overlapped
    BY <1>4, EndEffect DEF EndDecrypt
  <2>7. QED
    BY <1>4, <2>3, <2>4, <2>5, <2>6 DEF EndDecrypt, SaveSession, TypeOK
<1>5. ASSUME NEW u \in Users, NEW o \in Ops, Abandon(u, o) PROVE TypeOK'
  BY <1>5, EndEffect DEF Abandon, TypeOK
<1>6. CASE UNCHANGED vars
  BY <1>6 DEF vars, TypeOK
<1>7. QED
  BY <1>1, <1>2, <1>3, <1>4, <1>5, <1>6 DEF Next

-----------------------------------------------------------------------------
(***************************************************************************)
(* What the two saving steps do to the sequences.                          *)
(***************************************************************************)
LEMMA EndEncryptEffect ==
  ASSUME TypeOK, Numbering, NEW u \in Users, NEW o \in Ops, EndEncrypt(u, o)
  PROVE  LET r == op[u][o].record IN
         /\ r \in Record
         /\ \A v \in Users :
              session'[v] = IF v = u THEN [r EXCEPT !.next = @ + 1] ELSE session[v]
         /\ \A i \in DOMAIN posted' : i \in DOMAIN posted \/ i = Len(posted) + 1
         /\ Len(posted) + 1 \in DOMAIN posted' \ DOMAIN posted
         /\ \A i \in DOMAIN posted :
              i \in DOMAIN posted' /\ posted'[i] = posted[i] /\ reads'[i] = reads[i]
         /\ posted'[Len(posted) + 1] = [from |-> u, chain |-> r.send, n |-> r.next]
         /\ reads'[Len(posted) + 1] = 0
<1> DEFINE r == op[u][o].record
           m == [from |-> u, chain |-> r.send, n |-> r.next]
<1>1. r \in Record
  BY OpTypes DEF EndEncrypt
<1>2. m \in Message
  BY <1>1 DEF Message, Record
<1>3. posted' = Append(posted, m) /\ reads' = Append(reads, 0)
  BY DEF EndEncrypt
<1>4. posted \in Seq(Message) /\ reads \in Seq(Nat) /\ Len(reads) = Len(posted)
  BY DEF TypeOK
<1> HIDE DEF m
<1>5. /\ Len(posted') = Len(posted) + 1 /\ posted'[Len(posted) + 1] = m
      /\ \A i \in 1..Len(posted) : posted'[i] = posted[i]
  BY <1>2, <1>3, <1>4, AppendProperties
<1>6. /\ reads'[Len(reads) + 1] = 0
      /\ \A i \in 1..Len(reads) : reads'[i] = reads[i]
  BY <1>3, <1>4, AppendProperties
<1>7. /\ DOMAIN posted' = 1..(Len(posted) + 1) /\ DOMAIN posted = 1..Len(posted)
  BY <1>2, <1>3, <1>4, AppendProperties
<1>8. Len(posted) \in Nat
  BY <1>4, LenProperties
<1>9. /\ \A i \in DOMAIN posted' : i \in DOMAIN posted \/ i = Len(posted) + 1
      /\ Len(posted) + 1 \in DOMAIN posted' \ DOMAIN posted
      /\ \A i \in DOMAIN posted :
           i \in DOMAIN posted' /\ posted'[i] = posted[i] /\ reads'[i] = reads[i]
  BY <1>4, <1>5, <1>6, <1>7, <1>8
<1>10. \A v \in Users :
         session'[v] = IF v = u THEN [r EXCEPT !.next = @ + 1] ELSE session[v]
  BY DEF EndEncrypt, SaveSession, TypeOK
<1>11. QED
  BY <1>1, <1>4, <1>5, <1>6, <1>9, <1>10 DEF m

LEMMA EndDecryptEffect ==
  ASSUME TypeOK, Numbering, NEW u \in Users, NEW o \in Ops, EndDecrypt(u, o)
  PROVE  LET r == op[u][o].record
             i == op[u][o].msg
             m == posted[i] IN
         /\ r \in Record /\ i \in DOMAIN posted /\ m \in Message /\ m.from # u
         /\ \A v \in Users : session'[v] = IF v = u THEN Opened(r, m) ELSE session[v]
         /\ IF m.chain \in r.known
              THEN against' = against
              ELSE Len(against') = Len(against) + 1
         /\ \A j \in DOMAIN posted :
              reads'[j] = IF j = i THEN reads[j] + 1 ELSE reads[j]
<1> DEFINE r == op[u][o].record
           i == op[u][o].msg
           m == posted[i]
<1>1. r \in Record /\ i \in DOMAIN posted /\ m.from # u
  <2>1. op[u][o].kind = "decrypt"
    BY DEF EndDecrypt
  <2>2. op[u][o] # Idle /\ r \in Record
    BY <2>1, OpTypes
  <2>3. QED
    BY <2>1, <2>2 DEF Numbering
<1>2. m \in Message
  BY <1>1 DEF TypeOK
<1>3. m.chain \notin r.known => Len(against') = Len(against) + 1
  <2>1. m.chain \in Nat
    BY <1>2 DEF Message
  <2>2. m.chain \notin r.known => against' = Append(against, m.chain)
    BY DEF EndDecrypt
  <2>3. QED
    BY <2>1, <2>2, AppendProperties DEF TypeOK
<1>4. \A j \in DOMAIN posted : reads'[j] = IF j = i THEN reads[j] + 1 ELSE reads[j]
  BY <1>1 DEF EndDecrypt, TypeOK
<1>5. QED
  BY <1>1, <1>2, <1>3, <1>4 DEF EndDecrypt, SaveSession, TypeOK

-----------------------------------------------------------------------------
(***************************************************************************)
(* Numbering.                                                              *)
(***************************************************************************)
LEMMA NumberingStep ==
  ASSUME TypeOK, Numbering, [Next]_vars
  PROVE  Numbering'
<1>0. FirstChain = 2 /\ SignedPreKey = 1 /\ Len(against) \in Nat
  BY LenProperties DEF FirstChain, SignedPreKey, TypeOK
<1>1. ASSUME NEW u \in Users, NEW o \in Ops, BeginEncrypt(u, o) PROVE Numbering'
  <2> DEFINE x == [kind |-> "encrypt", record |-> GetSession(u), msg |-> 0]
  <2>1. x \in Op /\ Begin(u, o, x) /\ session[u] # NoSession
    BY <1>1 DEF BeginEncrypt, TypeOK, GetSession, Op
  <2>2. x.record.send \in FirstChain..Len(against) /\ x.kind # "decrypt"
    BY <2>1 DEF Numbering, GetSession
  <2> HIDE DEF x
  <2>3. \A v \in Users, p \in Ops :
          op'[v][p] = IF v = u /\ p = o THEN x ELSE op[v][p]
    BY <2>1, BeginEffect
  <2>4. UNCHANGED <<session, against, posted>>
    BY <1>1 DEF BeginEncrypt
  <2>5. QED
    BY <2>2, <2>3, <2>4 DEF Numbering
<1>2. ASSUME NEW u \in Users, NEW o \in Ops, NEW i \in DOMAIN posted, BeginDecrypt(u, o, i)
      PROVE Numbering'
  <2> DEFINE r == IF GetSession(u) = NoSession THEN OnChain(SignedPreKey) ELSE GetSession(u)
             x == [kind |-> "decrypt", record |-> r, msg |-> i]
  <2>1. x \in Op /\ Begin(u, o, x) /\ posted[i].from # u
    BY <1>2, BeginTypes DEF BeginDecrypt
  <2>2. \/ r.send \in FirstChain..Len(against)
        \/ r = OnChain(SignedPreKey)
    BY DEF Numbering, GetSession
  <2>3. /\ x.record = r /\ x.kind = "decrypt" /\ x.msg = i
        /\ i \in DOMAIN posted
    OBVIOUS
  <2> HIDE DEF x, r
  <2>4. \A v \in Users, p \in Ops :
          op'[v][p] = IF v = u /\ p = o THEN x ELSE op[v][p]
    BY <2>1, BeginEffect
  <2>5. UNCHANGED <<session, against, posted>>
    BY <1>2 DEF BeginDecrypt
  <2> DEFINE Based(y) ==
        /\ \/ y.record.send \in FirstChain..Len(against)
           \/ y.kind = "decrypt" /\ y.record = OnChain(SignedPreKey)
        /\ y.kind = "decrypt" => y.msg \in DOMAIN posted /\ posted[y.msg].from # u
  <2>6. Based(x)
    BY <2>1, <2>2, <2>3
  <2> HIDE DEF Based
  <2>7. \A v \in Users, p \in Ops : op'[v][p] = op[v][p] \/ (v = u /\ Based(op'[v][p]))
    BY <2>4, <2>6
  <2>8. ASSUME NEW v \in Users, NEW p \in Ops, op'[v][p] # Idle
        PROVE  /\ \/ op'[v][p].record.send \in FirstChain..Len(against)
                  \/ op'[v][p].kind = "decrypt" /\ op'[v][p].record = OnChain(SignedPreKey)
               /\ op'[v][p].kind = "decrypt" =>
                    op'[v][p].msg \in DOMAIN posted /\ posted[op'[v][p].msg].from # v
    <3>1. CASE op'[v][p] = op[v][p]
      BY <2>8, <3>1 DEF Numbering
    <3>2. CASE v = u /\ Based(op'[v][p])
      BY <3>2 DEF Based
    <3>3. QED
      BY <2>7, <3>1, <3>2
  <2>9. /\ Len(against') >= FirstChain
        /\ \A j \in DOMAIN posted' : posted'[j].chain \in FirstChain..Len(against')
        /\ \A v \in Users : session'[v] # NoSession =>
             session'[v].send \in FirstChain..Len(against')
    BY <2>5 DEF Numbering
  <2>10. ASSUME NEW v \in Users, NEW p \in Ops, op'[v][p] # Idle
         PROVE  /\ \/ op'[v][p].record.send \in FirstChain..Len(against')
                   \/ op'[v][p].kind = "decrypt" /\ op'[v][p].record = OnChain(SignedPreKey)
                /\ op'[v][p].kind = "decrypt" =>
                     op'[v][p].msg \in DOMAIN posted' /\ posted'[op'[v][p].msg].from # v
    BY <2>5, <2>8, <2>10
  <2>11. QED
    BY <2>9, <2>10 DEF Numbering
<1>3. ASSUME NEW u \in Users, NEW o \in Ops, EndEncrypt(u, o) PROVE Numbering'
  <2> DEFINE r == op[u][o].record
  <2>1. /\ r \in Record /\ r.send \in FirstChain..Len(against)
        /\ [r EXCEPT !.next = @ + 1].send = r.send
    <3>1. op[u][o].kind = "encrypt"
      BY <1>3 DEF EndEncrypt
    <3>2. op[u][o] # Idle /\ op[u][o].record \in Record
      BY <3>1, OpTypes
    <3>3. r.send \in FirstChain..Len(against)
      BY <3>1, <3>2 DEF Numbering
    <3>4. [r EXCEPT !.next = @ + 1].send = r.send
      BY <3>2 DEF Record
    <3>5. QED
      BY <3>2, <3>3, <3>4
  <2>2. \A i \in DOMAIN posted' : posted'[i].chain \in FirstChain..Len(against')
    <3>1. UNCHANGED against
      BY <1>3 DEF EndEncrypt
    <3>2. \A i \in DOMAIN posted' : i \in DOMAIN posted \/ i = Len(posted) + 1
      BY <1>3, EndEncryptEffect
    <3>3. posted'[Len(posted) + 1].chain = r.send
      <4>1. posted'[Len(posted) + 1] = [from |-> u, chain |-> r.send, n |-> r.next]
        BY <1>3, EndEncryptEffect
      <4>2. QED
        BY <4>1
    <3>4. \A i \in DOMAIN posted : posted'[i] = posted[i]
      BY <1>3, EndEncryptEffect
    <3>5. QED
      BY <2>1, <3>1, <3>2, <3>3, <3>4 DEF Numbering
  <2>3. \A v \in Users : session'[v] # NoSession =>
          session'[v].send \in FirstChain..Len(against')
    <3>1. UNCHANGED against
      BY <1>3 DEF EndEncrypt
    <3>2. \A v \in Users : v # u => session'[v] = session[v]
      BY <1>3, EndEncryptEffect
    <3>3. session'[u].send = r.send
      BY <1>3, <2>1, EndEncryptEffect
    <3>4. QED
      BY <2>1, <3>1, <3>2, <3>3 DEF Numbering
  <2>4. \A v \in Users, p \in Ops : op'[v][p] = op[v][p] \/ op'[v][p] = Idle
    BY <1>3, EndEffect DEF EndEncrypt
  <2>5. \A i \in DOMAIN posted : i \in DOMAIN posted' /\ posted'[i] = posted[i]
    BY <1>3, EndEncryptEffect
  <2>6. UNCHANGED against
    BY <1>3 DEF EndEncrypt
  <2>7. QED
    BY <2>2, <2>3, <2>4, <2>5, <2>6, SMTT(30) DEF Numbering
<1>4. ASSUME NEW u \in Users, NEW o \in Ops, EndDecrypt(u, o) PROVE Numbering'
  <2> DEFINE r == op[u][o].record
             m == posted[op[u][o].msg]
  <2>1. Len(against') \in Nat /\ Len(against') >= Len(against)
    BY <1>4, <1>0, EndDecryptEffect
  <2>2. Opened(r, m).send \in FirstChain..Len(against')
    <3>1. CASE m.chain \in r.known
      <4>1. r # OnChain(SignedPreKey)
        BY <3>1 DEF OnChain
      <4>2. r.send \in FirstChain..Len(against)
        <5>1. op[u][o].kind = "decrypt" /\ op[u][o] # Idle
          BY <1>4 DEF EndDecrypt, Idle
        <5>2. QED
          BY <4>1, <5>1 DEF Numbering
      <4>3. Opened(r, m).send = r.send
        <5>1. r \in Record
          BY <1>4, EndDecryptEffect
        <5>2. QED
          BY <3>1, <5>1 DEF Opened, Record
      <4>4. QED
        BY <2>1, <4>2, <4>3, <1>0
    <3>2. CASE m.chain \notin r.known
      <4>1. Opened(r, m).send = Len(against) + 1
        BY <3>2 DEF Opened
      <4>2. Len(against') = Len(against) + 1
        BY <1>4, <3>2, EndDecryptEffect
      <4>3. QED
        BY <1>0, <4>1, <4>2 DEF Numbering
    <3>3. QED
      BY <3>1, <3>2
  <2>3. \A v \in Users, p \in Ops : op'[v][p] = op[v][p] \/ op'[v][p] = Idle
    BY <1>4, EndEffect DEF EndDecrypt
  <2>4. \A v \in Users : session'[v] # NoSession =>
          session'[v].send \in FirstChain..Len(against')
    <3>1. \A v \in Users : session'[v] = IF v = u THEN Opened(r, m) ELSE session[v]
      BY <1>4, EndDecryptEffect
    <3>2. FirstChain..Len(against) \subseteq FirstChain..Len(against')
      BY <1>0, <2>1
    <3>3. QED
      BY <2>2, <3>1, <3>2 DEF Numbering
  <2>5. FirstChain..Len(against) \subseteq FirstChain..Len(against')
    BY <1>0, <2>1
  <2>6. UNCHANGED posted
    BY <1>4 DEF EndDecrypt
  <2>7. Len(against') >= FirstChain
    BY <1>0, <2>1 DEF Numbering
  <2>8. QED
    BY <2>3, <2>4, <2>5, <2>6, <2>7 DEF Numbering
<1>5. ASSUME NEW u \in Users, NEW o \in Ops, Abandon(u, o) PROVE Numbering'
  BY <1>5, EndEffect DEF Abandon, Numbering
<1>6. CASE UNCHANGED vars
  BY <1>6 DEF vars, Numbering
<1>7. QED
  BY <1>1, <1>2, <1>3, <1>4, <1>5, <1>6 DEF Next

\* Every variable of the model keeps its type, and ratchet keys their numbers.
THEOREM TypeCorrect == Spec => [](TypeOK /\ Numbering)
<1>1. Init => TypeOK /\ Numbering
  <2> SUFFICES ASSUME Init PROVE TypeOK /\ Numbering
    OBVIOUS
  <2>1. TypeOK
    BY OnChainType DEF Init, TypeOK, FirstChain, SignedPreKey, Idle, Op, Users
  <2>2. Numbering
    BY DEF Init, Numbering, FirstChain, SignedPreKey, Idle, OnChain, Users
  <2>3. QED
    BY <2>1, <2>2
<1>2. TypeOK /\ Numbering /\ [Next]_vars => TypeOK' /\ Numbering'
  BY TypeStep, NumberingStep
<1>3. QED
  BY <1>1, <1>2, PTL DEF Spec

-----------------------------------------------------------------------------
(***************************************************************************)
(* KeysAreUsedOnce.                                                        *)
(***************************************************************************)
LEMMA PostedTypes ==
  ASSUME TypeOK
  PROVE  \A i \in DOMAIN posted :
           /\ posted[i].from \in Users
           /\ posted[i].chain \in Nat
           /\ posted[i].n \in Nat
           /\ reads[i] \in Nat
<1>1. \A i \in DOMAIN posted : posted[i] \in Message /\ reads[i] \in Nat
  BY DEF TypeOK
<1>2. QED
  BY <1>1 DEF Message

LEMMA BeginAdvancing ==
  ASSUME TypeOK, Advancing, KeysAreUsedOnce,
         NEW u \in Users, NEW o \in Ops, NEW x \in Op, Begin(u, o, x),
         UNCHANGED <<session, posted>>,
         "encrypt" \notin overlapped[u] => Ahead(posted, u, x.record),
         x.kind # "idle"
  PROVE  Advancing' /\ KeysAreUsedOnce'
<1>1. \A v \in Users, p \in Ops : op'[v][p] = IF v = u /\ p = o THEN x ELSE op[v][p]
  BY BeginEffect
<1>2. \A v \in Users : overlapped[v] \subseteq overlapped'[v]
  BY BeginEffect
<1>4. ASSUME NEW v \in Users, "encrypt" \notin overlapped'[v]
      PROVE  \A p \in Ops : op'[v][p] # Idle => Ahead(posted', v, op'[v][p].record)
  BY <1>1, <1>2, <1>4 DEF Advancing
<1>5. ASSUME NEW v \in Users, "encrypt" \notin overlapped'[v],
             NEW p \in Ops, NEW q \in Ops, op'[v][p].kind = "encrypt", q # p
      PROVE  op'[v][q] = Idle
  <2>1. CASE v # u
    BY <1>1, <1>2, <1>5, <2>1 DEF Advancing
  <2>2. CASE v = u
    <3>1. \A s \in Ops \ {o} : op[u][s].kind # "encrypt"
                               /\ (x.kind = "encrypt" => op[u][s] = Idle)
      BY <1>5, <2>2, BeginEffect
    <3>2. QED
      BY <1>1, <1>5, <2>2, <3>1
  <2>3. QED
    BY <2>1, <2>2
<1>6. ASSUME NEW v \in Users, "encrypt" \notin overlapped'[v]
      PROVE  session'[v] # NoSession => Ahead(posted', v, session'[v])
  BY <1>2, <1>6 DEF Advancing
<1>7. Advancing'
  BY <1>4, <1>5, <1>6 DEF Advancing
<1>8. KeysAreUsedOnce'
  <2>1. \A i \in DOMAIN posted : posted[i].from \in Users
    BY PostedTypes
  <2>2. QED
    BY <1>2, <2>1 DEF KeysAreUsedOnce
<1>9. QED
  BY <1>7, <1>8

LEMMA AdvancingStep ==
  ASSUME TypeOK, Numbering, Advancing, KeysAreUsedOnce, [Next]_vars
  PROVE  Advancing' /\ KeysAreUsedOnce'
<1>1. ASSUME NEW u \in Users, NEW o \in Ops, BeginEncrypt(u, o)
      PROVE  Advancing' /\ KeysAreUsedOnce'
  <2> DEFINE x == [kind |-> "encrypt", record |-> GetSession(u), msg |-> 0]
  <2>1. /\ x \in Op /\ Begin(u, o, x) /\ x.kind # "idle"
        /\ UNCHANGED <<session, posted>>
    BY <1>1 DEF BeginEncrypt, TypeOK, GetSession, Op
  <2>2. "encrypt" \notin overlapped[u] => Ahead(posted, u, x.record)
    BY <1>1 DEF BeginEncrypt, Advancing, GetSession
  <2> HIDE DEF x
  <2>3. QED
    BY <2>1, <2>2, BeginAdvancing
<1>2. ASSUME NEW u \in Users, NEW o \in Ops, NEW i \in DOMAIN posted, BeginDecrypt(u, o, i)
      PROVE  Advancing' /\ KeysAreUsedOnce'
  <2> DEFINE r == IF GetSession(u) = NoSession THEN OnChain(SignedPreKey) ELSE GetSession(u)
             x == [kind |-> "decrypt", record |-> r, msg |-> i]
  <2>1. /\ x \in Op /\ Begin(u, o, x) /\ x.kind # "idle"
        /\ UNCHANGED <<session, posted>>
    BY <1>2, BeginTypes DEF BeginDecrypt
  <2>2. \A j \in DOMAIN posted : posted[j].chain # SignedPreKey
    BY DEF Numbering, FirstChain, SignedPreKey
  <2>3. Ahead(posted, u, OnChain(SignedPreKey))
    BY <2>2 DEF Ahead, OnChain
  <2>4. "encrypt" \notin overlapped[u] => Ahead(posted, u, x.record)
    BY <2>3 DEF Advancing, GetSession
  <2> HIDE DEF x
  <2>5. QED
    BY <2>1, <2>4, BeginAdvancing
<1>3. ASSUME NEW u \in Users, NEW o \in Ops, EndEncrypt(u, o)
      PROVE  Advancing' /\ KeysAreUsedOnce'
  <2> DEFINE r == op[u][o].record
             s == [r EXCEPT !.next = @ + 1]
             m == [from |-> u, chain |-> r.send, n |-> r.next]
             k == Len(posted) + 1
  <2>1. /\ r \in Record
        /\ \A v \in Users : session'[v] = IF v = u THEN s ELSE session[v]
        /\ \A i \in DOMAIN posted' : i \in DOMAIN posted \/ i = k
        /\ k \notin DOMAIN posted
        /\ \A i \in DOMAIN posted : posted'[i] = posted[i]
        /\ posted'[k] = m
    BY <1>3, EndEncryptEffect
  <2>2. /\ m.from = u /\ m.chain = r.send /\ m.n = r.next
        /\ s.send = r.send /\ s.next = r.next + 1 /\ r.next \in Nat
    BY <2>1 DEF Record
  <2>3. /\ overlapped' = overlapped
        /\ \A v \in Users, p \in Ops :
             op'[v][p] = IF v = u /\ p = o THEN Idle ELSE op[v][p]
    BY <1>3, EndEffect DEF EndEncrypt
  <2>4. /\ op[u][o].kind = "encrypt" /\ op[u][o] # Idle
        /\ Idle.kind = "idle"
    BY <1>3 DEF EndEncrypt, Idle
  <2>5. \A i \in DOMAIN posted : posted[i] \in Message
    BY DEF TypeOK
  <2> HIDE DEF s, m, k
  <2>6. "encrypt" \notin overlapped[u] => Ahead(posted, u, r)
    BY <2>4 DEF Advancing
  <2>7. Ahead(posted, u, r) => Ahead(posted', u, s)
    <3>1. \A i \in DOMAIN posted : posted[i].n \in Nat
      BY <2>5 DEF Message
    <3>2. QED
      BY <2>1, <2>2, <3>1 DEF Ahead
  <2>8. \A v \in Users \ {u} : \A w : Ahead(posted, v, w) => Ahead(posted', v, w)
    BY <2>1, <2>2 DEF Ahead
  <2>9. Advancing'
    <3>1. ASSUME "encrypt" \notin overlapped[u]
          PROVE  \A p \in Ops : op'[u][p] = Idle
      BY <2>3, <2>4, <3>1 DEF Advancing
    <3>2. ASSUME NEW v \in Users, "encrypt" \notin overlapped'[v]
          PROVE  /\ session'[v] # NoSession => Ahead(posted', v, session'[v])
                 /\ \A p \in Ops : op'[v][p] # Idle => Ahead(posted', v, op'[v][p].record)
                 /\ \A p, q \in Ops :
                      op'[v][p].kind = "encrypt" /\ q # p => op'[v][q] = Idle
      <4>1. CASE v = u
        BY <2>1, <2>3, <2>6, <2>7, <3>1, <3>2, <4>1
      <4>2. CASE v # u
        BY <2>1, <2>3, <2>8, <3>2, <4>2 DEF Advancing
      <4>3. QED
        BY <4>1, <4>2
    <3>3. QED
      BY <3>2 DEF Advancing
  <2>10. KeysAreUsedOnce'
    <3>1. ASSUME "encrypt" \notin overlapped[u], NEW i \in DOMAIN posted,
                 posted[i].from = u
          PROVE  Key(posted[i]) # Key(m)
      <4>1. posted[i].n \in Nat
        BY <2>5 DEF Message
      <4>2. QED
        BY <2>2, <2>6, <3>1, <4>1 DEF Ahead, Key
    <3>2. QED
      BY <2>1, <2>2, <2>3, <3>1 DEF KeysAreUsedOnce
  <2>11. QED
    BY <2>9, <2>10
<1>4. ASSUME NEW u \in Users, NEW o \in Ops, EndDecrypt(u, o)
      PROVE  Advancing' /\ KeysAreUsedOnce'
  <2> DEFINE r == op[u][o].record
             m == posted[op[u][o].msg]
  <2>1. /\ r \in Record
        /\ \A v \in Users : session'[v] = IF v = u THEN Opened(r, m) ELSE session[v]
    BY <1>4, EndDecryptEffect
  <2>2. /\ overlapped' = overlapped /\ UNCHANGED posted
        /\ \A v \in Users, p \in Ops :
             op'[v][p] = IF v = u /\ p = o THEN Idle ELSE op[v][p]
    BY <1>4, EndEffect DEF EndDecrypt
  <2>3. op[u][o] # Idle /\ Idle.kind = "idle"
    BY <1>4 DEF EndDecrypt, Idle
  <2>4. Ahead(posted, u, r) => Ahead(posted, u, Opened(r, m))
    <3>1. CASE m.chain \in r.known
      BY <2>1, <3>1 DEF Ahead, Opened, Record
    <3>2. CASE m.chain \notin r.known
      <4>1. Opened(r, m).send = Len(against) + 1
        BY <3>2 DEF Opened
      <4>2. \A i \in DOMAIN posted : posted[i].chain # Len(against) + 1
        BY LenProperties DEF Numbering, TypeOK
      <4>3. QED
        BY <4>1, <4>2 DEF Ahead
    <3>3. QED
      BY <3>1, <3>2
  <2>6. KeysAreUsedOnce'
    BY <2>2 DEF KeysAreUsedOnce
  <2>7. ASSUME NEW v \in Users, "encrypt" \notin overlapped'[v]
        PROVE  /\ session'[v] # NoSession => Ahead(posted, v, session'[v])
               /\ \A p \in Ops : op'[v][p] # Idle => Ahead(posted, v, op'[v][p].record)
               /\ \A p, q \in Ops :
                    op'[v][p].kind = "encrypt" /\ q # p => op'[v][q] = Idle
    BY <2>1, <2>2, <2>3, <2>4, <2>7 DEF Advancing
  <2>8. QED
    BY <2>2, <2>6, <2>7 DEF Advancing
<1>5. ASSUME NEW u \in Users, NEW o \in Ops, Abandon(u, o)
      PROVE  Advancing' /\ KeysAreUsedOnce'
  <2>1. /\ overlapped' = overlapped /\ UNCHANGED <<session, posted>>
        /\ \A v \in Users, p \in Ops :
             op'[v][p] = IF v = u /\ p = o THEN Idle ELSE op[v][p]
    BY <1>5, EndEffect DEF Abandon
  <2>2. Idle.kind = "idle"
    BY DEF Idle
  <2>3. QED
    BY <2>1, <2>2 DEF Advancing, KeysAreUsedOnce, Ahead
<1>6. CASE UNCHANGED vars
  BY <1>6 DEF vars, Advancing, KeysAreUsedOnce, Ahead
<1>7. QED
  BY <1>1, <1>2, <1>3, <1>4, <1>5, <1>6 DEF Next

\* A message key is never used twice by a user whose encryptions did not overlap
\* with other operations on the record, whatever its decryptions do.
THEOREM KeysStayUnique == Spec => []KeysAreUsedOnce
<1>1. Init => Advancing /\ KeysAreUsedOnce
  BY DEF Init, Advancing, KeysAreUsedOnce, Ahead, Idle
<1>2. TypeOK /\ Numbering /\ Advancing /\ KeysAreUsedOnce /\ [Next]_vars
        => Advancing' /\ KeysAreUsedOnce'
  BY AdvancingStep
<1>3. QED
  BY <1>1, <1>2, TypeCorrect, PTL DEF Spec

-----------------------------------------------------------------------------
(***************************************************************************)
(* ReadAtMostOnce.                                                         *)
(***************************************************************************)
LEMMA BeginRemembering ==
  ASSUME TypeOK, Remembering, ReadAtMostOnce,
         NEW u \in Users, NEW o \in Ops, NEW x \in Op, Begin(u, o, x),
         UNCHANGED <<session, posted, reads>>, x.record = Copy(u)
  PROVE  Remembering' /\ ReadAtMostOnce'
<1>1. /\ \A v \in Users, p \in Ops : op'[v][p] = IF v = u /\ p = o THEN x ELSE op[v][p]
      /\ \A v \in Users : overlapped[v] \subseteq overlapped'[v]
      /\ overlapped'[u] = {} => \A p \in Ops : op[u][p] = Idle
  BY BeginEffect
<1>2. ASSUME NEW v \in Users, overlapped'[v] = {}
      PROVE  overlapped[v] = {}
  BY <1>1, <1>2
<1>3. ASSUME NEW v \in Users, overlapped'[v] = {}
      PROVE  /\ \A p, q \in Ops : op'[v][p] # Idle /\ q # p => op'[v][q] = Idle
             /\ \A p \in Ops : op'[v][p] # Idle =>
                  op'[v][p].record =
                    IF session[v] = NoSession THEN OnChain(SignedPreKey) ELSE session[v]
  <2>1. CASE v = u
    BY <1>1, <1>3, <2>1 DEF Copy
  <2>2. CASE v # u
    BY <1>1, <1>2, <1>3, <2>2 DEF Remembering
  <2>3. QED
    BY <2>1, <2>2
<1>4. Remembering'
  BY <1>2, <1>3 DEF Remembering, Key
<1>5. ReadAtMostOnce'
  BY <1>2 DEF ReadAtMostOnce
<1>6. QED
  BY <1>4, <1>5

LEMMA RememberingStep ==
  ASSUME TypeOK, Numbering, Remembering, ReadAtMostOnce, [Next]_vars
  PROVE  Remembering' /\ ReadAtMostOnce'
<1>1. ASSUME NEW u \in Users, NEW o \in Ops, BeginEncrypt(u, o)
      PROVE  Remembering' /\ ReadAtMostOnce'
  <2> DEFINE x == [kind |-> "encrypt", record |-> GetSession(u), msg |-> 0]
  <2>1. /\ x \in Op /\ Begin(u, o, x)
        /\ UNCHANGED <<session, posted, reads>>
    BY <1>1 DEF BeginEncrypt, TypeOK, GetSession, Op
  <2>2. x.record = Copy(u)
    BY <1>1 DEF BeginEncrypt, GetSession, Copy
  <2> HIDE DEF x
  <2>3. QED
    BY <2>1, <2>2, BeginRemembering
<1>2. ASSUME NEW u \in Users, NEW o \in Ops, NEW i \in DOMAIN posted, BeginDecrypt(u, o, i)
      PROVE  Remembering' /\ ReadAtMostOnce'
  <2> DEFINE r == IF GetSession(u) = NoSession THEN OnChain(SignedPreKey) ELSE GetSession(u)
             x == [kind |-> "decrypt", record |-> r, msg |-> i]
  <2>1. /\ x \in Op /\ Begin(u, o, x)
        /\ UNCHANGED <<session, posted, reads>>
    BY <1>2, BeginTypes DEF BeginDecrypt
  <2>2. x.record = Copy(u)
    BY DEF GetSession, Copy
  <2> HIDE DEF x
  <2>3. QED
    BY <2>1, <2>2, BeginRemembering
<1>3. ASSUME NEW u \in Users, NEW o \in Ops, EndEncrypt(u, o)
      PROVE  Remembering' /\ ReadAtMostOnce'
  <2> DEFINE r == op[u][o].record
             s == [r EXCEPT !.next = @ + 1]
             m == [from |-> u, chain |-> r.send, n |-> r.next]
             k == Len(posted) + 1
  <2>1. /\ r \in Record
        /\ \A v \in Users : session'[v] = IF v = u THEN s ELSE session[v]
        /\ \A i \in DOMAIN posted' : i \in DOMAIN posted \/ i = k
        /\ \A i \in DOMAIN posted : posted'[i] = posted[i] /\ reads'[i] = reads[i]
        /\ posted'[k] = m /\ reads'[k] = 0
    BY <1>3, EndEncryptEffect
  <2>2. s.used = r.used /\ s # NoSession
    BY <2>1, NoSessionAssumption DEF Record
  <2>3. /\ overlapped' = overlapped
        /\ \A v \in Users, p \in Ops :
             op'[v][p] = IF v = u /\ p = o THEN Idle ELSE op[v][p]
    BY <1>3, EndEffect DEF EndEncrypt
  <2>4. op[u][o] # Idle
    BY <1>3 DEF EndEncrypt, Idle
  <2>5. r # OnChain(SignedPreKey)
    BY <1>3, <2>4 DEF EndEncrypt, Numbering, OnChain, FirstChain, SignedPreKey
  <2> HIDE DEF s, m, k, r
  <2>6. overlapped[u] = {} => session[u] # NoSession /\ r = session[u]
    BY <2>4, <2>5 DEF Remembering, r
  <2>7. ASSUME NEW v \in Users, overlapped'[v] = {}
        PROVE  /\ \A p, q \in Ops : op'[v][p] # Idle /\ q # p => op'[v][q] = Idle
               /\ \A p \in Ops : op'[v][p] # Idle =>
                    op'[v][p].record =
                      IF session'[v] = NoSession THEN OnChain(SignedPreKey)
                                                 ELSE session'[v]
    BY <2>1, <2>3, <2>4, <2>7 DEF Remembering
  <2>8. ASSUME NEW v \in Users, overlapped'[v] = {}, NEW i \in DOMAIN posted',
               posted'[i].from # v, reads'[i] > 0
        PROVE  session'[v] # NoSession /\ Key(posted'[i]) \in session'[v].used
    <3>1. i \in DOMAIN posted
      BY <2>1, <2>8
    <3>2. session[v] # NoSession /\ Key(posted[i]) \in session[v].used
      BY <2>1, <2>3, <2>8, <3>1 DEF Remembering
    <3>3. QED
      BY <2>1, <2>2, <2>3, <2>6, <2>8, <3>1, <3>2
  <2>9. ReadAtMostOnce'
    BY <2>1, <2>3 DEF ReadAtMostOnce
  <2>10. QED
    BY <2>7, <2>8, <2>9 DEF Remembering, Key
<1>4. ASSUME NEW u \in Users, NEW o \in Ops, EndDecrypt(u, o)
      PROVE  Remembering' /\ ReadAtMostOnce'
  <2> DEFINE r == op[u][o].record
             i == op[u][o].msg
             m == posted[i]
  <2>1. /\ r \in Record /\ i \in DOMAIN posted /\ m.from # u
        /\ \A v \in Users : session'[v] = IF v = u THEN Opened(r, m) ELSE session[v]
        /\ \A j \in DOMAIN posted : reads'[j] = IF j = i THEN reads[j] + 1 ELSE reads[j]
    BY <1>4, EndDecryptEffect
  <2>2. m \in Message
    BY <1>4, EndDecryptEffect
  <2>3. Opened(r, m) \in Record
    BY <2>1, <2>2, OpenedType
  <2>4. Opened(r, m) # NoSession /\ Opened(r, m).used = r.used \cup {Key(m)}
    BY <2>1, <2>3, NoSessionAssumption DEF Opened, Record
  <2>5. Key(m) \notin r.used
    BY <1>4 DEF EndDecrypt, Opens
  <2>6. /\ overlapped' = overlapped /\ UNCHANGED posted
        /\ \A v \in Users, p \in Ops :
             op'[v][p] = IF v = u /\ p = o THEN Idle ELSE op[v][p]
    BY <1>4, EndEffect DEF EndDecrypt
  <2>7. op[u][o] # Idle
    BY <1>4 DEF EndDecrypt, Idle
  <2>8. overlapped[u] = {} =>
          r = IF session[u] = NoSession THEN OnChain(SignedPreKey) ELSE session[u]
    BY <2>7 DEF Remembering
  <2>9. \A v \in Users : v # u => m.from = v
    BY <2>1, PostedTypes DEF Users
  <2>10. ASSUME overlapped[u] = {} PROVE reads[i] = 0
    <3>1. reads[i] > 0 => Key(m) \in r.used
      BY <2>1, <2>8, <2>10 DEF Remembering
    <3>2. QED
      BY <2>1, <2>5, <3>1, PostedTypes
  <2> HIDE DEF r, i, m
  <2>11. ASSUME NEW v \in Users, overlapped'[v] = {}
         PROVE  /\ \A p, q \in Ops : op'[v][p] # Idle /\ q # p => op'[v][q] = Idle
                /\ \A p \in Ops : op'[v][p] # Idle =>
                     op'[v][p].record =
                       IF session'[v] = NoSession THEN OnChain(SignedPreKey)
                                                  ELSE session'[v]
    BY <2>1, <2>6, <2>7, <2>11 DEF Remembering
  <2>12. ASSUME NEW v \in Users, overlapped'[v] = {}, NEW j \in DOMAIN posted,
                posted[j].from # v, reads'[j] > 0
         PROVE  session'[v] # NoSession /\ Key(posted[j]) \in session'[v].used
    <3>1. CASE v = u
      <4>1. CASE j = i
        BY <2>1, <2>4, <3>1, <4>1 DEF m
      <4>2. CASE j # i
        <5>1. session[u] # NoSession /\ Key(posted[j]) \in session[u].used
          BY <2>1, <2>6, <2>12, <3>1, <4>2 DEF Remembering
        <5>2. QED
          BY <2>1, <2>4, <2>6, <2>8, <2>12, <3>1, <5>1
      <4>3. QED
        BY <4>1, <4>2
    <3>2. CASE v # u
      <4>1. j # i
        BY <2>9, <2>12, <3>2 DEF m
      <4>2. QED
        BY <2>1, <2>6, <2>12, <3>2, <4>1 DEF Remembering
    <3>3. QED
      BY <3>1, <3>2
  <2>13. ReadAtMostOnce'
    <3> SUFFICES ASSUME NEW v \in Users, NEW j \in DOMAIN posted,
                        posted[j].from # v, overlapped[v] = {}
                 PROVE  ~(reads'[j] > 1)
      BY <2>6 DEF ReadAtMostOnce
    <3>1. CASE j = i
      <4>1. v = u
        BY <2>9, <3>1 DEF m
      <4>2. QED
        BY <2>1, <2>10, <3>1, <4>1
    <3>2. CASE j # i
      BY <2>1, <3>2 DEF ReadAtMostOnce
    <3>3. QED
      BY <3>1, <3>2
  <2>14. QED
    BY <2>6, <2>11, <2>12, <2>13 DEF Remembering, Key
<1>5. ASSUME NEW u \in Users, NEW o \in Ops, Abandon(u, o)
      PROVE  Remembering' /\ ReadAtMostOnce'
  <2>1. /\ overlapped' = overlapped /\ UNCHANGED <<session, posted, reads>>
        /\ \A v \in Users, p \in Ops :
             op'[v][p] = IF v = u /\ p = o THEN Idle ELSE op[v][p]
    BY <1>5, EndEffect DEF Abandon
  <2>2. ReadAtMostOnce'
    BY <2>1 DEF ReadAtMostOnce
  <2>3. ASSUME NEW v \in Users, overlapped'[v] = {}
        PROVE  /\ \A p, q \in Ops : op'[v][p] # Idle /\ q # p => op'[v][q] = Idle
               /\ \A p \in Ops : op'[v][p] # Idle =>
                    op'[v][p].record =
                      IF session'[v] = NoSession THEN OnChain(SignedPreKey) ELSE session'[v]
    <3>1. \A p \in Ops : op'[v][p] = op[v][p] \/ op'[v][p] = Idle
      BY <2>1
    <3>2. QED
      BY <2>1, <2>3, <3>1 DEF Remembering
  <2>4. ASSUME NEW v \in Users, overlapped'[v] = {}, NEW i \in DOMAIN posted',
               posted'[i].from # v, reads'[i] > 0
        PROVE  session'[v] # NoSession /\ Key(posted[i]) \in session'[v].used
    BY <2>1, <2>4 DEF Remembering
  <2>5. \A i : Key(posted[i])' = Key(posted[i])
    BY <2>1 DEF Key
  <2>6. QED
    BY <2>2, <2>3, <2>4, <2>5 DEF Remembering
<1>6. CASE UNCHANGED vars
  BY <1>6 DEF vars, Remembering, ReadAtMostOnce, Key
<1>7. QED
  BY <1>1, <1>2, <1>3, <1>4, <1>5, <1>6 DEF Next

\* A message the relay delivers again is not decrypted again by a user whose
\* operations on the record did not overlap.
THEOREM ReadsDoNotRepeat == Spec => []ReadAtMostOnce
<1>1. Init => Remembering /\ ReadAtMostOnce
  BY DEF Init, Remembering, ReadAtMostOnce
<1>2. TypeOK /\ Numbering /\ Remembering /\ ReadAtMostOnce /\ [Next]_vars
        => Remembering' /\ ReadAtMostOnce'
  BY RememberingStep
<1>3. QED
  BY <1>1, <1>2, TypeCorrect, PTL DEF Spec

-----------------------------------------------------------------------------
(***************************************************************************)
(* UnreadStaysReadable.                                                    *)
(***************************************************************************)
LEMMA TwoUsers == \A u, v, w \in Users : u # v /\ w # u => w = v
  BY DEF Users

LEMMA RecordTypes ==
  ASSUME TypeOK, Numbering, NEW u \in Users
  PROVE  /\ \A r \in Records(u) :
              /\ r \in Record
              /\ r.send \in FirstChain..Len(against) \/ r.send = SignedPreKey
         /\ Sent(u) \subseteq FirstChain..Len(against)
         /\ Len(against) \in Nat /\ DOMAIN against = 1..Len(against)
         /\ Copy(u) \in Records(u)
<1>1. Copy(u) \in Record
  BY OnChainType DEF TypeOK, Copy, SignedPreKey
<1>2. Copy(u).send \in FirstChain..Len(against) \/ Copy(u).send = SignedPreKey
  BY DEF Numbering, Copy, OnChain
<1>3. ASSUME NEW o \in Ops, op[u][o] # Idle
      PROVE  /\ op[u][o].record \in Record
             /\ \/ op[u][o].record.send \in FirstChain..Len(against)
                \/ op[u][o].record.send = SignedPreKey
  <2>1. op[u][o].record \in Record
    BY <1>3, OpTypes
  <2>2. \/ op[u][o].record.send \in FirstChain..Len(against)
        \/ op[u][o].record = OnChain(SignedPreKey)
    BY <1>3 DEF Numbering
  <2>3. OnChain(SignedPreKey).send = SignedPreKey
    BY DEF OnChain
  <2>4. QED
    BY <2>1, <2>2, <2>3
<1>4. Sent(u) \subseteq FirstChain..Len(against)
  BY DEF Numbering, Sent
<1>5. Len(against) \in Nat /\ DOMAIN against = 1..Len(against)
  BY LenProperties DEF TypeOK
<1>6. QED
  BY <1>1, <1>2, <1>3, <1>4, <1>5 DEF Records

LEMMA AnsweringStep ==
  ASSUME TypeOK, Numbering, Answering, [Next]_vars
  PROVE  Answering'
<1>1. ASSUME NEW u \in Users, NEW o \in Ops, EndEncrypt(u, o) PROVE Answering'
  <2>1. op[u][o].record \in Record
    BY <1>1, EndEncryptEffect
  <2>2. [op[u][o].record EXCEPT !.next = @ + 1] \in Record
    BY <2>1 DEF Record
  <2>3. session'["alice"] # NoSession
    BY <1>1, <2>2, EndEncryptEffect, NoSessionAssumption DEF Answering, Users
  <2>4. UNCHANGED against
    BY <1>1 DEF EndEncrypt
  <2>5. QED
    BY <2>3, <2>4 DEF Answering
<1>2. ASSUME NEW u \in Users, NEW o \in Ops, EndDecrypt(u, o) PROVE Answering'
  <2> DEFINE r == op[u][o].record
             m == posted[op[u][o].msg]
  <2>1. r \in Record /\ m \in Message /\ op[u][o].msg \in DOMAIN posted
    BY <1>2, EndDecryptEffect
  <2>2. Opened(r, m) \in Record
    BY <2>1, OpenedType
  <2>3. session'["alice"] # NoSession
    BY <1>2, <2>2, EndDecryptEffect, NoSessionAssumption DEF Answering, Users
  <2>4. m.chain \in FirstChain..Len(against) /\ against \in Seq(Nat) /\ m.chain \in Nat
        /\ Len(against) \in Nat /\ DOMAIN against = 1..Len(against)
    BY <2>1, LenProperties DEF Numbering, TypeOK, Message
  <2> HIDE DEF m, r
  <2>5. CASE against' = against
    BY <2>3, <2>5 DEF Answering
  <2>6. CASE against' = Append(against, m.chain)
    <3>1. /\ DOMAIN against' = 1..(Len(against) + 1)
          /\ \A c \in 1..Len(against) : against'[c] = against[c]
          /\ against'[Len(against) + 1] = m.chain
      BY <2>4, <2>6, AppendProperties
    <3>2. against'[FirstChain] = SignedPreKey
      BY <2>4, <3>1 DEF Answering, FirstChain
    <3>3. ASSUME NEW c \in DOMAIN against', c > FirstChain
          PROVE  against'[c] \in FirstChain..(c - 1)
      <4>1. CASE c \in 1..Len(against)
        BY <2>4, <3>1, <3>3, <4>1 DEF Answering
      <4>2. CASE c = Len(against) + 1
        BY <2>4, <3>1, <4>2
      <4>3. QED
        BY <2>4, <3>1, <4>1, <4>2
    <3>4. QED
      BY <2>3, <3>2, <3>3 DEF Answering
  <2>7. QED
    BY <1>2, <2>5, <2>6 DEF EndDecrypt, m
<1>3. CASE UNCHANGED <<session, against>>
  BY <1>3 DEF Answering
<1>4. QED
  BY <1>1, <1>2, <1>3 DEF Next, vars, BeginEncrypt, BeginDecrypt, Abandon

\* The steps that only begin or drop operations.
LEMMA RecordsShrink ==
  ASSUME Ratcheting, UNCHANGED <<session, against, posted, reads>>,
         \A u \in Users : Records(u)' \subseteq Records(u),
         \A u \in Users : overlapped[u] \subseteq overlapped'[u],
         \A u \in Users, o \in Ops : op'[u][o].kind = "encrypt" =>
           op'[u][o] = op[u][o] \/ op'[u][o].record = session[u]
  PROVE  Ratcheting'
<1> SUFFICES ASSUME \A u \in Users : "encrypt" \notin overlapped'[u],
                    NEW u \in Users, NEW v \in Users, u # v
             PROVE  /\ \A r \in Records(u)' : InStep(u, v, r)' /\ UsedAreRead(u, r)'
                    /\ \A o \in Ops : op'[u][o].kind = "encrypt" =>
                         op'[u][o].record = session'[u]
  BY DEF Ratcheting
<1>1. \A r \in Records(u) : InStep(u, v, r) /\ UsedAreRead(u, r)
  BY DEF Ratcheting
<1>2. Sent(u)' = Sent(u) /\ Sent(v)' = Sent(v)
  BY DEF Sent
<1>3. \A r \in Records(u)' : InStep(u, v, r)'
  BY <1>1, <1>2 DEF InStep
<1>4. \A r \in Records(u)' : UsedAreRead(u, r)'
  BY <1>1 DEF UsedAreRead, Key
<1>5. \A o \in Ops : op[u][o].kind = "encrypt" => op[u][o].record = session[u]
  BY DEF Ratcheting
<1>6. QED
  BY <1>3, <1>4, <1>5

LEMMA BeginRatcheting ==
  ASSUME TypeOK, Ratcheting, NEW u \in Users, NEW o \in Ops, NEW x \in Op, Begin(u, o, x),
         UNCHANGED <<session, against, posted, reads>>, x.record = Copy(u),
         x.kind = "encrypt" => x.record = session[u]
  PROVE  Ratcheting'
<1>1. /\ \A v \in Users, p \in Ops : op'[v][p] = IF v = u /\ p = o THEN x ELSE op[v][p]
      /\ \A v \in Users : overlapped[v] \subseteq overlapped'[v]
  BY BeginEffect
<1>2. \A v \in Users : Records(v)' \subseteq Records(v)
  <2>1. \A v \in Users : Copy(v)' = Copy(v)
    BY DEF Copy
  <2>2. QED
    BY <1>1, <2>1 DEF Records
<1>3. QED
  BY <1>1, <1>2, RecordsShrink

\* The user of an encryption that ran alone has sent on the chain of its only
\* record, which the peer's records waited for.
LEMMA EncryptRatcheting ==
  ASSUME TypeOK, Numbering, Advancing, Ratcheting,
         NEW u \in Users, NEW o \in Ops, EndEncrypt(u, o)
  PROVE  Ratcheting'
<1> DEFINE r == op[u][o].record
<1>0. PICK s : s = [r EXCEPT !.next = @ + 1]
  OBVIOUS
<1>1. /\ r \in Record
      /\ \A w \in Users : session'[w] = IF w = u THEN s ELSE session[w]
      /\ DOMAIN posted \subseteq DOMAIN posted'
      /\ \A i \in DOMAIN posted : posted'[i] = posted[i] /\ reads'[i] = reads[i]
  <2>1. /\ r \in Record
        /\ \A w \in Users :
             session'[w] = IF w = u THEN [r EXCEPT !.next = @ + 1] ELSE session[w]
        /\ \A i \in DOMAIN posted :
             i \in DOMAIN posted' /\ posted'[i] = posted[i] /\ reads'[i] = reads[i]
    BY EndEncryptEffect
  <2>2. QED
    BY <1>0, <2>1
<1>2. /\ overlapped' = overlapped /\ against' = against
      /\ \A w \in Users, p \in Ops : op'[w][p] = IF w = u /\ p = o THEN Idle ELSE op[w][p]
      /\ op[u][o].kind = "encrypt" /\ op[u][o] # Idle /\ Idle.kind = "idle"
  BY EndEffect DEF EndEncrypt, Idle
<1>3. s \in Record /\ s.send = r.send /\ s.known = r.known /\ s.used = r.used
  BY <1>0, <1>1 DEF Record
<1>4. \A w \in Users : Sent(w)' = IF w = u THEN Sent(w) \cup {r.send} ELSE Sent(w)
  <2> DEFINE k == Len(posted) + 1
  <2>1. /\ \A i \in DOMAIN posted' : i \in DOMAIN posted \/ i = k
        /\ k \in DOMAIN posted'
        /\ posted'[k] = [from |-> u, chain |-> r.send, n |-> r.next]
    BY EndEncryptEffect
  <2>2. posted'[k].from = u /\ posted'[k].chain = r.send
    BY <2>1
  <2> HIDE DEF k, r
  <2>3. QED
    BY <1>1, <2>1, <2>2 DEF Sent
<1> SUFFICES ASSUME \A w \in Users : "encrypt" \notin overlapped[w] PROVE Ratcheting'
  BY <1>2 DEF Ratcheting
<1>5. \A p \in Ops : op'[u][p] = Idle
  BY <1>2 DEF Advancing
<1>6. /\ r \in Records(u) /\ r.send >= FirstChain
      /\ \A w \in Users : w # u => InStep(u, w, r) /\ UsedAreRead(u, r)
  <2>1. r \in Records(u)
    BY <1>2 DEF Records
  <2>2. \E w \in Users : w # u
    BY DEF Users
  <2>3. r = session[u]
    BY <1>2, <2>2 DEF Ratcheting
  <2>4. r.send >= FirstChain
    BY <1>1, <2>3, NoSessionAssumption, RecordTypes DEF Numbering, FirstChain
  <2>5. QED
    BY <2>1, <2>4 DEF Ratcheting
<1>7. Records(u)' = {s}
  <2>1. Copy(u)' = s
    BY <1>1, <1>3, NoSessionAssumption DEF Copy
  <2>2. QED
    BY <1>5, <2>1 DEF Records
<1>8. \A w \in Users : w # u => Records(w)' = Records(w)
  <2>1. \A w \in Users : w # u => Copy(w)' = Copy(w)
    BY <1>1 DEF Copy
  <2>2. QED
    BY <1>2, <2>1 DEF Records
<1> HIDE DEF r
<1>9. ASSUME NEW w \in Users, w # u PROVE InStep(u, w, s)'
  <2>1. InStep(u, w, r)
    BY <1>6, <1>9
  <2>2. Sent(u)' = Sent(u) \cup {s.send} /\ Sent(w)' = Sent(w)
    BY <1>3, <1>4, <1>9
  <2>3. /\ \A c \in Sent(w) : c \in s.known \/ against[c] = s.send
        /\ \A c \in Sent(u) \ {FirstChain, s.send} : against[c] \in s.known
        /\ s.send > FirstChain => against[s.send] \in s.known
        /\ \A c \in Sent(u) \ {s.send} :
             /\ against[c] # against[s.send]
             /\ \E d \in Sent(w) : against[d] = c
    BY <1>3, <2>1 DEF InStep
  <2>4. QED
    BY <1>2, <2>2, <2>3 DEF InStep
<1>10. ASSUME NEW w \in Users, w # u, NEW q \in Records(w) PROVE InStep(w, u, q)'
  <2>1. InStep(w, u, q)
    BY <1>10 DEF Ratcheting
  <2>2. r.send \in q.known \/ against[r.send] = q.send
    BY <1>6, <1>10, <2>1 DEF InStep
  <2>3. q.send >= FirstChain /\ q.send \notin Sent(w) => s.send = against[q.send]
    BY <1>3, <1>6, <2>1 DEF InStep
  <2>4. QED
    BY <1>2, <1>4, <1>7, <1>10, <2>1, <2>2, <2>3 DEF InStep
<1>11. \A w \in Users, q \in Record : UsedAreRead(w, q) => UsedAreRead(w, q)'
  BY <1>1 DEF UsedAreRead, Key
<1>12. ASSUME NEW w \in Users, NEW v \in Users, w # v
       PROVE  /\ \A q \in Records(w)' : InStep(w, v, q)' /\ UsedAreRead(w, q)'
              /\ \A p \in Ops : op'[w][p].kind = "encrypt" => op'[w][p].record = session'[w]
  <2>1. CASE w = u
    <3>1. UsedAreRead(u, s)
      BY <1>3, <1>6, <1>12, <2>1 DEF UsedAreRead
    <3>2. UsedAreRead(u, s)' /\ InStep(u, v, s)'
      BY <1>3, <1>9, <1>11, <1>12, <2>1, <3>1
    <3>3. \A p \in Ops : op'[u][p].kind # "encrypt"
      BY <1>2, <1>5
    <3>4. QED
      BY <1>7, <2>1, <3>2, <3>3
  <2>2. CASE w # u
    <3>1. v = u
      BY <1>12, <2>2, TwoUsers
    <3>2. \A q \in Records(w) : q \in Record /\ UsedAreRead(w, q)
      BY <1>12, RecordTypes DEF Ratcheting
    <3>3. \A p \in Ops : op[w][p].kind = "encrypt" => op[w][p].record = session[w]
      BY <1>12 DEF Ratcheting
    <3>4. QED
      BY <1>1, <1>2, <1>8, <1>10, <1>11, <2>2, <3>1, <3>2, <3>3
  <2>3. QED
    BY <2>1, <2>2
<1>13. QED
  BY <1>12 DEF Ratcheting

\* Who opens the first message of a chain finds every record of the peer on it.
LEMMA PeerIsOnChain ==
  ASSUME TypeOK, Numbering, Answering, Ratcheting,
         \A w \in Users : "encrypt" \notin overlapped[w],
         NEW u \in Users, NEW v \in Users, u # v, NEW r \in Records(u),
         NEW d \in Sent(v), d \notin r.known, against[d] = r.send,
         NEW q \in Records(v)
  PROVE  q.send = d
<1> SUFFICES ASSUME q.send # d PROVE FALSE
  OBVIOUS
<1>1. InStep(u, v, r) /\ InStep(v, u, q)
  BY DEF Ratcheting
<1>2. PICK e \in Sent(u) : against[e] = d
  BY <1>1 DEF InStep
<1>3. /\ d \in FirstChain..Len(against) /\ e \in FirstChain..Len(against)
      /\ Len(against) \in Nat /\ DOMAIN against = 1..Len(against)
  BY RecordTypes
<1>4. e # FirstChain /\ e > FirstChain /\ d \in FirstChain..(e - 1)
  BY <1>2, <1>3 DEF Answering, FirstChain, SignedPreKey
<1>5. e = r.send
  BY <1>1, <1>2, <1>4 DEF InStep
<1>6. d > FirstChain => against[d] \in FirstChain..(d - 1)
  BY <1>3 DEF Answering, FirstChain
<1>7. d = FirstChain => against[d] = SignedPreKey
  BY DEF Answering
<1>8. QED
  BY <1>3, <1>4, <1>5, <1>6, <1>7 DEF FirstChain, SignedPreKey

\* A decryption that keeps its chain leaves the ratchets where they are; one that
\* turns the ratchet takes the place that the peer's records leave it.
LEMMA DecryptRatcheting ==
  ASSUME TypeOK, Numbering, Advancing, Answering, Ratcheting,
         NEW u \in Users, NEW o \in Ops, EndDecrypt(u, o)
  PROVE  Ratcheting'
<1>0. PICK r, i, m, x : /\ r = op[u][o].record /\ i = op[u][o].msg
                        /\ m = posted[i] /\ x = Opened(r, m)
  OBVIOUS
<1>1. /\ r \in Record /\ i \in DOMAIN posted /\ m \in Message /\ m.from # u
      /\ posted' = posted
      /\ \A w \in Users : session'[w] = IF w = u THEN x ELSE session[w]
      /\ \A j \in DOMAIN posted : reads'[j] = IF j = i THEN reads[j] + 1 ELSE reads[j]
  <2> DEFINE R == op[u][o].record
             I == op[u][o].msg
             M == posted[I]
  <2>1. /\ R \in Record /\ I \in DOMAIN posted /\ M \in Message /\ M.from # u
        /\ \A w \in Users : session'[w] = IF w = u THEN Opened(R, M) ELSE session[w]
        /\ \A j \in DOMAIN posted : reads'[j] = IF j = I THEN reads[j] + 1 ELSE reads[j]
    BY EndDecryptEffect
  <2>2. posted' = posted
    BY DEF EndDecrypt
  <2>3. R = r /\ I = i /\ M = m /\ Opened(R, M) = x
    BY <1>0
  <2> HIDE DEF R, I, M
  <2>4. QED
    BY <2>1, <2>2, <2>3
<1>2. /\ overlapped' = overlapped
      /\ \A w \in Users, p \in Ops : op'[w][p] = IF w = u /\ p = o THEN Idle ELSE op[w][p]
      /\ op[u][o] # Idle /\ Idle.kind = "idle"
  BY EndEffect DEF EndDecrypt, Idle
<1>3. x \in Record
  BY <1>0, <1>1, OpenedType
<1> SUFFICES ASSUME \A w \in Users : "encrypt" \notin overlapped[w] PROVE Ratcheting'
  BY <1>2 DEF Ratcheting
<1>4. PICK v \in Users : v = m.from /\ v # u
  BY <1>1 DEF Message
<1>5. r \in Records(u) /\ InStep(u, v, r) /\ UsedAreRead(u, r)
  BY <1>0, <1>2, <1>4 DEF Ratcheting, Records
<1>6. /\ Len(against) \in Nat /\ DOMAIN against = 1..Len(against)
      /\ Sent(u) \subseteq FirstChain..Len(against) /\ Sent(v) \subseteq FirstChain..Len(against)
      /\ \A w \in Users : \A q \in Records(w) : q \in Record /\ q.send \in 1..Len(against)
  BY RecordTypes DEF FirstChain, SignedPreKey, Numbering
<1>7. Records(u)' \subseteq Records(u) \cup {x}
  <2>1. Copy(u)' = x
    BY <1>1, <1>3, NoSessionAssumption DEF Copy
  <2>2. QED
    BY <1>2, <2>1 DEF Records
<1>8. \A w \in Users : w # u => Records(w)' = Records(w)
  <2>1. \A w \in Users : w # u => Copy(w)' = Copy(w)
    BY <1>1 DEF Copy
  <2>2. QED
    BY <1>2, <2>1 DEF Records
<1>9. \A w \in Users : Sent(w)' = Sent(w)
  BY <1>1 DEF Sent
<1>10. m.chain \in Sent(v) /\ m.chain \in FirstChain..Len(against)
  BY <1>0, <1>1, <1>4, <1>6 DEF Sent
<1>11. x.used = r.used \cup {Key(m)}
  BY <1>0, <1>1 DEF Opened, Record
<1>12. /\ InStep(u, v, x)'
       /\ \A q \in Records(u) : InStep(u, v, q)'
       /\ \A q \in Records(v) : InStep(v, u, q)'
  <2>0. /\ \A q \in Records(u) : InStep(u, v, q)
        /\ \A q \in Records(v) : InStep(v, u, q)
    BY <1>4 DEF Ratcheting
  <2>1. CASE m.chain \in r.known
    <3>1. x.send = r.send /\ x.known = r.known
      BY <1>0, <1>1, <2>1 DEF Opened, Record
    <3>2. against' = against
      BY <1>0, <2>1 DEF EndDecrypt
    <3>3. InStep(u, v, x)'
      BY <1>4, <1>5, <1>8, <1>9, <3>1, <3>2 DEF InStep
    <3>4. ASSUME NEW q \in Records(u) PROVE InStep(u, v, q)'
      BY <1>4, <1>8, <1>9, <2>0, <3>2 DEF InStep
    <3>5. ASSUME NEW q \in Records(v) PROVE InStep(v, u, q)'
      <4>1. InStep(v, u, q)
        BY <2>0
      <4>2. q.send >= FirstChain /\ q.send \notin Sent(v) =>
              \A s \in Records(u)' : s.send = against[q.send]
        BY <1>5, <1>7, <3>1, <4>1 DEF InStep
      <4>3. QED
        BY <1>9, <3>2, <4>1, <4>2 DEF InStep
    <3>6. QED
      BY <3>3, <3>4, <3>5
  <2>2. CASE m.chain \notin r.known
    <3>1. PICK d, n : d = m.chain /\ n = Len(against) + 1
      OBVIOUS
    <3>2. x.send = n /\ x.known = r.known \cup {d} /\ n \notin 1..Len(against) /\ n > FirstChain
      <4>1. x.send = n /\ x.known = r.known \cup {d}
        BY <1>0, <2>2, <3>1 DEF Opened
      <4>2. n \notin 1..Len(against) /\ n > FirstChain
        BY <1>6, <1>10, <3>1 DEF FirstChain
      <4>3. QED
        BY <4>1, <4>2
    <3>3. /\ \A c \in 1..Len(against) : against'[c] = against[c]
          /\ against'[n] = d
      <4>1. against' = Append(against, d)
        BY <1>0, <2>2, <3>1 DEF EndDecrypt
      <4>2. against \in Seq(Nat) /\ d \in Nat
        BY <1>1, <3>1 DEF TypeOK, Message
      <4>3. QED
        BY <3>1, <4>1, <4>2, AppendProperties
    <3>4. d \in Sent(v) /\ d \in FirstChain..Len(against) /\ d \notin r.known
          /\ against[d] = r.send
      BY <1>0, <1>10, <2>2, <3>1 DEF EndDecrypt, Opens
    <3>5. \A q \in Records(v) : q.send = d
      BY <1>4, <1>5, <3>4, PeerIsOnChain
    <3>6. \A c \in Sent(u) \cup Sent(v) : c \in 1..Len(against) /\ against'[c] = against[c]
      BY <1>6, <3>3 DEF FirstChain
    <3>7. \A w \in Users : \A q \in Records(w) : against'[q.send] = against[q.send]
      BY <1>6, <3>3
    <3>8. InStep(u, v, x)'
      <4>1. ASSUME NEW c \in Sent(v) PROVE c \in x.known \/ against'[c] = x.send
        <5>1. CASE against[c] = r.send
          <6>1. Copy(v) \in Records(v)
            BY RecordTypes
          <6>2. InStep(v, u, Copy(v)) /\ Copy(v).send = d
            BY <2>0, <3>5, <6>1
          <6>3. c = d
            BY <3>4, <5>1, <6>2 DEF InStep
          <6>4. QED
            BY <3>2, <6>3
        <5>2. CASE c \in r.known
          BY <3>2, <5>2
        <5>3. QED
          BY <1>5, <5>1, <5>2 DEF InStep
      <4>2. ASSUME NEW c \in Sent(u), c # FirstChain PROVE against[c] \in r.known
        <5>1. c > FirstChain
          BY <1>6, <4>2 DEF FirstChain
        <5>2. QED
          BY <1>5, <4>2, <5>1 DEF InStep
      <4>3. ASSUME NEW c \in Sent(u) PROVE against[c] # d
        <5>1. CASE c = FirstChain
          BY <3>4, <5>1 DEF Answering, FirstChain, SignedPreKey
        <5>2. CASE c # FirstChain
          BY <3>4, <4>2, <5>2
        <5>3. QED
          BY <5>1, <5>2
      <4>4. ASSUME NEW c \in Sent(u) PROVE \E e \in Sent(v) : against'[e] = c
        <5>1. CASE c = r.send
          BY <3>4, <3>6, <5>1
        <5>2. CASE c # r.send
          BY <1>5, <3>6, <5>2 DEF InStep
        <5>3. QED
          BY <5>1, <5>2
      <4>5. \A s \in Records(v)' : s.send = against'[x.send]
        BY <1>4, <1>8, <3>2, <3>3, <3>5
      <4>6. /\ \A c \in Sent(u) \ {FirstChain, x.send} : against'[c] \in x.known
            /\ x.send > FirstChain => against'[x.send] \in x.known
            /\ \A c \in Sent(u) \ {x.send} : against'[c] # against'[x.send]
        BY <3>2, <3>3, <3>6, <4>2, <4>3
      <4>7. QED
        BY <1>9, <4>1, <4>4, <4>5, <4>6 DEF InStep
    <3>9. ASSUME NEW q \in Records(u) PROVE InStep(u, v, q)'
      <4>1. InStep(u, v, q) /\ against'[q.send] = against[q.send]
        BY <2>0, <3>7
      <4>2. QED
        BY <1>4, <1>8, <1>9, <3>6, <4>1 DEF InStep
    <3>10. ASSUME NEW q \in Records(v) PROVE InStep(v, u, q)'
      <4>1. InStep(v, u, q) /\ against'[q.send] = against[q.send] /\ q.send \in Sent(v)
        BY <2>0, <3>4, <3>5, <3>7
      <4>2. QED
        BY <1>9, <3>6, <4>1 DEF InStep
    <3>11. QED
      BY <3>8, <3>9, <3>10
  <2>3. QED
    BY <2>1, <2>2
<1>13. \A w \in Users, q \in Record : UsedAreRead(w, q) => UsedAreRead(w, q)'
  <2>1. \A j \in DOMAIN posted : reads[j] > 0 => reads'[j] > 0
    BY <1>1, PostedTypes
  <2>2. QED
    BY <1>1, <2>1 DEF UsedAreRead, Key
<1>14. UsedAreRead(u, x)'
  <2>1. reads'[i] > 0
    BY <1>1, PostedTypes
  <2>2. UsedAreRead(u, r)'
    BY <1>1, <1>5, <1>13
  <2>3. QED
    BY <1>0, <1>1, <1>11, <2>1, <2>2 DEF UsedAreRead, Key
<1>15. ASSUME NEW w \in Users, NEW z \in Users, w # z
       PROVE  /\ \A q \in Records(w)' : InStep(w, z, q)' /\ UsedAreRead(w, q)'
              /\ \A p \in Ops : op'[w][p].kind = "encrypt" => op'[w][p].record = session'[w]
  <2>1. \A q \in Records(w) : UsedAreRead(w, q)'
    BY <1>6, <1>13, <1>15 DEF Ratcheting
  <2>2. CASE w = u
    <3>1. z = v
      BY <1>4, <1>15, <2>2, TwoUsers
    <3>2. \A p \in Ops : op'[u][p].kind # "encrypt"
      BY <1>2 DEF Advancing
    <3>3. QED
      BY <1>7, <1>12, <1>14, <2>1, <2>2, <3>1, <3>2
  <2>3. CASE w # u
    <3>1. w = v /\ z = u
      BY <1>4, <1>15, <2>3, TwoUsers
    <3>2. \A p \in Ops : op[w][p].kind = "encrypt" => op[w][p].record = session[w]
      BY <1>15 DEF Ratcheting
    <3>3. QED
      BY <1>1, <1>2, <1>8, <1>12, <2>1, <2>3, <3>1, <3>2
  <2>4. QED
    BY <2>2, <2>3
<1>16. QED
  BY <1>15 DEF Ratcheting

LEMMA RatchetingStep ==
  ASSUME TypeOK, Numbering, Advancing, Answering, Ratcheting, [Next]_vars
  PROVE  Ratcheting'
<1>1. ASSUME NEW u \in Users, NEW o \in Ops, BeginEncrypt(u, o) PROVE Ratcheting'
  <2>1. PICK x : x = [kind |-> "encrypt", record |-> GetSession(u), msg |-> 0]
    OBVIOUS
  <2>2. /\ x \in Op /\ Begin(u, o, x) /\ UNCHANGED <<session, against, posted, reads>>
        /\ x.record = Copy(u) /\ x.record = session[u]
    BY <1>1, <2>1 DEF BeginEncrypt, TypeOK, GetSession, Op, Copy
  <2>3. QED
    BY <2>2, BeginRatcheting
<1>2. ASSUME NEW u \in Users, NEW o \in Ops, NEW i \in DOMAIN posted, BeginDecrypt(u, o, i)
      PROVE Ratcheting'
  <2>1. PICK x : x = [kind |-> "decrypt", record |-> Copy(u), msg |-> i]
    OBVIOUS
  <2>2. /\ x \in Op /\ Begin(u, o, x) /\ UNCHANGED <<session, against, posted, reads>>
        /\ x.record = Copy(u) /\ x.kind = "decrypt"
    BY <1>2, <2>1, BeginTypes DEF BeginDecrypt, GetSession, Copy
  <2>3. QED
    BY <2>2, BeginRatcheting
<1>3. ASSUME NEW u \in Users, NEW o \in Ops, Abandon(u, o) PROVE Ratcheting'
  <2>1. /\ overlapped' = overlapped /\ UNCHANGED <<session, against, posted, reads>>
        /\ \A v \in Users, p \in Ops :
             op'[v][p] = IF v = u /\ p = o THEN Idle ELSE op[v][p]
        /\ Idle.kind = "idle"
    BY <1>3, EndEffect DEF Abandon, Idle
  <2>2. \A v \in Users : Records(v)' \subseteq Records(v)
    <3>1. \A v \in Users : Copy(v)' = Copy(v)
      BY <2>1 DEF Copy
    <3>2. QED
      BY <2>1, <3>1 DEF Records
  <2>3. QED
    BY <2>1, <2>2, RecordsShrink
<1>4. CASE UNCHANGED vars
  <2>1. UNCHANGED <<session, op, against, posted, reads, overlapped>>
    BY <1>4 DEF vars
  <2>2. \A v \in Users : Records(v)' = Records(v)
    BY <2>1 DEF Records, Copy
  <2>3. QED
    BY <2>1, <2>2, RecordsShrink
<1>5. QED
  BY <1>1, <1>2, <1>3, <1>4, EncryptRatcheting, DecryptRatcheting DEF Next

LEMMA InStepReads ==
  ASSUME TypeOK, Numbering, KeysAreUsedOnce, Answering, Ratcheting
  PROVE  UnreadStaysReadable
<1> SUFFICES ASSUME NEW i \in DOMAIN posted, NEW u \in Users, posted[i].from # u,
                    reads[i] = 0, \A w \in Users : "encrypt" \notin overlapped[w]
             PROVE  CanOpen(u, posted[i])
  BY DEF UnreadStaysReadable
<1> DEFINE c == posted[i].chain
           r == Copy(u)
<1>1. PICK v \in Users : v = posted[i].from /\ v # u
  BY PostedTypes
<1>2. InStep(u, v, r) /\ UsedAreRead(u, r) /\ c \in Sent(v)
  BY <1>1, RecordTypes DEF Ratcheting, Sent
<1>3. c \in r.known \/ against[c] = r.send
  BY <1>2 DEF InStep
<1>4. CASE session[u] = NoSession
  <2>1. against[c] = SignedPreKey
    BY <1>3, <1>4 DEF Copy, OnChain
  <2>2. c \in FirstChain..Len(against) /\ DOMAIN against = 1..Len(against)
        /\ Len(against) \in Nat
    BY <1>1, <1>2, RecordTypes
  <2>3. c = FirstChain
    BY <2>1, <2>2 DEF Answering, FirstChain, SignedPreKey
  <2>4. QED
    BY <1>4, <2>3 DEF CanOpen
<1>5. CASE session[u] # NoSession
  <2>1. ASSUME Key(posted[i]) \in r.used PROVE FALSE
    <3>1. PICK j \in DOMAIN posted :
            posted[j].from # u /\ Key(posted[j]) = Key(posted[i]) /\ reads[j] > 0
      BY <1>2, <2>1 DEF UsedAreRead
    <3>2. posted[j].from \in Users /\ posted[i].from \in Users
      BY PostedTypes
    <3>3. i # j /\ posted[j].from = posted[i].from
      BY <1>1, <3>1, <3>2, TwoUsers
    <3>4. QED
      BY <1>1, <3>1, <3>3 DEF KeysAreUsedOnce
  <2>2. QED
    BY <1>3, <1>5, <2>1 DEF CanOpen, Opens, Copy
<1>6. QED
  BY <1>4, <1>5

\* As long as no encryption overlaps with another operation of its user, each
\* user's records, in the store and in the hands of its operations, are in step
\* with those of the other.
THEOREM RatchetsStayInStep == Spec => [](Answering /\ Ratcheting)
<1>1. Init => Advancing /\ KeysAreUsedOnce /\ Answering /\ Ratcheting
  <2> SUFFICES ASSUME Init PROVE Advancing /\ KeysAreUsedOnce /\ Answering /\ Ratcheting
    OBVIOUS
  <2>1. Advancing /\ KeysAreUsedOnce
    BY DEF Init, Advancing, KeysAreUsedOnce, Ahead, Idle
  <2>2. OnChain(FirstChain) # NoSession
    BY OnChainType, NoSessionAssumption DEF FirstChain
  <2>3. Answering
    BY <2>2 DEF Init, Answering, Users, FirstChain, SignedPreKey
  <2>4. /\ Records("alice") = {OnChain(FirstChain)} /\ Records("bob") = {OnChain(SignedPreKey)}
        /\ Sent("alice") = {} /\ Sent("bob") = {}
    BY <2>2 DEF Init, Records, Copy, Sent, Users
  <2>5. against[FirstChain] = SignedPreKey
    BY <2>3 DEF Answering
  <2>6. \A u \in Users, o \in Ops : op[u][o].kind = "idle"
    BY DEF Init, Idle
  <2>7. \A u, v \in Users : u # v => \A r \in Records(u) : InStep(u, v, r) /\ UsedAreRead(u, r)
    <3>1. InStep("alice", "bob", OnChain(FirstChain)) /\ InStep("bob", "alice", OnChain(SignedPreKey))
      BY <2>4, <2>5 DEF InStep, OnChain, FirstChain, SignedPreKey
    <3>2. \A u \in Users, c \in Nat : UsedAreRead(u, OnChain(c))
      BY DEF UsedAreRead, OnChain
    <3>3. QED
      BY <2>4, <3>1, <3>2 DEF Users, FirstChain, SignedPreKey
  <2>8. QED
    BY <2>1, <2>3, <2>6, <2>7 DEF Ratcheting
<1>2. TypeOK /\ Numbering /\ Advancing /\ KeysAreUsedOnce /\ Answering /\ Ratcheting /\ [Next]_vars
        => Advancing' /\ KeysAreUsedOnce' /\ Answering' /\ Ratcheting'
  BY AdvancingStep, AnsweringStep, RatchetingStep
<1>3. QED
  BY <1>1, <1>2, TypeCorrect, PTL DEF Spec

\* Whatever order the relay delivers in, a message that was not read can be read
\* unless an encryption overlapped with another operation: what the overlapping
\* decryptions of a socket's handlers lose, the next delivery makes up for.
THEOREM UnreadIsReadable == Spec => []UnreadStaysReadable
<1>1. TypeOK /\ Numbering /\ KeysAreUsedOnce /\ Answering /\ Ratcheting => UnreadStaysReadable
  BY InStepReads
<1>2. QED
  BY <1>1, TypeCorrect, KeysStayUnique, RatchetsStayInStep, PTL

-----------------------------------------------------------------------------
(***************************************************************************)
(* The layers together.                                                    *)
(***************************************************************************)
\* The inductive layers hold throughout, with the properties read from them: what
\* a load and a save must preserve of a session record.
THEOREM Invariance == Spec => []IInv
<1>1. Init => Advancing /\ KeysAreUsedOnce /\ Remembering /\ ReadAtMostOnce
  BY DEF Init, Ahead, Advancing, KeysAreUsedOnce, Remembering, ReadAtMostOnce
<1>2. TypeOK /\ Numbering /\ Advancing /\ KeysAreUsedOnce /\ Remembering
        /\ ReadAtMostOnce /\ [Next]_vars
        => Advancing' /\ KeysAreUsedOnce' /\ Remembering' /\ ReadAtMostOnce'
  BY AdvancingStep, RememberingStep
<1>3. QED
  BY <1>1, <1>2, TypeCorrect, RatchetsStayInStep, UnreadIsReadable, PTL DEF Spec, IInv
=============================================================================
