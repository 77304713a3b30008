------------------------------ MODULE Cli_proofs ------------------------------
(***************************************************************************)
(* Cli: type correctness, OneKey and InboxIsOfPinned, for any number of    *)
(* processes, messages, passphrases and identities of the peer.            *)
(***************************************************************************)
EXTENDS Cli, SequenceTheorems, TLAPS

-----------------------------------------------------------------------------
(***************************************************************************)
(* The lists of accesses.                                                  *)
(***************************************************************************)
LEMMA TasksType ==
  /\ InitTasks \in Seq(Access) /\ ShowTasks \in Seq(Access) /\ ExportTasks \in Seq(Access)
  /\ ContactTasks \in Seq(Access) /\ EncryptTasks \in Seq(Access)
  /\ DecryptTasks \in Seq(Access)
  /\ \A m \in Msgs : HandlerTasks(m) \in Seq(Access)
  /\ \A c \in Commands : CommandTasks(c) \in Seq(Access)
  /\ ContactTasks \o EncryptTasks \in Seq(Access)
<1>1. /\ InitTasks \in Seq(Access) /\ ShowTasks \in Seq(Access) /\ ExportTasks \in Seq(Access)
      /\ ContactTasks \in Seq(Access) /\ EncryptTasks \in Seq(Access)
  BY DEF InitTasks, ShowTasks, ExportTasks, ContactTasks, EncryptTasks, Do, Access, Names
<1>2. DecryptTasks \in Seq(Access)
  BY DEF DecryptTasks, Do, Access, Names
<1>3. ASSUME NEW m \in Msgs PROVE HandlerTasks(m) \in Seq(Access)
  <2>1. SaveInboxMessage(m) \in Access
    BY DEF SaveInboxMessage, Do, Access, Names
  <2>2. QED
    BY <1>2, <2>1, AppendProperties DEF HandlerTasks
<1>4. /\ <<Do("lookup", "session")>> \in Seq(Access) /\ <<>> \in Seq(Access)
      /\ <<Do("list", "inbox")>> \in Seq(Access)
  BY EmptySeq DEF Do, Access, Names
<1>5. \A c \in Commands : CommandTasks(c) \in Seq(Access)
  BY <1>1, <1>2, <1>4 DEF CommandTasks, Commands
<1>6. ContactTasks \o EncryptTasks \in Seq(Access)
  BY <1>1, ConcatProperties
<1>7. QED
  BY <1>1, <1>2, <1>3, <1>5, <1>6

-----------------------------------------------------------------------------
(***************************************************************************)
(* Types, and who works for whom: only running processes have accesses to  *)
(* do, handlers at work, a socket or a place in the relay's map.           *)
(***************************************************************************)
Working ==
  /\ \A t \in Threads : todo[t] # <<>> => Owner(t) \in Procs /\ stage[Owner(t)] = "running"
  /\ \A p \in Procs : sock[p] # "none" => stage[p] = "running"
  /\ \A p \in Procs : conn = p => stage[p] = "running"
  /\ \A p \in Procs : stage[p] \in {"creating", "running"} => command[p] \in Commands

TInv == TypeOK /\ Working

LEMMA NoKeyType == NoKey \in Key /\ NoKey.salt = 0
  BY CliAssumption DEF NoKey, Key

LEMMA InitTInv == Init => TInv
<1> SUFFICES ASSUME Init PROVE TInv
  OBVIOUS
<1>1. [NoRow EXCEPT !.key.salt = 1] \in Row /\ NoRow \in Row
  BY NoKeyType DEF NoRow, Row, Key
<1>2. row \in [Names -> Row] /\ kdf \in 0..salts /\ salts \in Nat
  <2>1. CASE kdf = 0 /\ salts = 0 /\ row = [n \in Names |-> NoRow]
    BY <1>1, <2>1
  <2>2. CASE /\ kdf = 1 /\ salts = 1
             /\ row = [n \in Names |-> IF n \in {"identity", "prekeys"}
                                       THEN [NoRow EXCEPT !.key.salt = 1] ELSE NoRow]
    <3> DEFINE some == [NoRow EXCEPT !.key.salt = 1]
    <3>1. some \in Row
      BY <1>1
    <3> HIDE DEF some
    <3>2. row = [n \in Names |-> IF n \in {"identity", "prekeys"} THEN some ELSE NoRow]
      BY <2>2 DEF some
    <3>3. QED
      BY <1>1, <2>2, <3>1, <3>2
  <2>3. QED
    BY <2>1, <2>2 DEF Init
<1>3. todo \in [Threads -> Seq(Access)]
  BY EmptySeq DEF Init
<1>4. peerKey \in 1..MaxPeerKeys /\ by \in [Msgs -> 0..MaxPeerKeys]
  BY CliAssumption DEF Init
<1>5. TypeOK
  BY <1>2, <1>3, <1>4, NoKeyType DEF Init, TypeOK
<1>6. Working
  BY CliAssumption DEF Init, Working
<1>7. QED
  BY <1>5, <1>6 DEF TInv

\* What t does at the head of its list.
LEMMA TodoType ==
  ASSUME TypeOK, NEW t \in Threads, todo[t] # <<>>
  PROVE  /\ todo[t] \in Seq(Access) /\ Head(todo[t]) \in Access /\ Head(todo[t]) = todo[t][1]
         /\ Tail(todo[t]) \in Seq(Access)
         /\ Len(todo[t]) \in Nat /\ Len(todo[t]) >= 1
         /\ Len(Tail(todo[t])) = Len(todo[t]) - 1
         /\ \A i \in 1..(Len(todo[t]) - 1) : Tail(todo[t])[i] = todo[t][i + 1]
<1>1. todo[t] \in Seq(Access)
  BY DEF TypeOK
<1>2. QED
  BY <1>1, HeadTailProperties, LenProperties, EmptySeq

LEMMA OwnerWorks ==
  ASSUME TInv, NEW t \in Threads, todo[t] # <<>>
  PROVE  /\ Owner(t) \in Procs /\ stage[Owner(t)] = "running"
         /\ KeyOf(t) \in Key
  BY DEF TInv, Working, KeyOf, TypeOK

LEMMA EndTInv ==
  ASSUME TInv, NEW p \in Procs, End(p)
  PROVE  TInv'
<1> USE DEF TInv
<1>1. todo' \in [Threads -> Seq(Access)] /\ peer' \in [Threads -> Nat]
  BY EmptySeq DEF End, TypeOK
<1>2. TypeOK'
  BY <1>1, NoKeyType DEF End, TypeOK, storeVars, peerVars
<1>3. Working'
  <2>1. \A q \in Procs : stage'[q] = IF q = p THEN "ended" ELSE stage[q]
    BY DEF End, TypeOK
  <2>2. \A t \in Threads : Owner(t)' = Owner(t)
    BY DEF End, Owner
  <2>3. \A t \in Threads : todo'[t] = IF Owner(t) = p THEN <<>> ELSE todo[t]
    BY DEF End
  <2>4. \A q \in Procs : (q = p => sock'[q] = "none") /\ (q # p => sock'[q] = sock[q])
    BY DEF End, TypeOK
  <2>5. \A q \in Procs : conn' = q => q # p /\ conn = q
    BY CliAssumption DEF End
  <2>6. \A q \in Procs : q # p => command'[q] = command[q]
    BY DEF End, TypeOK
  <2>7. QED
    BY <2>1, <2>2, <2>3, <2>4, <2>5, <2>6 DEF Working
<1>4. QED
  BY <1>2, <1>3

\* A step that gives t another list, or other threads nothing.
LEMMA TodoStep ==
  ASSUME TInv, NEW t \in Threads, todo[t] # <<>>, NEW s \in Seq(Access),
         todo' = [todo EXCEPT ![t] = s], peer' \in [Threads -> Nat],
         row' \in [Names -> Row], overlap' \subseteq {"split", "contacted"},
         UNCHANGED <<kdf, salts, stage, command, key, peerVars, socketVars>>
  PROVE  TInv'
<1> USE DEF TInv
<1>1. TypeOK'
  BY DEF TypeOK, peerVars, socketVars
<1>2. \A u \in Threads : Owner(u)' = Owner(u)
  BY DEF Owner, socketVars
<1>3. \A u \in Threads : u # t => todo'[u] = todo[u]
  BY DEF TypeOK
<1>4. Working'
  BY <1>2, <1>3 DEF Working, socketVars
<1>5. QED
  BY <1>1, <1>4

LEMMA DeriveTInv ==
  ASSUME TInv, NEW p \in Procs, NEW c \in Commands, NEW w \in Passphrases, NEW salt \in Nat,
         Derive(p, c, w, salt), stage[p] \in {"idle", "creating"}
  PROVE  /\ stage' \in [Procs -> {"idle", "creating", "running", "ended"}]
         /\ key' \in [Procs -> Key] /\ todo' \in [Threads -> Seq(Access)]
         /\ sock' \in [Procs -> {"none", "connecting", "open", "closing"}]
         /\ (owner' = owner /\ conn' = conn
               /\ (\A q \in Procs : command'[q] = IF q = p THEN c ELSE command[q])
             => Working')
<1> USE DEF TInv
<1>1. CommandTasks(c) \in Seq(Access)
  BY TasksType
<1>2. /\ stage' \in [Procs -> {"idle", "creating", "running", "ended"}]
      /\ key' \in [Procs -> Key] /\ todo' \in [Threads -> Seq(Access)]
      /\ sock' \in [Procs -> {"none", "connecting", "open", "closing"}]
  BY <1>1 DEF Derive, TypeOK, Key, Threads
<1>3. ASSUME owner' = owner, conn' = conn,
             \A q \in Procs : command'[q] = IF q = p THEN c ELSE command[q]
      PROVE  Working'
  <2>1. \A q \in Procs : stage'[q] = IF q = p THEN "running" ELSE stage[q]
    BY DEF Derive, TypeOK
  <2>2. \A t \in Threads : Owner(t)' = Owner(t)
    BY <1>3 DEF Owner
  <2>3. \A t \in Threads : t # p => todo'[t] = todo[t]
    BY DEF Derive, TypeOK
  <2>4. \A q \in Procs : q # p => sock'[q] = sock[q]
    BY DEF Derive, TypeOK
  <2>5. Owner(p) = p
    BY DEF Owner
  <2>6. QED
    BY <1>3, <2>1, <2>2, <2>3, <2>4, <2>5 DEF Working
<1>4. QED
  BY <1>2, <1>3

LEMMA OpenTInv ==
  ASSUME TInv, NEW p \in Procs, NEW c \in Commands, NEW w \in Passphrases,
         NEW k \in 1..peerKey, Open(p, c, w, k)
  PROVE  TInv'
<1> USE DEF TInv
<1>1. /\ peer' \in [Threads -> Nat] /\ command' \in [Procs -> Commands \cup {"none"}]
      /\ UNCHANGED <<kdf, salts, row, peerKey, by, owner, conn, exiting>>
  BY DEF Open, TypeOK, storeVars, peerVars, Threads
<1>2. /\ kdf \in Nat /\ stage[p] = "idle"
      /\ \A q \in Procs : command'[q] = IF q = p THEN c ELSE command[q]
  BY DEF TypeOK, Open
<1>3. CASE kdf # 0
  <2>1. Derive(p, c, w, kdf) /\ overlap' = overlap
    BY <1>3 DEF Open, FoundSalt
  <2>2. /\ stage' \in [Procs -> {"idle", "creating", "running", "ended"}]
        /\ key' \in [Procs -> Key] /\ todo' \in [Threads -> Seq(Access)]
        /\ sock' \in [Procs -> {"none", "connecting", "open", "closing"}]
        /\ Working'
    BY <1>1, <1>2, <2>1, DeriveTInv
  <2>3. TypeOK'
    BY <1>1, <2>1, <2>2 DEF TypeOK
  <2>4. QED
    BY <2>2, <2>3
<1>4. CASE kdf = 0
  <2>1. /\ stage' = [stage EXCEPT ![p] = "creating"]
        /\ key' = [key EXCEPT ![p].pass = w]
        /\ overlap' \subseteq overlap \cup {"split"}
        /\ UNCHANGED <<todo, sock>>
    BY <1>4 DEF Open, FoundSalt
  <2>2. TypeOK'
    <3>1. [key[p] EXCEPT !.pass = w] \in Key
      <4>1. key[p] \in Key
        BY DEF TypeOK
      <4>2. QED
        BY <4>1 DEF Key
    <3>2. key' \in [Procs -> Key]
      BY <2>1, <3>1 DEF TypeOK
    <3>3. stage' \in [Procs -> {"idle", "creating", "running", "ended"}]
      BY <2>1 DEF TypeOK
    <3>4. QED
      BY <1>1, <2>1, <3>2, <3>3 DEF TypeOK
  <2>3. \A q \in Procs : stage'[q] = IF q = p THEN "creating" ELSE stage[q]
    BY <2>1 DEF TypeOK
  <2>4. \A t \in Threads : Owner(t)' = Owner(t)
    BY <1>1 DEF Owner
  <2>5. Working'
    BY <1>1, <1>2, <2>1, <2>3, <2>4 DEF Working
  <2>6. QED
    BY <2>2, <2>5
<1>5. QED
  BY <1>3, <1>4

LEMMA CreateTInv ==
  ASSUME TInv, NEW p \in Procs, Create(p)
  PROVE  TInv'
<1> USE DEF TInv
<1>1. /\ stage[p] = "creating" /\ salts' = salts + 1 /\ kdf' = salts + 1
      /\ UNCHANGED <<row, command, peer, peerKey, by, owner, conn, exiting, overlap>>
  BY DEF Create, peerVars
<1>2. command[p] \in Commands /\ key[p].pass \in Passphrases /\ salts + 1 \in Nat
  BY <1>1 DEF Working, TypeOK, Key
<1>3. Derive(p, command[p], key[p].pass, salts + 1)
  BY DEF Create
<1>4. /\ stage' \in [Procs -> {"idle", "creating", "running", "ended"}]
      /\ key' \in [Procs -> Key] /\ todo' \in [Threads -> Seq(Access)]
      /\ sock' \in [Procs -> {"none", "connecting", "open", "closing"}]
      /\ Working'
  BY <1>1, <1>2, <1>3, DeriveTInv
<1>5. TypeOK'
  BY <1>1, <1>2, <1>4 DEF TypeOK
<1>6. QED
  BY <1>4, <1>5

LEMMA AccessTInv ==
  ASSUME TInv, NEW t \in Threads, Read(t) \/ LookUp(t) \/ Write(t) \/ Throw(t)
  PROVE  TInv'
<1>1. TypeOK /\ todo[t] # <<>>
  BY DEF TInv, Read, LookUp, Write, Throw
<1>2. Tail(todo[t]) \in Seq(Access) /\ Head(todo[t]) \in Access /\ KeyOf(t) \in Key
  BY <1>1, TodoType, OwnerWorks
<1>3. CASE Read(t)
  <2>1. peer' \in [Threads -> Nat]
    BY <1>1, <1>3 DEF Read, TypeOK, Row, Names
  <2>2. todo' = [todo EXCEPT ![t] = Tail(todo[t])]
    BY <1>3 DEF Read
  <2>3. overlap' \subseteq {"split", "contacted"}
    BY <1>1, <1>3 DEF Read, TypeOK
  <2>4. QED
    BY <1>1, <1>2, <1>3, <2>1, <2>2, <2>3, TodoStep DEF Read, storeVars, TypeOK
<1>4. CASE LookUp(t)
  <2>1. PICK s \in Seq(Access) : todo' = [todo EXCEPT ![t] = s]
    BY <1>4, TasksType DEF LookUp
  <2>2. QED
    BY <1>1, <1>4, <2>1, TodoStep DEF LookUp, storeVars, TypeOK
<1>5. CASE Write(t)
  <2>1. todo' = [todo EXCEPT ![t] = Tail(todo[t])]
    BY <1>5 DEF Write
  <2>2. row' \in [Names -> Row]
    <3>1. [key |-> KeyOf(t), of |-> peer[t]] \in Row
      BY <1>1, <1>2 DEF Row, TypeOK
    <3>2. QED
      BY <1>1, <1>5, <3>1 DEF Write, TypeOK
  <2>3. overlap' \subseteq {"split", "contacted"}
    BY <1>1, <1>5 DEF Write, TypeOK
  <2>4. QED
    BY <1>1, <1>2, <1>5, <2>1, <2>2, <2>3, TodoStep DEF Write, TypeOK
<1>6. CASE Throw(t) /\ t \in Procs
  BY <1>6, EndTInv DEF Throw
<1>7. CASE Throw(t) /\ t \notin Procs
  <2>1. /\ todo' = [todo EXCEPT ![t] = <<>>] /\ peer' = [peer EXCEPT ![t] = 0]
        /\ UNCHANGED <<storeVars, stage, command, key, peerVars, socketVars, overlap>>
    BY <1>7 DEF Throw
  <2>2. <<>> \in Seq(Access) /\ peer' \in [Threads -> Nat]
    BY <1>1, <2>1, EmptySeq DEF TypeOK
  <2>3. QED
    BY <1>1, <2>1, <2>2, TodoStep DEF storeVars, TypeOK
<1>8. QED
  BY <1>3, <1>4, <1>5, <1>6, <1>7

LEMMA SocketTInv ==
  ASSUME TInv, NEW p \in Procs,
         \/ Upgrade(p) \/ Closed(p) \/ ForceExit(p) \/ OnSignal(p) \/ Ends(p) \/ Dies(p)
  PROVE  TInv'
<1> USE DEF TInv
<1>1. CASE End(p)
  BY <1>1, EndTInv
<1>2. CASE Upgrade(p)
  <2>1. /\ sock' \in [Procs -> {"none", "connecting", "open", "closing"}] /\ conn' = p
        /\ \A q \in Procs : sock'[q] # "none" => sock[q] # "none" \/ conn = q
    BY <1>2 DEF Upgrade, TypeOK
  <2>2. TypeOK'
    BY <1>2, <2>1 DEF Upgrade, TypeOK, storeVars, peerVars
  <2>3. \A t \in Threads : Owner(t)' = Owner(t)
    BY <1>2 DEF Upgrade, Owner
  <2>4. Working'
    BY <1>2, <2>1, <2>3 DEF Upgrade, Working
  <2>5. QED
    BY <2>2, <2>4
<1>3. CASE OnSignal(p) /\ IsActive(p)
  <2>1. /\ sock' = [sock EXCEPT ![p] = "closing"] /\ exiting' = [exiting EXCEPT ![p] = TRUE]
        /\ sock[p] # "none"
        /\ UNCHANGED <<storeVars, stage, command, key, todo, peer, peerVars, owner, conn, overlap>>
    BY <1>3 DEF OnSignal, IsActive
  <2>2. TypeOK'
    BY <2>1 DEF TypeOK, storeVars, peerVars
  <2>3. \A t \in Threads : Owner(t)' = Owner(t)
    BY <2>1 DEF Owner
  <2>4. \A q \in Procs : sock'[q] # "none" => sock[q] # "none"
    BY <2>1 DEF TypeOK
  <2>5. Working'
    BY <2>1, <2>3, <2>4 DEF Working
  <2>6. QED
    BY <2>2, <2>5
<1>4. QED
  BY <1>1, <1>2, <1>3 DEF Closed, ForceExit, OnSignal, Ends, Dies

LEMMA NextTInv == TInv /\ [Next]_vars => TInv'
<1> SUFFICES ASSUME TInv, [Next]_vars PROVE TInv'
  OBVIOUS
<1> USE DEF TInv
<1>1. CASE UNCHANGED vars
  BY <1>1 DEF vars, TypeOK, Working, Owner
<1>2. ASSUME NEW p \in Procs, NEW c \in Commands, NEW w \in Passphrases, NEW k \in 1..peerKey,
             Open(p, c, w, k)
      PROVE  TInv'
  BY <1>2, OpenTInv
<1>3. ASSUME NEW p \in Procs, Create(p) PROVE TInv'
  BY <1>3, CreateTInv
<1>4. ASSUME NEW p \in Procs,
             \/ Ends(p) \/ Dies(p) \/ Upgrade(p) \/ OnSignal(p) \/ ForceExit(p) \/ Closed(p)
      PROVE  TInv'
  BY <1>4, SocketTInv
<1>5. ASSUME NEW t \in Threads, Read(t) \/ LookUp(t) \/ Write(t) \/ Throw(t) PROVE TInv'
  BY <1>5, AccessTInv
<1>6. CASE PeerStartsOver \/ \E m \in Msgs : PeerSends(m)
  <2>1. peerKey' \in 1..MaxPeerKeys /\ by' \in [Msgs -> 0..MaxPeerKeys]
    <3>1. peerKey \in Nat /\ MaxPeerKeys \in Nat /\ peerKey \in 1..MaxPeerKeys
      BY CliAssumption DEF TypeOK
    <3>2. CASE PeerStartsOver
      BY <3>1, <3>2 DEF PeerStartsOver, TypeOK
    <3>3. ASSUME NEW m \in Msgs, PeerSends(m)
          PROVE  peerKey' \in 1..MaxPeerKeys /\ by' \in [Msgs -> 0..MaxPeerKeys]
      BY <3>1, <3>3 DEF PeerSends, TypeOK
    <3>4. QED
      BY <1>6, <3>2, <3>3
  <2>2. UNCHANGED <<storeVars, stage, command, key, peer, todo, socketVars, overlap>>
    BY <1>6 DEF PeerStartsOver, PeerSends
  <2>3. TypeOK'
    BY <2>1, <2>2, SMTT(30) DEF TypeOK, storeVars, socketVars
  <2>4. Working'
    BY <1>6 DEF PeerStartsOver, PeerSends, Working, Owner, socketVars
  <2>5. QED
    BY <2>3, <2>4
<1>7. ASSUME NEW p \in Procs, NEW m \in Msgs, OnMessage(p, m) PROVE TInv'
  <2>1. m \in Threads /\ m \notin Procs /\ HandlerTasks(m) \in Seq(Access) /\ by[m] \in Nat
    BY TasksType, CliAssumption DEF Threads, TypeOK
  <2>2. /\ owner' = [owner EXCEPT ![m] = p] /\ peer' = [peer EXCEPT ![m] = by[m]]
        /\ todo' = [todo EXCEPT ![m] = HandlerTasks(m)]
        /\ sock[p] # "none"
        /\ UNCHANGED <<storeVars, stage, command, key, peerVars, sock, conn, exiting, overlap>>
    BY <1>7 DEF OnMessage
  <2>3. TypeOK'
    BY <2>1, <2>2 DEF TypeOK, storeVars, peerVars
  <2>4. /\ Owner(m)' = p /\ \A t \in Threads : t # m => Owner(t)' = Owner(t) /\ todo'[t] = todo[t]
    BY <2>1, <2>2 DEF Owner, TypeOK, Threads
  <2>5. Working'
    BY <2>2, <2>4 DEF Working
  <2>6. QED
    BY <2>3, <2>5
<1>8. QED
  BY <1>1, <1>2, <1>3, <1>4, <1>5, <1>6, <1>7 DEF Next

\* Every variable keeps its type, and only running processes are at work.
THEOREM TypeCorrect == Spec => []TypeOK
<1>1. Spec => []TInv
  BY InitTInv, NextTInv, PTL DEF Spec
<1>2. QED
  BY <1>1, PTL DEF TInv

-----------------------------------------------------------------------------
(***************************************************************************)
(* OneKey.  What is written, but for the identity, is written after the    *)
(* identity or the session was read, so with the key of the identity.      *)
(***************************************************************************)
Needs == {Do("need", "identity"), Do("need", "session")}

Keyed(a) == a.op = "put" /\ a.name # "identity"

\* In the list s such a write comes after such a read.
Guards(s) == \A i \in 1..Len(s) : Keyed(s[i]) => \E j \in 1..(i - 1) : s[j] \in Needs

LEMMA GuardsOfConcat ==
  ASSUME NEW S, NEW s \in Seq(S), NEW t \in Seq(S), Guards(s), Guards(t)
  PROVE  Guards(s \o t)
<1> DEFINE st == s \o t
<1>1. /\ Len(s) \in Nat /\ Len(t) \in Nat /\ Len(st) = Len(s) + Len(t)
      /\ \A i \in 1..Len(s) : st[i] = s[i]
      /\ \A i \in 1..Len(t) : st[Len(s) + i] = t[i]
  BY ConcatProperties, LenProperties
<1> HIDE DEF st
<1>2. ASSUME NEW i \in 1..Len(st), Keyed(st[i]) PROVE \E j \in 1..(i - 1) : st[j] \in Needs
  <2>1. CASE i <= Len(s)
    <3>1. i \in 1..Len(s) /\ st[i] = s[i]
      BY <1>1, <2>1
    <3>2. PICK j \in 1..(i - 1) : s[j] \in Needs
      BY <1>2, <3>1 DEF Guards
    <3>3. st[j] \in Needs
      BY <1>1, <2>1, <3>2
    <3>4. QED
      BY <3>3
  <2>2. CASE ~(i <= Len(s))
    <3> DEFINE k == i - Len(s)
    <3>1. k \in 1..Len(t) /\ i = Len(s) + k
      BY <1>1, <2>2
    <3>2. st[i] = t[k]
      BY <1>1, <3>1
    <3>3. PICK j \in 1..(k - 1) : t[j] \in Needs
      BY <1>2, <3>1, <3>2 DEF Guards
    <3>4. j \in 1..Len(t) /\ Len(s) + j \in 1..(i - 1)
      BY <1>1, <3>1
    <3>5. st[Len(s) + j] \in Needs
      BY <1>1, <3>3, <3>4
    <3>6. QED
      BY <3>4, <3>5
  <2>3. QED
    BY <2>1, <2>2
<1>3. QED
  BY <1>2 DEF Guards, st

LEMMA OfAppend ==
  ASSUME NEW S, NEW s \in Seq(S), NEW x \in S
  PROVE  /\ Len(Append(s, x)) = Len(s) + 1
         /\ \A i \in 1..Len(s) : Append(s, x)[i] = s[i]
  BY AppendProperties

LEMMA LastOfAppend ==
  ASSUME NEW S, NEW s \in Seq(S), NEW x \in S
  PROVE  Append(s, x)[Len(s) + 1] = x
  BY AppendProperties

LEMMA ListsGuard ==
  /\ \A c \in Commands : Guards(CommandTasks(c))
  /\ \A m \in Msgs : Guards(HandlerTasks(m))
  /\ Guards(EncryptTasks) /\ Guards(ContactTasks \o EncryptTasks)
<1>1. Guards(InitTasks)
  BY DEF Guards, InitTasks, Keyed, Do, Needs
<1>2. Guards(ShowTasks) /\ Guards(<<>>)
  BY DEF Guards, ShowTasks
<1>3. Guards(ExportTasks)
  BY DEF Guards, ExportTasks, Keyed, Do
<1>4. Guards(ContactTasks)
  <2>1. ContactTasks[3] \in Needs /\ Len(ContactTasks) = 6
    BY DEF ContactTasks, Needs
  <2>2. \A i \in 1..3 : ~Keyed(ContactTasks[i])
    BY DEF ContactTasks, Keyed, Do
  <2>3. QED
    BY <2>1, <2>2 DEF Guards
<1>5. Guards(EncryptTasks)
  <2>1. EncryptTasks[1] \in Needs /\ Len(EncryptTasks) = 5
    BY DEF EncryptTasks, Needs
  <2>2. ~Keyed(EncryptTasks[1])
    BY DEF EncryptTasks, Keyed, Do
  <2>3. QED
    BY <2>1, <2>2 DEF Guards
<1>6. /\ DecryptTasks[4] \in Needs /\ Len(DecryptTasks) = 7
      /\ \A i \in 1..4 : ~Keyed(DecryptTasks[i])
  BY DEF DecryptTasks, Needs, Keyed, Do
<1>7. Guards(DecryptTasks)
  BY <1>6 DEF Guards
<1>8. ASSUME NEW m \in Msgs PROVE Guards(HandlerTasks(m))
  <2>1. DecryptTasks \in Seq(Access) /\ SaveInboxMessage(m) \in Access
    BY TasksType DEF SaveInboxMessage, Do, Access, Names
  <2>2. /\ Len(HandlerTasks(m)) = 8
        /\ \A i \in 1..7 : HandlerTasks(m)[i] = DecryptTasks[i]
    <3> DEFINE d == DecryptTasks
               x == SaveInboxMessage(m)
    <3>1. d \in Seq(Access) /\ x \in Access /\ Len(d) = 7 /\ HandlerTasks(m) = Append(d, x)
      BY <1>6, <2>1 DEF HandlerTasks
    <3> HIDE DEF d, x
    <3>2. /\ Len(Append(d, x)) = Len(d) + 1
          /\ \A i \in 1..Len(d) : Append(d, x)[i] = d[i]
      BY <3>1, OfAppend
    <3>3. QED
      BY <3>1, <3>2 DEF d
  <2>3. QED
    BY <1>6, <2>2 DEF Guards
<1>9. Guards(<<Do("lookup", "session")>>) /\ Guards(<<Do("list", "inbox")>>)
  BY DEF Guards, Keyed, Do
<1>10. Guards(ContactTasks \o EncryptTasks)
  BY <1>4, <1>5, TasksType, GuardsOfConcat
<1>11. QED
  BY <1>1, <1>2, <1>3, <1>4, <1>5, <1>7, <1>8, <1>9, <1>10 DEF CommandTasks, Commands

Knows(t) == Present("identity") /\ row["identity"].key = KeyOf(t)

Guarded(t) ==
  \A i \in 1..Len(todo[t]) :
    Keyed(todo[t][i]) => Knows(t) \/ \E j \in 1..(i - 1) : todo[t][j] \in Needs

OneKeyInv ==
  /\ \A n \in Names : Present(n) => Present("identity") /\ row[n].key = row["identity"].key
  /\ Present("identity") => row["identity"].key.salt = kdf
  /\ \A p \in Procs : stage[p] = "running" => key[p].salt = kdf /\ kdf # 0
  /\ \A p, q \in Procs : stage[p] = "creating" => kdf = 0 /\ (stage[q] = "creating" => p = q)
  /\ \A t \in Threads : Guarded(t)

KInv == "split" \notin overlap => OneKeyInv

LEMMA ListGuarded ==
  ASSUME NEW t \in Threads, Guards(todo[t])
  PROVE  Guarded(t)
  BY DEF Guards, Guarded

\* t goes on, or not, with the same key, and the identity keeps its own.
LEMMA GuardedKept ==
  ASSUME NEW t \in Threads, Guarded(t), todo'[t] = todo[t],
         todo[t] # <<>> => KeyOf(t)' = KeyOf(t),
         todo \in [Threads -> Seq(Access)],
         Present("identity") => row'["identity"].key = row["identity"].key
  PROVE  Guarded(t)'
<1>1. CASE todo[t] = <<>>
  BY <1>1 DEF Guarded
<1>2. CASE todo[t] # <<>>
  BY <1>2 DEF Guarded, Knows, Present
<1>3. QED
  BY <1>1, <1>2

\* The head of the list of t is done with.
LEMMA GuardedTail ==
  ASSUME TInv, NEW t \in Threads, Guarded(t), todo[t] # <<>>, todo'[t] = Tail(todo[t]),
         KeyOf(t)' = KeyOf(t),
         Present("identity") => row'["identity"].key = row["identity"].key,
         Head(todo[t]) \in Needs => Knows(t)
  PROVE  Guarded(t)'
<1>1. /\ Head(todo[t]) = todo[t][1] /\ Len(todo[t]) \in Nat /\ Len(todo[t]) >= 1
      /\ Len(todo'[t]) = Len(todo[t]) - 1
      /\ \A i \in 1..(Len(todo[t]) - 1) : todo'[t][i] = todo[t][i + 1]
  BY TodoType DEF TInv
<1>2. Knows(t) => Knows(t)'
  BY DEF Knows, Present
<1>3. ASSUME NEW i \in 1..Len(todo'[t]), Keyed(todo'[t][i])
      PROVE  Knows(t)' \/ \E j \in 1..(i - 1) : todo'[t][j] \in Needs
  <2>1. i + 1 \in 1..Len(todo[t]) /\ Keyed(todo[t][i + 1])
    BY <1>1, <1>3
  <2>2. Knows(t) \/ \E j \in 1..i : todo[t][j] \in Needs
    BY <2>1 DEF Guarded
  <2>3. ASSUME NEW j \in 1..i, todo[t][j] \in Needs
        PROVE  Knows(t) \/ \E k \in 1..(i - 1) : todo'[t][k] \in Needs
    <3>1. CASE j = 1
      BY <1>1, <2>3, <3>1
    <3>2. CASE j # 1
      <4>1. j - 1 \in 1..(i - 1) /\ todo'[t][j - 1] = todo[t][j]
        BY <1>1, <1>3, <2>3, <3>2
      <4>2. QED
        BY <2>3, <4>1
    <3>3. QED
      BY <3>1, <3>2
  <2>4. QED
    BY <1>2, <2>2, <2>3
<1>4. QED
  BY <1>3 DEF Guarded

\* A process that works keeps its key.
LEMMA SameKey ==
  ASSUME TInv, NEW t \in Threads, todo[t] # <<>>, owner' = owner,
         \A p \in Procs : stage[p] = "running" => key'[p] = key[p]
  PROVE  KeyOf(t)' = KeyOf(t)
  BY OwnerWorks DEF KeyOf, Owner

LEMMA EndKey ==
  ASSUME TInv, OneKeyInv, NEW p \in Procs, End(p)
  PROVE  OneKeyInv'
<1>1. /\ row' = row /\ kdf' = kdf /\ owner' = owner
      /\ \A q \in Procs : q # p => key'[q] = key[q]
      /\ \A q \in Procs : stage'[q] = IF q = p THEN "ended" ELSE stage[q]
      /\ \A t \in Threads : todo'[t] = IF Owner(t) = p THEN <<>> ELSE todo[t]
  BY DEF End, TInv, TypeOK, storeVars
<1>2. ASSUME NEW t \in Threads PROVE Guarded(t)'
  <2>1. CASE Owner(t) = p
    BY <1>1, <2>1 DEF Guarded
  <2>2. CASE Owner(t) # p
    <3>1. todo[t] # <<>> => KeyOf(t)' = KeyOf(t)
      BY <1>1, <2>2, OwnerWorks DEF KeyOf, Owner
    <3>2. QED
      BY <1>1, <2>2, <3>1, GuardedKept DEF OneKeyInv, TInv, TypeOK
  <2>3. QED
    BY <2>1, <2>2
<1>3. QED
  BY <1>1, <1>2 DEF OneKeyInv, Present

LEMMA OpenKey ==
  ASSUME TInv, OneKeyInv, "split" \notin overlap', NEW p \in Procs, NEW c \in Commands,
         NEW w \in Passphrases, NEW k \in 1..peerKey, Open(p, c, w, k)
  PROVE  OneKeyInv'
<1>1. /\ row' = row /\ kdf' = kdf /\ owner' = owner /\ stage[p] = "idle"
      /\ p \in Threads /\ Owner(p) = p
  BY DEF Open, storeVars, Threads, Owner
<1>2. \A q \in Procs : q # p => key'[q] = key[q]
  BY DEF Open, Derive, TInv, TypeOK
<1>3. \A q \in Procs : q # p => stage'[q] = stage[q]
  BY DEF Open, Derive, TInv, TypeOK
<1>4. \A t \in Threads : t # p => todo'[t] = todo[t]
  BY DEF Open, Derive, TInv, TypeOK
<1>5. \A t \in Threads : todo[t] # <<>> => KeyOf(t)' = KeyOf(t)
  BY <1>1, <1>2, SameKey
<1>6. \A t \in Threads : t # p => Guarded(t)'
  BY <1>1, <1>4, <1>5, GuardedKept DEF OneKeyInv, TInv, TypeOK
<1>7. CASE kdf # 0
  <2>1. Derive(p, c, w, kdf)
    BY <1>7 DEF Open, FoundSalt
  <2>2. stage'[p] = "running" /\ key'[p].salt = kdf /\ todo'[p] = CommandTasks(c)
    BY <1>1, <2>1 DEF Derive, TInv, TypeOK
  <2>3. Guarded(p)'
    BY <1>1, <2>2, ListsGuard, ListGuarded DEF Guarded, Guards
  <2>4. QED
    BY <1>1, <1>2, <1>3, <1>6, <1>7, <2>2, <2>3 DEF OneKeyInv, Present
<1>8. CASE kdf = 0
  <2>1. /\ stage' = [stage EXCEPT ![p] = "creating"] /\ todo' = todo
        /\ overlap' = overlap \cup {x \in {"split"} : \E q \in Procs : stage[q] = "creating"}
    BY <1>8 DEF Open, FoundSalt
  <2>2. \A q \in Procs : stage[q] # "creating"
    BY <2>1
  <2>3. stage'[p] = "creating"
    BY <2>1 DEF TInv, TypeOK
  <2>4. Guarded(p)'
    BY <1>1, <1>5, <2>1, GuardedKept DEF OneKeyInv, TInv, TypeOK
  <2>5. QED
    BY <1>1, <1>2, <1>3, <1>6, <1>8, <2>2, <2>3, <2>4 DEF OneKeyInv, Present
<1>9. QED
  BY <1>7, <1>8

LEMMA CreateKey ==
  ASSUME TInv, OneKeyInv, NEW p \in Procs, Create(p)
  PROVE  OneKeyInv'
<1>1. /\ stage[p] = "creating" /\ row' = row /\ kdf' = salts + 1 /\ owner' = owner
      /\ p \in Threads /\ command[p] \in Commands /\ Derive(p, command[p], key[p].pass, kdf')
      /\ salts \in Nat
  BY DEF Create, TInv, Working, TypeOK, Threads
<1>2. kdf = 0 /\ \A q \in Procs : q # p => stage[q] # "creating" /\ stage[q] # "running"
  BY <1>1 DEF OneKeyInv
<1>3. \A n \in Names : ~Present(n)
  BY <1>2 DEF OneKeyInv, Present, Names
<1>4. /\ \A q \in Procs : q # p => stage'[q] = stage[q]
      /\ stage'[p] = "running" /\ key'[p].salt = kdf'
      /\ \A t \in Threads : t # p => todo'[t] = todo[t]
      /\ todo'[p] = CommandTasks(command[p])
      /\ \A q \in Procs : stage[q] = "running" => key'[q] = key[q]
  BY <1>1 DEF Derive, TInv, TypeOK
<1>5. \A t \in Threads : t # p => Guarded(t)'
  BY <1>1, <1>4, SameKey, GuardedKept DEF OneKeyInv, TInv, TypeOK
<1>6. Guarded(p)'
  BY <1>1, <1>4, ListsGuard DEF Guarded, Guards
<1>7. kdf' # 0
  BY <1>1
<1>8. \A n \in Names : ~Present(n)'
  BY <1>1, <1>3 DEF Present
<1>9. "identity" \in Names
  BY DEF Names
<1>10. QED
  BY <1>1, <1>2, <1>4, <1>5, <1>6, <1>7, <1>8, <1>9 DEF OneKeyInv

\* The access of t succeeds: t goes on with s, and reads only.
LEMMA ReadKey ==
  ASSUME TInv, OneKeyInv, NEW t \in Threads, Read(t) \/ LookUp(t)
  PROVE  OneKeyInv'
<1> USE DEF TInv
<1>1. /\ todo[t] # <<>> /\ row' = row /\ kdf' = kdf /\ owner' = owner /\ key' = key
      /\ stage' = stage /\ \A u \in Threads : u # t => todo'[u] = todo[u]
  BY DEF Read, LookUp, storeVars, socketVars, TypeOK
<1>2. \A u \in Threads : KeyOf(u)' = KeyOf(u)
  BY <1>1 DEF KeyOf, Owner
<1>3. \A u \in Threads : u # t => Guarded(u)'
  BY <1>1, <1>2, GuardedKept DEF OneKeyInv, TypeOK
<1>4. Guarded(t)'
  <2>1. CASE Read(t)
    <3>1. todo'[t] = Tail(todo[t])
      BY <2>1 DEF Read, TypeOK
    <3>2. ASSUME Head(todo[t]) \in Needs PROVE Knows(t)
      <4>1. /\ Head(todo[t]).op = "need" /\ Head(todo[t]).name \in {"identity", "session"}
        BY <3>2 DEF Needs, Do
      <4>2. /\ Present(Head(todo[t]).name)
            /\ row[Head(todo[t]).name].key = KeyOf(t)
        BY <2>1, <4>1 DEF Read, Fails, RowsOf, CanRead
      <4>3. Head(todo[t]).name \in Names
        BY <4>1 DEF Names
      <4>4. QED
        BY <4>2, <4>3 DEF OneKeyInv, Knows
    <3>3. QED
      BY <1>1, <1>2, <3>1, <3>2, GuardedTail DEF OneKeyInv
  <2>2. CASE LookUp(t)
    <3>1. todo'[t] = EncryptTasks \/ todo'[t] = ContactTasks \o EncryptTasks
      BY <2>2 DEF LookUp, TypeOK
    <3>2. QED
      BY <3>1, ListsGuard DEF Guarded, Guards
  <2>3. QED
    BY <2>1, <2>2
<1>5. QED
  BY <1>1, <1>3, <1>4 DEF OneKeyInv, Present

\* A row is written with the key of the identity; the identity itself only over
\* one of the same key, or as the first row of the store.
LEMMA WriteKey ==
  ASSUME TInv, OneKeyInv, "split" \notin overlap', NEW t \in Threads, Write(t)
  PROVE  OneKeyInv'
<1> USE DEF TInv
<1> DEFINE n == Head(todo[t]).name
<1>1. /\ todo[t] # <<>> /\ kdf' = kdf /\ owner' = owner /\ key' = key
      /\ stage' = stage /\ \A u \in Threads : u # t => todo'[u] = todo[u]
      /\ todo'[t] = Tail(todo[t]) /\ Head(todo[t]).op = "put"
      /\ row' = [row EXCEPT ![n] = [key |-> KeyOf(t), of |-> peer[t]]]
      /\ overlap' = overlap \cup {x \in {"split"} : n = "identity" /\ ~CanRead(t, n)}
  BY DEF Write, socketVars, TypeOK
<1>2. \A u \in Threads : KeyOf(u)' = KeyOf(u)
  BY <1>1 DEF KeyOf, Owner
<1>3. KeyOf(t).salt = kdf /\ kdf # 0
  BY <1>1, OwnerWorks DEF OneKeyInv, KeyOf
<1>4. Head(todo[t]) = todo[t][1] /\ 1 \in 1..Len(todo[t])
  BY <1>1, TodoType
<1>5. n # "identity" => Knows(t)
  <2>1. ASSUME Keyed(todo[t][1]) PROVE Knows(t)
    BY <1>4, <2>1 DEF OneKeyInv, Guarded
  <2>2. QED
    BY <1>1, <1>4, <2>1 DEF Keyed
<1>6. n = "identity" => CanRead(t, "identity")
  BY <1>1
<1>7. Present("identity") => row["identity"].key = KeyOf(t) \/ n # "identity"
  BY <1>6 DEF CanRead
<1> HIDE DEF n
<1>8. row \in [Names -> Row] /\ "identity" \in Names
  BY DEF TypeOK, Names
<1>9. /\ \A o \in Names : o # n => row'[o] = row[o]
      /\ n \in Names => row'[n].key = KeyOf(t)
  BY <1>1, <1>8
<1>10. Present("identity") => row'["identity"].key = row["identity"].key
  BY <1>7, <1>8, <1>9
<1>11. ASSUME NEW u \in Threads PROVE Guarded(u)'
  <2>1. CASE u # t
    BY <1>1, <1>2, <1>10, <2>1, GuardedKept DEF OneKeyInv, TypeOK
  <2>2. CASE u = t
    <3>1. Head(todo[t]) \notin Needs
      BY <1>1 DEF Needs, Do
    <3>2. Guarded(t)
      BY DEF OneKeyInv
    <3>3. QED
      BY <1>1, <1>2, <1>10, <2>2, <3>1, <3>2, GuardedTail
  <2>3. QED
    BY <2>1, <2>2
<1>12. /\ \A o \in Names : Present(o)' => Present("identity")' /\ row'[o].key = row'["identity"].key
       /\ Present("identity")' => row'["identity"].key.salt = kdf'
  <2>1. CASE n = "identity"
    <3>1. row'["identity"].key = KeyOf(t)
      BY <1>8, <1>9, <2>1
    <3>2. \A o \in Names : o # n /\ Present(o) => row[o].key = KeyOf(t)
      BY <1>7, <2>1 DEF OneKeyInv
    <3>3. QED
      BY <1>1, <1>3, <1>9, <2>1, <3>1, <3>2 DEF Present
  <2>2. CASE n # "identity"
    <3>1. Knows(t) /\ row'["identity"] = row["identity"]
      BY <1>5, <1>8, <1>9, <2>2
    <3>2. QED
      BY <1>1, <1>3, <1>9, <3>1 DEF Knows, OneKeyInv, Present
  <2>3. QED
    BY <2>1, <2>2
<1>13. QED
  BY <1>1, <1>11, <1>12 DEF OneKeyInv

LEMMA ThrowKey ==
  ASSUME TInv, OneKeyInv, NEW t \in Threads, Throw(t)
  PROVE  OneKeyInv'
<1>1. CASE t \in Procs
  BY <1>1, EndKey DEF Throw
<1>2. CASE t \notin Procs
  <2>1. /\ row' = row /\ kdf' = kdf /\ owner' = owner /\ key' = key /\ stage' = stage
        /\ todo'[t] = <<>> /\ \A u \in Threads : u # t => todo'[u] = todo[u]
    BY <1>2 DEF Throw, storeVars, socketVars, TInv, TypeOK
  <2>2. \A u \in Threads : KeyOf(u)' = KeyOf(u)
    BY <2>1 DEF KeyOf, Owner
  <2>3. \A u \in Threads : u # t => Guarded(u)'
    BY <2>1, <2>2, GuardedKept DEF OneKeyInv, TInv, TypeOK
  <2>4. Guarded(t)'
    BY <2>1 DEF Guarded
  <2>5. QED
    BY <2>1, <2>3, <2>4 DEF OneKeyInv, Present
<1>3. QED
  BY <1>1, <1>2

\* A message is handed to a handler that had none.
LEMMA OnMessageKey ==
  ASSUME TInv, OneKeyInv, NEW p \in Procs, NEW m \in Msgs, OnMessage(p, m)
  PROVE  OneKeyInv'
<1>1. /\ m \in Threads /\ m \notin Procs /\ row' = row /\ kdf' = kdf /\ key' = key /\ stage' = stage
      /\ todo'[m] = HandlerTasks(m)
      /\ owner' = [owner EXCEPT ![m] = p]
      /\ \A u \in Threads : u # m => todo'[u] = todo[u]
  BY CliAssumption DEF OnMessage, storeVars, TInv, TypeOK, Threads
<1>2. \A u \in Threads : u # m => KeyOf(u)' = KeyOf(u)
  BY <1>1 DEF KeyOf, Owner, Threads, TInv, TypeOK
<1>3. \A u \in Threads : u # m => Guarded(u)'
  BY <1>1, <1>2, GuardedKept DEF OneKeyInv, TInv, TypeOK
<1>4. Guarded(m)'
  BY <1>1, ListsGuard DEF Guarded, Guards
<1>5. QED
  BY <1>1, <1>3, <1>4 DEF OneKeyInv, Present

\* What leaves the store, the keys and the lists alone.
LEMMA OtherKey ==
  ASSUME TInv, OneKeyInv, UNCHANGED <<kdf, row, stage, key, todo, owner>>
  PROVE  OneKeyInv'
<1>1. \A u \in Threads : KeyOf(u)' = KeyOf(u)
  BY DEF KeyOf, Owner
<1>2. \A u \in Threads : Guarded(u)'
  BY <1>1, GuardedKept DEF OneKeyInv, TInv, TypeOK
<1>3. QED
  BY <1>2 DEF OneKeyInv, Present

\* What has overlapped stays recorded.
LEMMA OverlapGrows ==
  ASSUME [Next]_vars
  PROVE  overlap \subseteq overlap'
<1>1. ASSUME NEW p \in Procs, NEW c \in Commands, NEW w \in Passphrases, NEW k \in 1..peerKey,
             Open(p, c, w, k)
      PROVE  overlap \subseteq overlap'
  BY <1>1 DEF Open
<1>2. ASSUME NEW p \in Procs, \/ Create(p) \/ Ends(p) \/ Dies(p)
                              \/ Upgrade(p) \/ OnSignal(p) \/ ForceExit(p) \/ Closed(p)
      PROVE  overlap \subseteq overlap'
  BY <1>2 DEF Create, Ends, Dies, Upgrade, OnSignal, ForceExit, Closed, End
<1>3. ASSUME NEW t \in Threads, Read(t) \/ LookUp(t) \/ Write(t) \/ Throw(t)
      PROVE  overlap \subseteq overlap'
  BY <1>3 DEF Read, LookUp, Write, Throw, End
<1>4. ASSUME PeerStartsOver \/ (\E m \in Msgs : PeerSends(m))
             \/ (\E p \in Procs, m \in Msgs : OnMessage(p, m))
      PROVE  overlap \subseteq overlap'
  BY <1>4 DEF PeerStartsOver, PeerSends, OnMessage
<1>5. QED
  BY <1>1, <1>2, <1>3, <1>4 DEF Next, vars

LEMMA InitKInv == Init => KInv
<1> SUFFICES ASSUME Init PROVE OneKeyInv
  BY DEF KInv
<1>1. \A t \in Threads : Guarded(t)
  BY DEF Init, Guarded
<1>2. \/ kdf = 0 /\ \A n \in Names : ~Present(n)
      \/ /\ kdf = 1
         /\ \A n \in Names : Present(n) => n \in {"identity", "prekeys"}
         /\ \A n \in {"identity", "prekeys"} :
              row[n].key = [NoKey EXCEPT !.salt = 1]
  BY NoKeyType DEF Init, Present, NoRow, Key, Names
<1>3. [NoKey EXCEPT !.salt = 1].salt = 1
  BY NoKeyType DEF Key
<1>4. QED
  BY <1>1, <1>2, <1>3 DEF Init, OneKeyInv, Present, Names

LEMMA NextKInv == TInv /\ KInv /\ [Next]_vars => KInv'
<1> SUFFICES ASSUME TInv, KInv, [Next]_vars, "split" \notin overlap' PROVE OneKeyInv'
  BY DEF KInv
<1>1. OneKeyInv
  BY OverlapGrows DEF KInv
<1>2. ASSUME NEW p \in Procs, NEW c \in Commands, NEW w \in Passphrases, NEW k \in 1..peerKey,
             Open(p, c, w, k)
      PROVE  OneKeyInv'
  BY <1>1, <1>2, OpenKey
<1>3. ASSUME NEW p \in Procs, Create(p) PROVE OneKeyInv'
  BY <1>1, <1>3, CreateKey
<1>4. ASSUME NEW p \in Procs, \/ Ends(p) \/ Dies(p) \/ ForceExit(p) \/ Closed(p)
                              \/ Upgrade(p) \/ OnSignal(p)
      PROVE  OneKeyInv'
  <2>1. CASE End(p)
    BY <1>1, <2>1, EndKey
  <2>2. CASE UNCHANGED <<kdf, row, stage, key, todo, owner>>
    BY <1>1, <2>2, OtherKey
  <2>3. QED
    BY <1>4, <2>1, <2>2
    DEF Ends, Dies, ForceExit, Closed, Upgrade, OnSignal, storeVars
<1>5. ASSUME NEW t \in Threads, Read(t) \/ LookUp(t) \/ Write(t) \/ Throw(t)
      PROVE  OneKeyInv'
  BY <1>1, <1>5, ReadKey, WriteKey, ThrowKey
<1>6. ASSUME \/ UNCHANGED vars \/ PeerStartsOver \/ \E m \in Msgs : PeerSends(m)
      PROVE  OneKeyInv'
  <2>1. UNCHANGED <<kdf, row, stage, key, todo, owner>>
    BY <1>6 DEF vars, PeerStartsOver, PeerSends, storeVars, socketVars
  <2>2. QED
    BY <1>1, <2>1, OtherKey
<1>7. ASSUME NEW p \in Procs, NEW m \in Msgs, OnMessage(p, m) PROVE OneKeyInv'
  BY <1>1, <1>7, OnMessageKey
<1>8. QED
  BY <1>2, <1>3, <1>4, <1>5, <1>6, <1>7 DEF Next

\* Unless two processes made a store at once, or one wrote an identity over what
\* it could not read, all rows of the store are encrypted with one key.
THEOREM OneKeyHolds == Spec => []OneKey
<1>1. Spec => []TInv
  BY InitTInv, NextTInv, PTL DEF Spec
<1>2. Spec => []KInv
  BY <1>1, InitKInv, NextKInv, PTL DEF Spec
<1>3. KInv => OneKey
  BY DEF KInv, OneKeyInv, OneKey
<1>4. QED
  BY <1>2, <1>3, PTL

-----------------------------------------------------------------------------
(***************************************************************************)
(* InboxIsOfPinned.  In every list the pin comes after a check of the      *)
(* peer's key, and what is saved of the peer after its pin, with no change *)
(* of the peer in between; what a thread has left may also rely on what it *)
(* has already done, as long as its peer stays.                            *)
(***************************************************************************)
Checks == {a \in Access : a.op = "trust"}
Pins   == {Do("put", "pin")}
Saves  == {Do("put", n) : n \in Msgs \cup {"session"}}
Renames == Do("need", "session")

\* Every access of s in Y comes after one in X, or relies on ok.
After(s, X, Y, ok) ==
  \A i \in 1..Len(s) : s[i] \in Y =>
    \/ ok /\ \A k \in 1..i : s[k] # Renames
    \/ \E j \in 1..(i - 1) : s[j] \in X /\ \A k \in j..i : s[k] # Renames

Ordered(s) == After(s, Checks, Pins, FALSE) /\ After(s, Pins, Saves, FALSE)

LEMMA AfterConcat ==
  ASSUME NEW S, NEW s \in Seq(S), NEW t \in Seq(S), NEW X, NEW Y,
         After(s, X, Y, FALSE), After(t, X, Y, FALSE)
  PROVE  After(s \o t, X, Y, FALSE)
<1> DEFINE st == s \o t
<1>1. /\ Len(s) \in Nat /\ Len(t) \in Nat /\ Len(st) = Len(s) + Len(t)
      /\ \A i \in 1..Len(s) : st[i] = s[i]
      /\ \A i \in 1..Len(t) : st[Len(s) + i] = t[i]
  BY ConcatProperties, LenProperties
<1> HIDE DEF st
<1>2. ASSUME NEW i \in 1..Len(st), st[i] \in Y
      PROVE  \E j \in 1..(i - 1) : st[j] \in X /\ \A k \in j..i : st[k] # Renames
  <2>1. CASE i <= Len(s)
    <3>1. i \in 1..Len(s) /\ st[i] = s[i]
      BY <1>1, <2>1
    <3>2. PICK j \in 1..(i - 1) : s[j] \in X /\ \A k \in j..i : s[k] # Renames
      BY <1>2, <3>1 DEF After
    <3>3. \A k \in j..i : k \in 1..Len(s) /\ st[k] = s[k]
      BY <1>1, <3>1
    <3>4. st[j] = s[j]
      BY <1>1, <3>1
    <3>5. QED
      BY <3>2, <3>3, <3>4
  <2>2. CASE ~(i <= Len(s))
    <3> DEFINE d == i - Len(s)
    <3>1. d \in 1..Len(t) /\ i = Len(s) + d
      BY <1>1, <2>2
    <3>2. st[i] = t[d]
      BY <1>1, <3>1
    <3>3. PICK j \in 1..(d - 1) : t[j] \in X /\ \A k \in j..d : t[k] # Renames
      BY <1>2, <3>1, <3>2 DEF After
    <3>4. j \in 1..Len(t) /\ Len(s) + j \in 1..(i - 1)
      BY <1>1, <3>1
    <3>5. st[Len(s) + j] \in X
      BY <1>1, <3>3, <3>4
    <3>6. ASSUME NEW k \in (Len(s) + j)..i PROVE st[k] # Renames
      <4>1. k - Len(s) \in j..d /\ k - Len(s) \in 1..Len(t) /\ k = Len(s) + (k - Len(s))
        BY <1>1, <3>1, <3>4, <3>6
      <4>2. st[k] = t[k - Len(s)]
        BY <1>1, <4>1
      <4>3. QED
        BY <3>3, <4>1, <4>2
    <3>7. QED
      BY <3>4, <3>5, <3>6
  <2>3. QED
    BY <2>1, <2>2
<1>3. QED
  BY <1>2 DEF After, st

LEMMA Kinds ==
  /\ \A op, name : Do(op, name).op = op /\ Do(op, name).name = name
  /\ \A a \in Saves : a.op = "put" /\ a.name \in Msgs \cup {"session"} /\ a.name # "pin"
                      /\ a.name # "identity" /\ a.name # "prekeys"
  /\ \A a \in Pins : a.op = "put" /\ a.name = "pin"
  /\ \A a \in Checks : a.op = "trust"
  /\ Renames.op = "need" /\ Renames.name = "session"
  /\ Do("trust", "pin") \in Checks /\ Do("put", "pin") \in Pins
  BY CliAssumption DEF Do, Saves, Pins, Checks, Renames, Access, Names

LEMMA ListsOrdered ==
  /\ \A c \in Commands : Ordered(CommandTasks(c))
  /\ \A m \in Msgs : Ordered(HandlerTasks(m))
  /\ Ordered(EncryptTasks) /\ Ordered(ContactTasks \o EncryptTasks) /\ Ordered(<<>>)
<1>1. Ordered(<<>>) /\ Ordered(ShowTasks)
  BY DEF Ordered, After, ShowTasks
<1>2. Ordered(InitTasks) /\ Ordered(ExportTasks)
  <2>1. /\ Len(InitTasks) = 4 /\ Len(ExportTasks) = 2
        /\ InitTasks[1] = Do("put", "identity") /\ InitTasks[2] = Do("need", "identity")
        /\ InitTasks[3] = Do("get", "prekeys") /\ InitTasks[4] = Do("put", "prekeys")
        /\ ExportTasks[1] = Do("need", "identity") /\ ExportTasks[2] = Do("need", "prekeys")
    BY DEF InitTasks, ExportTasks
  <2>2. /\ \A i \in 1..4 : InitTasks[i] \notin Pins \cup Saves
        /\ \A i \in 1..2 : ExportTasks[i] \notin Pins \cup Saves
    BY <2>1, Kinds
  <2>3. QED
    BY <2>1, <2>2 DEF Ordered, After
<1>3. Ordered(<<Do("lookup", "session")>>) /\ Ordered(<<Do("list", "inbox")>>)
  <2> DEFINE a == <<Do("lookup", "session")>>
             b == <<Do("list", "inbox")>>
  <2>1. /\ Len(a) = 1 /\ Len(b) = 1 /\ a[1].op = "lookup" /\ b[1].op = "list"
    BY Kinds
  <2>2. a[1] \notin Pins \cup Saves /\ b[1] \notin Pins \cup Saves
    BY <2>1, Kinds
  <2> HIDE DEF a, b
  <2>3. Ordered(a) /\ Ordered(b)
    BY <2>1, <2>2 DEF Ordered, After
  <2>4. QED
    BY <2>3 DEF a, b
<1>4. Ordered(ContactTasks)
  <2>1. /\ Len(ContactTasks) = 6 /\ ContactTasks[1] \in Checks /\ ContactTasks[5] \in Pins
        /\ \A i \in 1..6 : ContactTasks[i] # Renames
        /\ \A i \in 1..6 : ContactTasks[i] \in Pins => i = 5
        /\ \A i \in 1..6 : ContactTasks[i] \in Saves => i = 6
    <3>1. /\ ContactTasks[1] = Do("trust", "pin")
          /\ ContactTasks[2] = Do("get", "session")
          /\ ContactTasks[3] = Do("need", "identity")
          /\ ContactTasks[4] = Do("get", "pin")
          /\ ContactTasks[5] = Do("put", "pin")
          /\ ContactTasks[6] = Do("put", "session")
      BY DEF ContactTasks
    <3>2. Len(ContactTasks) = 6
      BY DEF ContactTasks
    <3>3. QED
      BY <3>1, <3>2, Kinds
  <2>2. QED
    BY <2>1 DEF Ordered, After
<1>5. Ordered(EncryptTasks)
  <2>1. /\ Len(EncryptTasks) = 5 /\ EncryptTasks[2] \in Checks /\ EncryptTasks[4] \in Pins
        /\ \A i \in 2..5 : EncryptTasks[i] # Renames
        /\ \A i \in 1..5 : EncryptTasks[i] \in Pins => i = 4
        /\ \A i \in 1..5 : EncryptTasks[i] \in Saves => i = 5
    <3>1. /\ EncryptTasks[1] = Do("need", "session")
          /\ EncryptTasks[2] = Do("trust", "pin")
          /\ EncryptTasks[3] = Do("get", "pin")
          /\ EncryptTasks[4] = Do("put", "pin")
          /\ EncryptTasks[5] = Do("put", "session")
      BY DEF EncryptTasks
    <3>2. Len(EncryptTasks) = 5
      BY DEF EncryptTasks
    <3>3. QED
      BY <3>1, <3>2, Kinds
  <2>2. QED
    BY <2>1 DEF Ordered, After
<1>6. /\ Len(DecryptTasks) = 7 /\ DecryptTasks[2] \in Checks /\ DecryptTasks[6] \in Pins
      /\ \A i \in 1..7 : DecryptTasks[i] # Renames
      /\ \A i \in 1..7 : DecryptTasks[i] \in Pins => i = 6
      /\ \A i \in 1..7 : DecryptTasks[i] \in Saves => i = 7
  <2>1. /\ DecryptTasks[1] = Do("get", "session")
        /\ DecryptTasks[2] = Do("trust", "pin")
        /\ DecryptTasks[3] = Do("need", "prekeys")
        /\ DecryptTasks[4] = Do("need", "identity")
        /\ DecryptTasks[5] = Do("get", "pin")
        /\ DecryptTasks[6] = Do("put", "pin")
        /\ DecryptTasks[7] = Do("put", "session")
    BY DEF DecryptTasks
  <2>2. Len(DecryptTasks) = 7
    BY DEF DecryptTasks
  <2>3. QED
    BY <2>1, <2>2, Kinds
<1>7. Ordered(DecryptTasks)
  BY <1>6 DEF Ordered, After
<1>8. ASSUME NEW m \in Msgs PROVE Ordered(HandlerTasks(m))
  <2>1. DecryptTasks \in Seq(Access) /\ SaveInboxMessage(m) \in Access
    BY TasksType DEF SaveInboxMessage, Do, Access, Names
  <2> DEFINE d == DecryptTasks
             x == SaveInboxMessage(m)
             h == HandlerTasks(m)
  <2>2. d \in Seq(Access) /\ x \in Access /\ Len(d) = 7 /\ h = Append(d, x)
    BY <1>6, <2>1 DEF HandlerTasks
  <2>3. x # Renames /\ x \notin Pins /\ \A i \in 1..7 : d[i] # Renames
    BY <1>6, CliAssumption DEF SaveInboxMessage, Do, Renames, Pins
  <2>4. /\ d[2] \in Checks /\ d[6] \in Pins
        /\ \A i \in 1..7 : d[i] \in Pins => i = 6
        /\ \A i \in 1..7 : d[i] \in Saves => i = 7
    BY <1>6
  <2> HIDE DEF d, x, h
  <2>5. /\ Len(Append(d, x)) = Len(d) + 1
        /\ \A i \in 1..Len(d) : Append(d, x)[i] = d[i]
    BY <2>2, OfAppend
  <2>6. Append(d, x)[Len(d) + 1] = x
    BY <2>2, LastOfAppend
  <2>7. /\ Len(h) = 8 /\ h[8] = x /\ \A i \in 1..7 : h[i] = d[i]
    BY <2>2, <2>5, <2>6
  <2>8. /\ Len(h) = 8 /\ h[2] \in Checks /\ h[6] \in Pins
        /\ \A i \in 1..8 : h[i] # Renames
        /\ \A i \in 1..8 : h[i] \in Pins => i = 6
        /\ \A i \in 1..8 : h[i] \in Saves => i \in {7, 8}
    BY <2>3, <2>4, <2>7
  <2>9. QED
    BY <2>8 DEF Ordered, After, h
<1>9. Ordered(ContactTasks \o EncryptTasks)
  BY <1>4, <1>5, TasksType, AfterConcat DEF Ordered
<1>10. QED
  BY <1>1, <1>2, <1>3, <1>4, <1>5, <1>7, <1>8, <1>9 DEF CommandTasks, Commands

\* The head of a list is done with.
LEMMA AfterTail ==
  ASSUME TInv, NEW t \in Threads, todo[t] # <<>>, NEW X, NEW Y,
         NEW ok \in BOOLEAN, NEW next \in BOOLEAN,
         After(todo[t], X, Y, ok),
         Head(todo[t]) \in X /\ Head(todo[t]) # Renames => next,
         ok /\ Head(todo[t]) # Renames => next
  PROVE  After(Tail(todo[t]), X, Y, next)
<1> DEFINE s == todo[t]
           r == Tail(todo[t])
<1>1. /\ Head(s) = s[1] /\ Len(s) \in Nat /\ Len(s) >= 1
      /\ Len(r) = Len(s) - 1
      /\ \A i \in 1..(Len(s) - 1) : r[i] = s[i + 1]
  BY TodoType DEF TInv
<1>2. After(s, X, Y, ok) /\ (s[1] # Renames /\ (s[1] \in X \/ ok) => next)
  BY <1>1
<1> HIDE DEF s, r
<1>3. ASSUME NEW i \in 1..Len(r), r[i] \in Y
      PROVE  \/ next /\ \A k \in 1..i : r[k] # Renames
             \/ \E j \in 1..(i - 1) : r[j] \in X /\ \A k \in j..i : r[k] # Renames
  <2>1. i + 1 \in 1..Len(s) /\ s[i + 1] \in Y
    BY <1>1, <1>3
  <2>2. \A k \in 1..i : r[k] = s[k + 1] /\ k + 1 \in 1..(i + 1)
    BY <1>1
  <2>3. CASE ok /\ \A k \in 1..(i + 1) : s[k] # Renames
    BY <1>2, <2>2, <2>3
  <2>4. ASSUME NEW j \in 1..i, s[j] \in X, \A k \in j..(i + 1) : s[k] # Renames
        PROVE  \/ next /\ \A k \in 1..i : r[k] # Renames
               \/ \E l \in 1..(i - 1) : r[l] \in X /\ \A k \in l..i : r[k] # Renames
    <3>1. CASE j = 1
      BY <1>2, <2>2, <2>4, <3>1
    <3>2. CASE j # 1
      <4>1. j - 1 \in 1..(i - 1) /\ r[j - 1] = s[j]
        BY <2>2, <3>2
      <4>2. ASSUME NEW k \in (j - 1)..i PROVE r[k] # Renames
        <5>1. k \in 1..i /\ k + 1 \in j..(i + 1)
          BY <3>2
        <5>2. QED
          BY <2>2, <2>4, <5>1
      <4>3. QED
        BY <2>4, <4>1, <4>2
    <3>3. QED
      BY <3>1, <3>2
  <2>5. \/ ok /\ \A k \in 1..(i + 1) : s[k] # Renames
        \/ \E j \in 1..((i + 1) - 1) : s[j] \in X /\ \A k \in j..(i + 1) : s[k] # Renames
    BY <1>2, <2>1 DEF After
  <2>6. QED
    BY <2>3, <2>4, <2>5
<1>4. QED
  BY <1>3 DEF After, r

\* What t knows of its peer from the store.
Checked(t) == Present("pin") => row["pin"].of = peer[t]
Pinned(t)  == Present("pin") /\ row["pin"].of = peer[t]

PinInv ==
  /\ \A n \in Msgs \cup {"session"} :
       Present(n) => Present("pin") /\ row[n].of = row["pin"].of
  /\ \A t \in Threads : After(todo[t], Checks, Pins, Checked(t))
  /\ \A t \in Threads : After(todo[t], Pins, Saves, Pinned(t))
  /\ \A t, u \in Threads : Pinning(t) /\ Pinning(u) => peer[t] = peer[u]

IInv == "contacted" \notin overlap => PinInv

\* A process that works derived its key from a salt.
Salted == \A p \in Procs : stage[p] = "running" => key[p].salt # 0

\* Who has a pin to write relies on a check of the peer that it still deals with.
LEMMA PinningChecked ==
  ASSUME TInv, PinInv, NEW t \in Threads, Pinning(t)
  PROVE  /\ todo[t] # <<>> /\ Checked(t) /\ Head(todo[t]) # Renames
         /\ Head(todo[t]).op # "trust"
<1>1. PICK i \in DOMAIN todo[t] :
        todo[t][i] = Do("put", "pin") /\ \A j \in 1..i : todo[t][j].op # "trust"
  BY DEF Pinning
<1>2. todo[t] \in Seq(Access)
  BY DEF TInv, TypeOK
<1>3. i \in 1..Len(todo[t]) /\ Len(todo[t]) \in Nat /\ 1 \in 1..i
  BY <1>2, LenProperties
<1>4. todo[t] # <<>>
  BY <1>2, <1>3, EmptySeq
<1>5. Head(todo[t]) = todo[t][1]
  BY <1>4, TodoType DEF TInv
<1>6. \A j \in 1..(i - 1) : todo[t][j] \notin Checks
  BY <1>1, <1>3, Kinds
<1>7. Checked(t) /\ \A k \in 1..i : todo[t][k] # Renames
  BY <1>1, <1>3, <1>6, Kinds DEF PinInv, After
<1>8. QED
  BY <1>1, <1>3, <1>4, <1>5, <1>7

\* What t knew when it made a list still holds, or the list does not need it.
LEMMA AfterKept ==
  ASSUME TInv, NEW t \in Threads, NEW ok \in BOOLEAN, NEW next \in BOOLEAN,
         After(todo[t], Checks, Pins, ok), ok /\ Pinning(t) => next
  PROVE  After(todo[t], Checks, Pins, next)
<1>1. todo[t] \in Seq(Access) /\ Len(todo[t]) \in Nat /\ DOMAIN todo[t] = 1..Len(todo[t])
  BY LenProperties DEF TInv, TypeOK
<1>2. ASSUME NEW i \in 1..Len(todo[t]), todo[t][i] \in Pins
      PROVE  \/ next /\ \A k \in 1..i : todo[t][k] # Renames
             \/ \E j \in 1..(i - 1) : todo[t][j] \in Checks /\ \A k \in j..i : todo[t][k] # Renames
  <2>1. CASE ok /\ \A k \in 1..i : todo[t][k] # Renames
    <3>1. CASE \E j \in 1..i : todo[t][j].op = "trust"
      <4>1. PICK j \in 1..i : todo[t][j].op = "trust"
        BY <3>1
      <4>2. todo[t][j] \in Access /\ j # i
        BY <1>1, <1>2, <4>1, Kinds
      <4>3. j \in 1..(i - 1) /\ todo[t][j] \in Checks
        BY <4>1, <4>2 DEF Checks
      <4>4. \A k \in j..i : todo[t][k] # Renames
        BY <2>1, <4>1
      <4>5. QED
        BY <4>3, <4>4
    <3>2. CASE ~\E j \in 1..i : todo[t][j].op = "trust"
      <4>1. Pinning(t)
        BY <1>1, <1>2, <3>2 DEF Pinning, Pins
      <4>2. QED
        BY <2>1, <4>1
    <3>3. QED
      BY <3>1, <3>2
  <2>2. QED
    BY <1>2, <2>1 DEF After
<1>3. QED
  BY <1>2 DEF After

\* Every thread goes on as it was, ends, or begins a list.
LEMMA ListStep ==
  ASSUME TInv, PinInv, TypeOK', row' = row,
         \A t \in Threads : \/ todo'[t] = todo[t] /\ peer'[t] = peer[t]
                            \/ Ordered(todo'[t])
  PROVE  PinInv'
<1>1. ASSUME NEW t \in Threads, todo'[t] = todo[t], peer'[t] = peer[t]
      PROVE  /\ After(todo'[t], Checks, Pins, Checked(t)') /\ After(todo'[t], Pins, Saves, Pinned(t)')
             /\ Pinning(t)' => Pinning(t)
  <2>1. Checked(t)' = Checked(t) /\ Pinned(t)' = Pinned(t)
    BY <1>1 DEF Checked, Pinned, Present
  <2>2. QED
    BY <1>1, <2>1 DEF PinInv, Pinning
<1>2. ASSUME NEW t \in Threads, Ordered(todo'[t])
      PROVE  /\ After(todo'[t], Checks, Pins, Checked(t)') /\ After(todo'[t], Pins, Saves, Pinned(t)')
             /\ ~Pinning(t)'
  <2>1. todo'[t] \in Seq(Access)
    BY DEF TypeOK
  <2>2. After(todo'[t], Checks, Pins, Checked(t)') /\ After(todo'[t], Pins, Saves, Pinned(t)')
    BY <1>2 DEF Ordered, After
  <2>3. ASSUME NEW i \in DOMAIN todo'[t], todo'[t][i] = Do("put", "pin")
        PROVE  \E j \in 1..i : todo'[t][j].op = "trust"
    <3>1. i \in 1..Len(todo'[t])
      BY <2>1, LenProperties
    <3>2. PICK j \in 1..(i - 1) : todo'[t][j] \in Checks
      BY <1>2, <2>3, <3>1, Kinds DEF Ordered, After
    <3>3. j \in 1..i
      BY <3>1, <3>2
    <3>4. QED
      BY <3>2, <3>3, Kinds
  <2>4. QED
    BY <2>2, <2>3 DEF Pinning
<1>3. ASSUME NEW t \in Threads
      PROVE  /\ After(todo'[t], Checks, Pins, Checked(t)') /\ After(todo'[t], Pins, Saves, Pinned(t)')
             /\ Pinning(t)' => Pinning(t) /\ peer'[t] = peer[t]
  BY <1>1, <1>2
<1>4. QED
  BY <1>3 DEF PinInv, Present

\* A read, after which t knows more, or forgets what it knew of another peer.
LEMMA ReadPin ==
  ASSUME TInv, PinInv, "contacted" \notin overlap', NEW t \in Threads, Read(t)
  PROVE  PinInv'
<1> USE DEF TInv
<1> DEFINE a == Head(todo[t])
<1>1. /\ todo[t] # <<>> /\ row' = row /\ todo'[t] = Tail(todo[t])
      /\ a.op # "put" /\ ~Fails(t)
      /\ \A u \in Threads : u # t => todo'[u] = todo[u] /\ peer'[u] = peer[u]
      /\ a # Renames => peer' = peer
      /\ overlap' = overlap \cup {x \in {"contacted"} : a.op = "trust" /\ \E u \in Threads :
             Pinning(u) /\ peer[u] # peer[t]}
  BY DEF Read, storeVars, TypeOK, Renames
<1>2. /\ a = todo[t][1] /\ Len(todo[t]) \in Nat /\ Len(todo[t]) >= 1
      /\ Len(todo'[t]) = Len(todo[t]) - 1 /\ todo'[t] \in Seq(Access)
      /\ \A i \in 1..(Len(todo[t]) - 1) : todo'[t][i] = todo[t][i + 1]
  BY <1>1, TodoType
<1>3. ASSUME NEW u \in Threads, u # t
      PROVE  /\ Checked(u)' = Checked(u) /\ Pinned(u)' = Pinned(u) /\ Pinning(u)' = Pinning(u)
             /\ todo'[u] = todo[u] /\ peer'[u] = peer[u]
  BY <1>1, <1>3 DEF Checked, Pinned, Present, Pinning
<1>4. a.op = "trust" => Checked(t)
  BY <1>1 DEF Fails, Trusts, Checked
<1>5. a # Renames => Checked(t)' = Checked(t) /\ Pinned(t)' = Pinned(t)
  BY <1>1 DEF Checked, Pinned, Present
<1>6. After(todo'[t], Checks, Pins, Checked(t)')
  <2> DEFINE ok == Checked(t)
             next == Checked(t)'
  <2>1. ok \in BOOLEAN /\ next \in BOOLEAN
    BY DEF Checked
  <2>2. After(todo[t], Checks, Pins, ok)
    BY DEF PinInv
  <2>3. /\ a \in Checks /\ a # Renames => next
        /\ ok /\ a # Renames => next
    BY <1>4, <1>5 DEF Checks
  <2> HIDE DEF ok, next
  <2>4. After(Tail(todo[t]), Checks, Pins, next)
    BY <1>1, <2>1, <2>2, <2>3, AfterTail
  <2>5. QED
    BY <1>1, <2>4 DEF next
<1>7. After(todo'[t], Pins, Saves, Pinned(t)')
  <2> DEFINE ok == Pinned(t)
             next == Pinned(t)'
  <2>1. ok \in BOOLEAN /\ next \in BOOLEAN
    BY DEF Pinned
  <2>2. After(todo[t], Pins, Saves, ok)
    BY DEF PinInv
  <2>3. /\ a \in Pins /\ a # Renames => next
        /\ ok /\ a # Renames => next
    BY <1>1, <1>5, Kinds
  <2> HIDE DEF ok, next
  <2>4. After(Tail(todo[t]), Pins, Saves, next)
    BY <1>1, <2>1, <2>2, <2>3, AfterTail
  <2>5. QED
    BY <1>1, <2>4 DEF next
<1>8. Pinning(t)' => (Pinning(t) \/ a.op = "trust") /\ peer'[t] = peer[t]
  <2>1. ASSUME Pinning(t)', a.op # "trust" PROVE Pinning(t)
    <3>1. PICK i \in DOMAIN todo'[t] :
            todo'[t][i] = Do("put", "pin") /\ \A j \in 1..i : todo'[t][j].op # "trust"
      BY <2>1 DEF Pinning
    <3>2. i \in 1..Len(todo'[t]) /\ DOMAIN todo[t] = 1..Len(todo[t])
      BY <1>2, LenProperties DEF TypeOK
    <3>3. i + 1 \in DOMAIN todo[t] /\ todo[t][i + 1] = Do("put", "pin")
      BY <1>2, <3>1, <3>2
    <3>4. ASSUME NEW j \in 1..(i + 1) PROVE todo[t][j].op # "trust"
      <4>1. CASE j = 1
        BY <1>2, <2>1, <4>1
      <4>2. CASE j # 1
        <5>1. j - 1 \in 1..i /\ j - 1 \in 1..(Len(todo[t]) - 1) /\ j = (j - 1) + 1
          BY <1>2, <3>2, <4>2
        <5>2. todo'[t][j - 1] = todo[t][j]
          BY <1>2, <5>1
        <5>3. QED
          BY <3>1, <5>1, <5>2
      <4>3. QED
        BY <4>1, <4>2
    <3>5. QED
      BY <3>3, <3>4 DEF Pinning
  <2>2. Pinning(t) => a # Renames
    BY PinningChecked
  <2>3. a.op = "trust" => a # Renames
    BY Kinds
  <2>4. QED
    BY <1>1, <2>1, <2>2, <2>3
<1>9. a.op = "trust" => \A u \in Threads : Pinning(u) => peer[u] = peer[t]
  BY <1>1
<1>10. \A u, v \in Threads : Pinning(u)' /\ Pinning(v)' => peer'[u] = peer'[v]
  BY <1>3, <1>8, <1>9 DEF PinInv
<1>11. QED
  BY <1>1, <1>3, <1>6, <1>7, <1>10 DEF PinInv, Present

\* A row is written: the pin by who has checked the peer's key, and nobody who
\* checked another one is about to; and what is of the peer after its pin.
LEMMA WritePin ==
  ASSUME TInv, Salted, PinInv, NEW t \in Threads, Write(t)
  PROVE  PinInv'
<1> USE DEF TInv
<1> DEFINE a == Head(todo[t])
           n == a.name
<1>1. /\ todo[t] # <<>> /\ peer' = peer /\ todo'[t] = Tail(todo[t]) /\ a.op = "put"
      /\ \A u \in Threads : u # t => todo'[u] = todo[u]
      /\ row' = [row EXCEPT ![n] = [key |-> KeyOf(t), of |-> peer[t]]]
  BY DEF Write, TypeOK
<1>2. /\ a = todo[t][1] /\ Len(todo[t]) \in Nat /\ Len(todo[t]) >= 1 /\ a \in Access
      /\ Len(todo'[t]) = Len(todo[t]) - 1 /\ todo'[t] \in Seq(Access)
      /\ \A i \in 1..(Len(todo[t]) - 1) : todo'[t][i] = todo[t][i + 1]
  BY <1>1, TodoType
<1>3. KeyOf(t).salt # 0
  BY <1>1, OwnerWorks DEF Salted, KeyOf
<1>4. /\ a # Renames /\ a \notin Checks /\ a = Do("put", n)
      /\ DOMAIN todo[t] = 1..Len(todo[t]) /\ 1 \in DOMAIN todo[t]
  <2>1. a # Renames /\ a \notin Checks
    BY <1>1, Kinds
  <2>2. a = Do("put", n)
    BY <1>1, <1>2 DEF Access, Do
  <2>3. DOMAIN todo[t] = 1..Len(todo[t])
    BY LenProperties DEF TypeOK
  <2>4. QED
    BY <1>2, <2>1, <2>2, <2>3
<1>5. n = "pin" => Pinning(t) /\ Checked(t)
  <2>1. n = "pin" => Pinning(t)
    BY <1>1, <1>2, <1>4 DEF Pinning
  <2>2. QED
    BY <2>1, PinningChecked
<1>6. n \in Msgs \cup {"session"} => Pinned(t)
  <2>1. n \in Msgs \cup {"session"} => a \in Saves
    BY <1>4 DEF Saves
  <2>2. a \in Saves => Pinned(t)
    BY <1>2, <1>4 DEF PinInv, After
  <2>3. QED
    BY <2>1, <2>2
<1>7. /\ row \in [Names -> Row] /\ "pin" \in Names /\ Msgs \cup {"session"} \subseteq Names
      /\ "pin" \notin Msgs \cup {"session"}
  BY CliAssumption DEF TypeOK, Names
<1> HIDE DEF a, n
<1>8. /\ \A o \in Names : o # n => row'[o] = row[o]
      /\ n \in Names => row'[n].key.salt # 0 /\ row'[n].of = peer[t]
  BY <1>1, <1>3, <1>7 DEF Present
<1>9. Present("pin") => Present("pin")' /\ row'["pin"].of = row["pin"].of
  <2>1. CASE n = "pin"
    BY <1>5, <1>7, <1>8, <2>1 DEF Checked, Present
  <2>2. CASE n # "pin"
    BY <1>7, <1>8, <2>2 DEF Present
  <2>3. QED
    BY <2>1, <2>2
<1>10. \A u \in Threads : Pinned(u) => Pinned(u)'
  BY <1>1, <1>9 DEF Pinned
<1>11. ASSUME NEW u \in Threads, Pinning(u), Checked(u) PROVE Checked(u)'
  <2>1. CASE n = "pin"
    <3>1. peer[u] = peer[t]
      BY <1>5, <1>11, <2>1 DEF PinInv
    <3>2. QED
      BY <1>1, <1>7, <1>8, <2>1, <3>1 DEF Checked
  <2>2. CASE n # "pin"
    BY <1>1, <1>7, <1>8, <1>11, <2>2 DEF Checked, Present
  <2>3. QED
    BY <2>1, <2>2
<1>12. ASSUME NEW u \in Threads
       PROVE  /\ After(todo[u], Checks, Pins, Checked(u)')
              /\ After(todo[u], Pins, Saves, Pinned(u)')
  <2> DEFINE ok == Checked(u)
             next == Checked(u)'
  <2>1. ok \in BOOLEAN /\ next \in BOOLEAN /\ (ok /\ Pinning(u) => next)
    BY <1>11 DEF Checked
  <2>2. After(todo[u], Checks, Pins, ok)
    BY DEF PinInv
  <2> HIDE DEF ok, next
  <2>3. After(todo[u], Checks, Pins, next)
    BY <2>1, <2>2, AfterKept
  <2>4. After(todo[u], Pins, Saves, Pinned(u)')
    <3>1. After(todo[u], Pins, Saves, Pinned(u))
      BY DEF PinInv
    <3>2. QED
      BY <1>10, <3>1 DEF After
  <2>5. QED
    BY <2>3, <2>4 DEF next
<1>13. After(Tail(todo[t]), Checks, Pins, Checked(t)')
  <2> DEFINE next == Checked(t)'
  <2>1. next \in BOOLEAN /\ After(todo[t], Checks, Pins, next)
    BY <1>12 DEF Checked
  <2> HIDE DEF next
  <2>2. After(Tail(todo[t]), Checks, Pins, next)
    BY <1>1, <1>4, <2>1, AfterTail DEF a
  <2>3. QED
    BY <2>2 DEF next
<1>14. After(Tail(todo[t]), Pins, Saves, Pinned(t)')
  <2> DEFINE next == Pinned(t)'
  <2>1. next \in BOOLEAN /\ After(todo[t], Pins, Saves, next)
    BY <1>12 DEF Pinned
  <2>2. a \in Pins => next
    <3>1. a \in Pins => n = "pin"
      BY Kinds DEF n
    <3>2. QED
      BY <1>1, <1>7, <1>8, <3>1 DEF Pinned, Present
  <2> HIDE DEF next
  <2>3. After(Tail(todo[t]), Pins, Saves, next)
    BY <1>1, <2>1, <2>2, AfterTail DEF a
  <2>4. QED
    BY <2>3 DEF next
<1>15. Pinning(t)' => Pinning(t)
  <2> SUFFICES ASSUME Pinning(t)' PROVE Pinning(t)
    OBVIOUS
  <2>1. PICK i \in DOMAIN todo'[t] :
          todo'[t][i] = Do("put", "pin") /\ \A j \in 1..i : todo'[t][j].op # "trust"
    BY DEF Pinning
  <2>2. i \in 1..Len(todo'[t])
    BY <1>2, LenProperties
  <2>3. i + 1 \in DOMAIN todo[t] /\ todo[t][i + 1] = Do("put", "pin")
    BY <1>2, <1>4, <2>1, <2>2
  <2>4. ASSUME NEW j \in 1..(i + 1) PROVE todo[t][j].op # "trust"
    <3>1. CASE j = 1
      BY <1>1, <1>2, <3>1 DEF a
    <3>2. CASE j # 1
      <4>1. j - 1 \in 1..i /\ j - 1 \in 1..(Len(todo[t]) - 1) /\ j = (j - 1) + 1
        BY <1>2, <2>2, <3>2
      <4>2. todo'[t][j - 1] = todo[t][j]
        BY <1>2, <4>1
      <4>3. QED
        BY <2>1, <4>1, <4>2
    <3>3. QED
      BY <3>1, <3>2
  <2>5. QED
    BY <2>3, <2>4 DEF Pinning
<1>16. \A u \in Threads : Pinning(u)' => Pinning(u)
  BY <1>1, <1>15 DEF Pinning
<1>17. \A o \in Msgs \cup {"session"} :
         Present(o)' => Present("pin")' /\ row'[o].of = row'["pin"].of
  <2>1. ASSUME NEW o \in Msgs \cup {"session"}, Present(o)'
        PROVE  Present("pin")' /\ row'[o].of = row'["pin"].of
    <3>1. CASE o = n
      BY <1>6, <1>7, <1>8, <1>9, <3>1 DEF Pinned
    <3>2. CASE o # n
      <4>1. row'[o] = row[o] /\ Present(o)
        BY <1>7, <1>8, <2>1, <3>2 DEF Present
      <4>2. QED
        BY <1>9, <4>1 DEF PinInv
    <3>3. QED
      BY <3>1, <3>2
  <2>2. QED
    BY <2>1
<1>18. \A u \in Threads : /\ After(todo'[u], Checks, Pins, Checked(u)')
                          /\ After(todo'[u], Pins, Saves, Pinned(u)')
  BY <1>1, <1>12, <1>13, <1>14
<1>19. QED
  BY <1>1, <1>16, <1>17, <1>18 DEF PinInv

LEMMA EndPin ==
  ASSUME TInv, TypeOK', PinInv, NEW p \in Procs, End(p)
  PROVE  PinInv'
<1>1. row' = row /\ \A t \in Threads : \/ todo'[t] = todo[t] /\ peer'[t] = peer[t]
                                       \/ todo'[t] = <<>>
  BY DEF End, storeVars
<1>2. QED
  BY <1>1, ListsOrdered, ListStep

LEMMA NextPin ==
  ASSUME TInv, TypeOK', Salted, PinInv, "contacted" \notin overlap', [Next]_vars
  PROVE  PinInv'
<1> USE DEF TInv
<1>1. ASSUME NEW p \in Procs, NEW c \in Commands, NEW w \in Passphrases, NEW k \in 1..peerKey,
             Open(p, c, w, k)
      PROVE  PinInv'
  <2>1. /\ row' = row /\ p \in Threads /\ Owner(p) = p /\ stage[p] = "idle"
        /\ \A t \in Threads : t # p => todo'[t] = todo[t] /\ peer'[t] = peer[t]
        /\ todo'[p] \in {todo[p], CommandTasks(c)}
    BY <1>1 DEF Open, Derive, TypeOK, storeVars, Threads, Owner
  <2>2. todo[p] = <<>>
    BY <2>1, OwnerWorks
  <2>3. Ordered(todo'[p])
    BY <2>1, <2>2, ListsOrdered
  <2>4. QED
    BY <2>1, <2>3, ListStep
<1>2. ASSUME NEW p \in Procs, Create(p) PROVE PinInv'
  <2>1. /\ row' = row /\ command[p] \in Commands
        /\ \A t \in Threads : t # p => todo'[t] = todo[t] /\ peer'[t] = peer[t]
        /\ todo'[p] = CommandTasks(command[p])
    BY <1>2 DEF Create, Derive, Working, TypeOK, Threads
  <2>2. QED
    BY <2>1, ListsOrdered, ListStep
<1>3. ASSUME NEW p \in Procs, End(p) PROVE PinInv'
  BY <1>3, EndPin
<1>4. ASSUME UNCHANGED <<row, todo, peer>> PROVE PinInv'
  BY <1>4, ListStep
<1>5. ASSUME NEW t \in Threads, Read(t) PROVE PinInv'
  BY <1>5, ReadPin
<1>6. ASSUME NEW t \in Threads, Write(t) PROVE PinInv'
  BY <1>6, WritePin
<1>7. ASSUME NEW t \in Threads, LookUp(t) PROVE PinInv'
  <2>1. /\ row' = row /\ \A u \in Threads : u # t => todo'[u] = todo[u] /\ peer'[u] = peer[u]
        /\ todo'[t] \in {EncryptTasks, ContactTasks \o EncryptTasks}
    BY <1>7 DEF LookUp, TypeOK, storeVars
  <2>2. QED
    BY <2>1, ListsOrdered, ListStep
<1>8. ASSUME NEW t \in Threads, Throw(t) PROVE PinInv'
  <2>1. CASE t \in Procs
    BY <1>3, <1>8, <2>1 DEF Throw
  <2>2. CASE t \notin Procs
    <3>1. /\ row' = row /\ \A u \in Threads : u # t => todo'[u] = todo[u] /\ peer'[u] = peer[u]
          /\ todo'[t] = <<>>
      BY <1>8, <2>2 DEF Throw, TypeOK, storeVars
    <3>2. QED
      BY <3>1, ListsOrdered, ListStep
  <2>3. QED
    BY <2>1, <2>2
<1>9. ASSUME NEW p \in Procs, NEW m \in Msgs, OnMessage(p, m) PROVE PinInv'
  <2>1. /\ row' = row /\ \A u \in Threads : u # m => todo'[u] = todo[u] /\ peer'[u] = peer[u]
        /\ todo'[m] = HandlerTasks(m)
    BY <1>9 DEF OnMessage, TypeOK, storeVars, Threads
  <2>2. QED
    BY <2>1, ListsOrdered, ListStep
<1>10. ASSUME \/ UNCHANGED vars \/ PeerStartsOver \/ \E m \in Msgs : PeerSends(m)
       PROVE  PinInv'
  BY <1>4, <1>10 DEF vars, PeerStartsOver, PeerSends, storeVars
<1>11. ASSUME NEW p \in Procs, \/ Ends(p) \/ Dies(p) \/ ForceExit(p) \/ Closed(p)
                               \/ Upgrade(p) \/ OnSignal(p)
       PROVE  PinInv'
  BY <1>3, <1>4, <1>11 DEF Ends, Dies, ForceExit, Closed, Upgrade, OnSignal, storeVars
<1>12. QED
  BY <1>1, <1>2, <1>5, <1>6, <1>7, <1>8, <1>9, <1>10, <1>11 DEF Next

LEMMA NextSalted == TInv /\ Salted /\ [Next]_vars => Salted'
<1> SUFFICES ASSUME TInv, Salted, [Next]_vars PROVE Salted'
  OBVIOUS
<1> USE DEF TInv
<1>1. ASSUME NEW p \in Procs, NEW c \in Commands, NEW w \in Passphrases, NEW k \in 1..peerKey,
             Open(p, c, w, k)
      PROVE  Salted'
  <2>1. \A q \in Procs : q # p => stage'[q] = stage[q] /\ key'[q] = key[q]
    BY <1>1 DEF Open, Derive, TypeOK
  <2>2. CASE kdf # 0
    <3>1. Derive(p, c, w, kdf)
      BY <1>1, <2>2 DEF Open, FoundSalt
    <3>2. key'[p].salt # 0
      BY <2>2, <3>1 DEF Derive, TypeOK
    <3>3. QED
      BY <2>1, <3>2 DEF Salted
  <2>3. CASE kdf = 0
    <3>1. stage'[p] = "creating"
      BY <1>1, <2>3 DEF Open, FoundSalt, TypeOK
    <3>2. QED
      BY <2>1, <3>1 DEF Salted
  <2>4. QED
    BY <2>2, <2>3
<1>2. ASSUME NEW p \in Procs, Create(p) PROVE Salted'
  BY <1>2 DEF Create, Derive, TypeOK, Salted
<1>3. ASSUME NEW p \in Procs, End(p) PROVE Salted'
  BY <1>3 DEF End, TypeOK, Salted
<1>4. ASSUME UNCHANGED <<stage, key>> PROVE Salted'
  BY <1>4 DEF Salted
<1>5. ASSUME NEW p \in Procs, \/ Ends(p) \/ Dies(p) \/ ForceExit(p) \/ Closed(p)
                              \/ Upgrade(p) \/ OnSignal(p)
      PROVE  Salted'
  BY <1>3, <1>4, <1>5 DEF Ends, Dies, ForceExit, Closed, Upgrade, OnSignal
<1>6. ASSUME NEW t \in Threads, Read(t) \/ LookUp(t) \/ Write(t) \/ Throw(t) PROVE Salted'
  BY <1>3, <1>4, <1>6 DEF Read, LookUp, Write, Throw
<1>7. ASSUME \/ UNCHANGED vars \/ PeerStartsOver \/ (\E m \in Msgs : PeerSends(m))
             \/ (\E p \in Procs, m \in Msgs : OnMessage(p, m))
      PROVE  Salted'
  BY <1>4, <1>7 DEF vars, PeerStartsOver, PeerSends, OnMessage
<1>8. QED
  BY <1>1, <1>2, <1>5, <1>6, <1>7 DEF Next

LEMMA InitPin == Init => PinInv /\ Salted
<1> SUFFICES ASSUME Init PROVE PinInv /\ Salted
  OBVIOUS
<1>1. \A n \in Msgs \cup {"session"} : ~Present(n)
  BY NoKeyType, CliAssumption DEF Init, Present, NoRow, Names
<1>2. \A t \in Threads : todo[t] = <<>>
  BY DEF Init
<1>3. \A t \in Threads : ~Pinning(t)
  BY <1>2 DEF Pinning
<1>4. QED
  BY <1>1, <1>2, <1>3 DEF Init, PinInv, Salted, After

\* Trust on first use: what the store has of the peer is of the pinned identity,
\* unless two threads had checked different keys before either pinned one.
THEOREM PinnedOnly == Spec => []InboxIsOfPinned
<1>1. Spec => []TInv
  BY InitTInv, NextTInv, PTL DEF Spec
<1>2. Init => IInv /\ Salted
  BY InitPin DEF IInv
<1>3. TInv /\ TInv' /\ IInv /\ Salted /\ [Next]_vars => IInv' /\ Salted'
  BY NextPin, NextSalted, OverlapGrows DEF IInv, TInv
<1>4. Spec => []IInv
  BY <1>1, <1>2, <1>3, PTL DEF Spec
<1>5. IInv => InboxIsOfPinned
  BY DEF IInv, PinInv, InboxIsOfPinned
<1>6. QED
  BY <1>4, <1>5, PTL
=============================================================================
