--------------------------- MODULE CallReturnProofs ---------------------------
(***************************************************************************)
(* Proofs about CallReturn, for every number of threads, addresses, calls   *)
(* and words.                                                               *)
(***************************************************************************)
EXTENDS CallReturnInv, SequenceTheorems, TLAPS

-------------------------------------------------------------------------------
(* Sequences.                                                                *)

\* Erasing one list node leaves a queue of nodes.
LEMMA RemoveAtType ==
    ASSUME NEW S, NEW s \in Seq(S), NEW i \in 1..Len(s)
    PROVE  /\ RemoveAt(s, i) \in Seq(S)
           /\ Len(RemoveAt(s, i)) = Len(s) - 1
           /\ \A j \in 1..(Len(s) - 1) :
                RemoveAt(s, i)[j] = IF j < i THEN s[j] ELSE s[j + 1]
  <1> DEFINE before == SubSeq(s, 1, i - 1)
             after  == SubSeq(s, i + 1, Len(s))
  <1>1. /\ Len(s) \in Nat
        /\ \A j \in 1..Len(s) : s[j] \in S
    BY LenProperties, ElementOfSeq
  <1> HIDE DEF before, after
  <1>2. /\ before \in Seq(S)
        /\ Len(before) = i - 1
        /\ \A j \in 1..(i - 1) : before[j] = s[j]
    <2>1. /\ 1 \in Int /\ i - 1 \in Int
          /\ \A j \in 1..(i - 1) : s[j] \in S
      BY <1>1
    <2>2. /\ before \in Seq(S)
          /\ Len(before) = IF 1 <= i - 1 THEN (i - 1) - 1 + 1 ELSE 0
          /\ \A j \in 1..((i - 1) - 1 + 1) : before[j] = s[1 + j - 1]
      BY <2>1, SubSeqProperties DEF before
    <2> QED
      BY <1>1, <2>2
  <1>3. /\ after \in Seq(S)
        /\ Len(after) = Len(s) - i
        /\ \A j \in 1..(Len(s) - i) : after[j] = s[i + j]
    <2>1. /\ i + 1 \in Int /\ Len(s) \in Int
          /\ \A j \in (i + 1)..Len(s) : s[j] \in S
      BY <1>1
    <2>2. /\ after \in Seq(S)
          /\ Len(after) = IF i + 1 <= Len(s) THEN Len(s) - (i + 1) + 1 ELSE 0
          /\ \A j \in 1..(Len(s) - (i + 1) + 1) : after[j] = s[(i + 1) + j - 1]
      BY <2>1, SubSeqProperties DEF after
    <2> QED
      BY <1>1, <2>2
  <1>4. /\ before \o after \in Seq(S)
        /\ Len(before \o after) = Len(s) - 1
        /\ \A j \in 1..(Len(s) - 1) :
             (before \o after)[j] = IF j <= i - 1 THEN before[j]
                                    ELSE after[j - (i - 1)]
    <2>1. /\ before \o after \in Seq(S)
          /\ Len(before \o after) = Len(before) + Len(after)
          /\ \A j \in 1..(Len(before) + Len(after)) :
               (before \o after)[j] = IF j <= Len(before) THEN before[j]
                                      ELSE after[j - Len(before)]
      BY <1>2, <1>3, ConcatProperties, Zenon
    <2>2. Len(before) + Len(after) = Len(s) - 1
      BY <1>1, <1>2, <1>3
    <2>3. Len(before) = i - 1
      BY <1>2
    <2> QED
      BY <2>1, <2>2, <2>3, Zenon
  <1>5. ASSUME NEW j \in 1..(Len(s) - 1)
        PROVE  (before \o after)[j] = IF j < i THEN s[j] ELSE s[j + 1]
    <2>1. CASE j < i
      BY <1>1, <1>2, <1>4, <2>1
    <2>2. CASE ~(j < i)
      <3>1. j - (i - 1) \in 1..(Len(s) - i) /\ i + (j - (i - 1)) = j + 1
        BY <1>1, <2>2
      <3>2. (before \o after)[j] = after[j - (i - 1)]
        BY <1>1, <1>4, <2>2
      <3> QED
        BY <1>3, <2>2, <3>1, <3>2
    <2> QED
      BY <2>1, <2>2
  <1> QED
    BY <1>4, <1>5 DEF RemoveAt, before, after
-------------------------------------------------------------------------------
(* Types.                                                                    *)

\* The initial state is well typed.
LEMMA InitType == Init => TypeInv
  <1> USE CallReturnAssumption
  <1> SUFFICES ASSUME Init PROVE TypeInv
    OBVIOUS
  <1>1. CallerTypes
    BY DEF Init, CallerTypes
  <1>2. HeapTypes
    <2>1. queue \in Seq(Node)
      BY EmptySeq DEF Init
    <2>2. mem \in [Rec -> Record]
      BY DEF Init, Record
    <2>3. /\ currentEpoch = FirstEpoch /\ mutex = None /\ live = {}
          /\ nodeRec = [n \in Node |-> None]
          /\ recLock = [a \in Rec |-> None]
      BY DEF Init
    <2> QED
      BY <2>1, <2>2, <2>3 DEF HeapTypes
  <1>3. ReturnerTypes
    BY DEF Init, ReturnerTypes, Message, NoMessage
  <1>4. WireTypes
    BY DEF Init, WireTypes
  <1>5. CallerHas /\ ReturnerHas
    BY DEF Init, CallerHas, ReturnerHas, InCall
  <1> QED
    BY <1>1, <1>2, <1>3, <1>4, <1>5 DEF TypeInv, TypeOK

\* A step of a caller keeps every variable in its type.
LEMMA CallerType ==
    ASSUME TypeInv, NEW c \in Caller, CallerStep(c) \/ SpuriousWakeup(c)
    PROVE  TypeInv'
  <1> USE CallReturnAssumption DEF TypeInv, TypeOK
  <1>1. CASE CreateRec(c)
    <2>1. PICK a \in Rec \ live, n \in Requested :
            /\ rec' = [rec EXCEPT ![c] = a]
            /\ want' = [want EXCEPT ![c] = n]
            /\ live' = live \cup {a}
            /\ mem' = [mem EXCEPT ![a] =
                         [epoch |-> currentEpoch, errorCode |-> 0,
                          completed |-> FALSE, block |-> c, size |-> n,
                          provided |-> @.provided]]
            /\ recLock' = [recLock EXCEPT ![a] = None]
      BY <1>1 DEF CreateRec
    <2>2. n \in 0..MaxOsds
      OBVIOUS
    <2>3. mem' \in [Rec -> Record]
      BY <2>1, <2>2 DEF Record, HeapTypes
    <2>4. HeapTypes'
      BY <1>1, <2>1, <2>3 DEF CreateRec, HeapTypes
    <2>5. CallerTypes' /\ CallerHas'
      BY <1>1, <2>1, <2>2 DEF CreateRec, CallerTypes, CallerHas, InCall
    <2> QED
      BY <1>1, <2>4, <2>5
         DEF CreateRec, ReturnerTypes, WireTypes, ReturnerHas, returnVars,
             sandboxVars
  <1>2. CASE PushRec(c)
    <2>1. PICK n \in FreeNodes :
            /\ nodeRec' = [nodeRec EXCEPT ![n] = rec[c]]
            /\ queue' = Append(queue, n)
      BY <1>2 DEF PushRec
    <2>2. n \in Node
      BY DEF FreeNodes
    <2>3. queue' \in Seq(Node)
      BY <2>1, <2>2, AppendProperties DEF HeapTypes
    <2>4. rec[c] \in Rec
      BY <1>2 DEF PushRec, CallerHas, InCall
    <2>5. mem[rec[c]].epoch + 1 \in Int
      BY <2>4 DEF Record, HeapTypes
    <2>6. HeapTypes'
      BY <1>2, <2>1, <2>2, <2>3, <2>4, <2>5 DEF PushRec, HeapTypes, recVars
    <2>7. CallerTypes' /\ CallerHas'
      BY <1>2 DEF PushRec, CallerTypes, CallerHas, InCall
    <2> QED
      BY <1>2, <2>6, <2>7
         DEF PushRec, ReturnerTypes, WireTypes, ReturnerHas, returnVars,
             sandboxVars
  <1>3. CASE SendCall(c)
    <2>1. rec[c] \in Rec /\ want[c] \in Nat
      <3>1. want[c] \in 0..MaxOsds /\ MaxOsds \in Nat
        BY DEF CallerTypes
      <3>2. rec[c] \in Rec
        BY <1>3 DEF SendCall, CallerHas, InCall
      <3> QED
        BY <3>1, <3>2
    <2>2. mem[rec[c]].epoch \in Int
      BY <2>1 DEF Record, HeapTypes
    <2>3. wire' \subseteq Message
      BY <1>3, <2>1, <2>2 DEF SendCall, Message, WireTypes
    <2>4. CallerTypes' /\ CallerHas'
      BY <1>3 DEF SendCall, AfterFailedSend, CallerTypes, CallerHas, InCall
    <2> QED
      BY <1>3, <2>3, <2>4
         DEF SendCall, HeapTypes, ReturnerTypes, WireTypes, ReturnerHas,
             handlerVars, recVars, returnVars
  <1>4. CASE WaitForReturn(c) \/ SpuriousWakeup(c) \/ Resume(c)
    <2>1. CallerTypes' /\ CallerHas'
      BY <1>4 DEF WaitForReturn, SpuriousWakeup, Resume, Awaiting, CallerTypes,
                  CallerHas, InCall
    <2> QED
      BY <1>4, <2>1
         DEF WaitForReturn, SpuriousWakeup, Resume, HeapTypes, ReturnerTypes,
             WireTypes, ReturnerHas, handlerVars, recVars, returnVars,
             sandboxVars
  <1>5. CASE Leave(c)
    <2>1. rec[c] \in Rec /\ calls[c] < CallCount
      BY <1>5 DEF Leave, CallerHas, InCall
    <2>2. HeapTypes'
      BY <1>5 DEF Leave, HeapTypes, handlerVars
    <2>3. calls[c] + 1 \in 0..CallCount
          /\ (calls[c] + 1 # CallCount => calls[c] + 1 < CallCount)
      BY <2>1 DEF CallerTypes
    <2>4. CallerTypes' /\ CallerHas'
      BY <1>5, <2>3 DEF Leave, AfterCall, CallerTypes, CallerHas, InCall
    <2> QED
      BY <1>5, <2>2, <2>4
         DEF Leave, ReturnerTypes, WireTypes, ReturnerHas, returnVars,
             sandboxVars
  <1> QED
    BY <1>1, <1>2, <1>3, <1>4, <1>5 DEF CallerStep

\* A step of a returner keeps every variable in its type.
LEMMA ReturnerType ==
    ASSUME TypeInv, ~corrupt, NEW r \in Returner, ReturnerStep(r)
    PROVE  TypeInv'
  <1> USE CallReturnAssumption DEF TypeInv, TypeOK
  <1>1. CASE Receive(r)
    <2>1. PICK m \in wire :
            /\ wire' = wire \ {m}
            /\ \/ /\ msg' = [msg EXCEPT ![r] = m]
                  /\ rpc' = [rpc EXCEPT ![r] = "find"]
               \/ /\ msg' = [msg EXCEPT ![r] = [m EXCEPT !.epoch = HeaderWord]]
                  /\ rpc' = [rpc EXCEPT ![r] = "find"]
               \/ UNCHANGED <<msg, rpc>>
      BY <1>1 DEF Receive
    <2>2. m \in Message
      BY DEF WireTypes
    <2>3. [m EXCEPT !.epoch = HeaderWord] \in Message
      BY <2>2 DEF Message
    <2>4. ReturnerTypes' /\ ReturnerHas'
      BY <1>1, <2>1, <2>2, <2>3 DEF Receive, ReturnerTypes, ReturnerHas
    <2> QED
      BY <1>1, <2>1, <2>4
         DEF Receive, CallerTypes, HeapTypes, WireTypes, CallerHas, InCall,
             callerVars, handlerVars, recVars
  <1>2. CASE FindByEpoch(r)
    <2>1. CASE /\ rpc' = [rpc EXCEPT ![r] = "recv"]
               /\ msg' = [msg EXCEPT ![r] = NoMessage]
               /\ UNCHANGED <<queue, it>>
      <3>1. NoMessage \in Message
        BY DEF NoMessage, Message
      <3>2. ReturnerTypes' /\ ReturnerHas'
        BY <1>2, <2>1, <3>1 DEF FindByEpoch, ReturnerTypes, ReturnerHas
      <3> QED
        BY <1>2, <2>1, <3>2
           DEF FindByEpoch, CallerTypes, HeapTypes, WireTypes, CallerHas,
               InCall, callerVars, recVars, sandboxVars
    <2>2. ASSUME NEW i \in Matching(msg[r].epoch),
                 it' = [it EXCEPT ![r] = queue[i]], queue' = Erase(i),
                 rpc' = [rpc EXCEPT ![r] = "submit"], UNCHANGED msg
          PROVE  TypeInv'
      <3>1. i \in 1..Len(queue) /\ queue \in Seq(Node)
        BY DEF Matching, HeapTypes
      <3>2. queue[i] \in Node
        BY <3>1, ElementOfSeq
      <3>3. queue' \in Seq(Node)
        BY <2>2, <3>1, RemoveAtType DEF Erase
      <3>4. ReturnerTypes' /\ ReturnerHas'
        BY <1>2, <2>2, <3>2 DEF FindByEpoch, ReturnerTypes, ReturnerHas
      <3> QED
        BY <1>2, <3>3, <3>4
           DEF FindByEpoch, CallerTypes, HeapTypes, WireTypes, CallerHas,
               InCall, callerVars, recVars, sandboxVars
    <2> QED
      BY <1>2, <2>1, <2>2 DEF FindByEpoch
  <1>3. CASE Submit(r)
    <2> DEFINE a == nodeRec[it[r]]
    <2>1. it[r] \in Node /\ a \in Rec \cup {None} /\ live \subseteq Rec
      BY <1>3 DEF Submit, ReturnerHas, HeapTypes
    <2>2. CASE a \notin live
      <3>1. ReturnerTypes'
        BY <1>3, <2>1, <2>2 DEF Submit, ReturnerTypes
      <3>2. ReturnerHas'
        BY <1>3, <2>2 DEF Submit, ReturnerHas
      <3> QED
        BY <1>3, <2>2, <3>1, <3>2
           DEF Submit, CallerTypes, HeapTypes, WireTypes, CallerHas, InCall,
               handlerVars, sandboxVars
    <2>3. CASE a \in live
      <3>1. a \in Rec /\ mem[a] \in Record /\ msg[r] \in Message
        BY <2>1, <2>3 DEF HeapTypes, ReturnerTypes
      <3>2. mem' \in [Rec -> Record]
        <4>1. CASE CompleteWithReturn(a, msg[r])
          BY <3>1, <4>1 DEF CompleteWithReturn, Record, Message, HeapTypes
        <4>2. CASE CompleteWithError(a)
          BY <3>1, <4>2 DEF CompleteWithError, Record, ErrorTruth, HeapTypes
        <4> QED
          BY <1>3, <2>3, <4>1, <4>2 DEF Submit
      <3>3. osdList' \in [Caller -> [1..MaxOsds -> Int]]
        <4>1. CASE CompleteWithError(a)
          BY <4>1 DEF CompleteWithError, CallerTypes
        <4>2. CASE CompleteWithReturn(a, msg[r])
          <5>1. msg[r].epoch \in Int
            BY <3>1 DEF Message
          <5> QED
            BY <4>2, <5>1 DEF CompleteWithReturn, CallerTypes
        <4> QED
          BY <1>3, <2>3, <4>1, <4>2 DEF Submit
      <3>4. recLock' \in [Rec -> Returner \cup {None}]
        BY <1>3, <2>3 DEF Submit, HeapTypes
      <3>5. ReturnerTypes' /\ ReturnerHas'
        BY <1>3, <2>3, <3>1 DEF Submit, ReturnerTypes, ReturnerHas
      <3> QED
        BY <1>3, <2>3, <3>2, <3>3, <3>4, <3>5
           DEF Submit, CallerTypes, HeapTypes, WireTypes, CallerHas, InCall,
               handlerVars, sandboxVars
    <2> QED
      BY <2>2, <2>3
  <1>4. CASE Signal(r)
    <2>1. NoMessage \in Message
      BY DEF NoMessage, Message
    <2>2. ReturnerTypes' /\ ReturnerHas'
      BY <1>4, <2>1 DEF Signal, ReturnerTypes, ReturnerHas
    <2>3. CallerTypes' /\ CallerHas'
      BY <1>4 DEF Signal, Woken, CallerTypes, CallerHas, InCall
    <2>4. HeapTypes'
      BY <1>4 DEF Signal, HeapTypes, handlerVars
    <2> QED
      BY <1>4, <2>2, <2>3, <2>4 DEF Signal, WireTypes, sandboxVars
  <1> QED
    BY <1>1, <1>2, <1>3, <1>4 DEF ReturnerStep

\* Giving freed memory to somebody else changes no live record.
LEMMA Reuses ==
    ASSUME TypeInv, ReuseMemory
    PROVE  /\ mem' \in [Rec -> Record]
           /\ \A a \in live : mem'[a] = mem[a]
           /\ \A a \in Rec : \/ mem'[a] = mem[a]
                             \/ mem'[a].epoch \in Garbage
           /\ UNCHANGED <<pc, rec, want, rv, calls, osdList, currentEpoch,
                          mutex, queue, nodeRec, live, recLock, rpc, msg, it,
                          target, wire, up, corrupt>>
  <1>1. PICK b \in Rec \ live, e \in Garbage :
          mem' = [mem EXCEPT ![b].epoch = e]
    BY DEF ReuseMemory
  <1>2. mem \in [Rec -> Record] /\ live \subseteq Rec /\ e \in Int
    BY CallReturnAssumption DEF TypeInv, TypeOK, HeapTypes
  <1>3. [mem[b] EXCEPT !.epoch = e] \in Record
    BY <1>2 DEF Record
  <1>4. mem' \in [Rec -> Record]
    BY <1>1, <1>2, <1>3
  <1>5. \A a \in Rec : mem'[a] = IF a = b THEN [mem[b] EXCEPT !.epoch = e]
                                         ELSE mem[a]
    BY <1>1, <1>2
  <1>6. [mem[b] EXCEPT !.epoch = e].epoch = e
    BY <1>2 DEF Record
  <1> QED
    BY <1>2, <1>4, <1>5, <1>6
       DEF ReuseMemory, callerVars, handlerVars, returnVars, sandboxVars

\* Every step keeps every variable in its type, whatever the faults.
LEMMA NextType == TypeInv /\ [Next]_vars => TypeInv'
  <1> SUFFICES ASSUME TypeInv, [Next]_vars PROVE TypeInv'
    OBVIOUS
  <1>1. CASE SandboxReply
    <2>1. wire' \subseteq Message
      BY <1>1 DEF SandboxReply, Message, TypeInv, TypeOK, WireTypes
    <2> QED
      BY <1>1, <2>1
         DEF SandboxReply, TypeInv, TypeOK, CallerTypes, HeapTypes,
             ReturnerTypes, WireTypes, CallerHas, ReturnerHas, InCall,
             callerVars, handlerVars, recVars, returnVars
  <1>2. CASE SandboxDeath
    BY <1>2
       DEF SandboxDeath, TypeInv, TypeOK, CallerTypes, HeapTypes,
           ReturnerTypes, WireTypes, CallerHas, ReturnerHas, InCall,
           callerVars, handlerVars, recVars, returnVars
  <1>3. CASE UNCHANGED vars
    BY <1>3
       DEF vars, TypeInv, TypeOK, CallerTypes, HeapTypes, ReturnerTypes,
           WireTypes, CallerHas, ReturnerHas, InCall, callerVars, handlerVars,
           recVars, returnVars, sandboxVars
  <1>4. CASE ReuseMemory
    BY <1>4, Reuses
       DEF TypeInv, TypeOK, CallerTypes, HeapTypes, ReturnerTypes, WireTypes,
           CallerHas, ReturnerHas, InCall
  <1> QED
    BY <1>1, <1>2, <1>3, <1>4, CallerType, ReturnerType DEF Next, Quiet

\* Every variable keeps its type in every behaviour, whatever the faults.
THEOREM TypeCorrect == Spec => []TypeOK
  <1>1. Spec => []TypeInv
    BY InitType, NextType, PTL DEF Spec
  <1>2. TypeInv => TypeOK
    BY DEF TypeInv
  <1> QED
    BY <1>1, <1>2, PTL

-------------------------------------------------------------------------------
(* What no fault can break.                                                  *)

\* The epochs of live records stay apart when calls move between the states
\* that lie behind createRec.
LEMMA CoreKept ==
    ASSUME TypeInv, CoreInv,
           UNCHANGED <<rec, want, currentEpoch, mutex, live>>,
           \A c \in Caller : \/ pc'[c] = pc[c]
                             \/ /\ pc[c] \notin {"create", "push", "end"}
                                /\ pc'[c] \notin {"create", "push", "end"},
           \A a \in live : /\ mem'[a].epoch = mem[a].epoch
                           /\ mem'[a].block = mem[a].block
                           /\ mem'[a].size = mem[a].size
    PROVE  MutexInv' /\ OwnerInv' /\ EpochInv'
  <1>1. \A c \in Caller : /\ InCall(c)' <=> InCall(c)
                          /\ pc'[c] = "push" <=> pc[c] = "push"
    BY DEF InCall
  <1>2. \A a \in live : Owner(a)' = Owner(a) /\ Owner(a) \in Caller
    BY DEF Owner, CoreInv, OwnerInv
  <1>3. \A a \in live : BeingMade(a)' <=> BeingMade(a)
    BY <1>1, <1>2 DEF BeingMade
  <1>4. MutexInv'
    BY <1>1 DEF CoreInv, MutexInv
  <1>5. OwnerInv'
    BY <1>1, <1>2 DEF CoreInv, OwnerInv
  <1>6. EpochInv'
    BY <1>3 DEF CoreInv, EpochInv
  <1> QED
    BY <1>4, <1>5, <1>6

\* createRec takes an address and an epoch that no live record has.
LEMMA CoreCreateRec ==
    ASSUME TypeInv, CoreInv, NEW c \in Caller, CreateRec(c)
    PROVE  CoreInv'
  <1> USE CallReturnAssumption
  <1>1. PICK b \in Rec \ live, n \in Requested :
          /\ rec' = [rec EXCEPT ![c] = b]
          /\ want' = [want EXCEPT ![c] = n]
          /\ live' = live \cup {b}
          /\ mem' = [mem EXCEPT ![b] =
                       [epoch |-> currentEpoch, errorCode |-> 0,
                        completed |-> FALSE, block |-> c, size |-> n,
                        provided |-> @.provided]]
    BY DEF CreateRec
  <1>2. /\ pc[c] = "create" /\ mutex = None /\ mutex' = c
        /\ pc' = [pc EXCEPT ![c] = "push"]
        /\ UNCHANGED <<currentEpoch, rpc, target>>
    BY DEF CreateRec, HandlerFree, returnVars
  <1>3. /\ pc'[c] = "push" /\ rec'[c] = b /\ want'[c] = n
        /\ \A d \in Caller \ {c} :
             pc'[d] = pc[d] /\ rec'[d] = rec[d] /\ want'[d] = want[d]
    BY <1>1, <1>2 DEF TypeInv, TypeOK, CallerTypes
  <1>4. /\ mem'[b].epoch = currentEpoch /\ mem'[b].size = n /\ Owner(b)' = c
        /\ \A a \in live : mem'[a] = mem[a]
    BY <1>1 DEF TypeInv, TypeOK, HeapTypes, Owner
  <1>5. ~InCall(c) /\ InCall(c)'
        /\ \A d \in Caller \ {c} : InCall(d)' <=> InCall(d)
    BY <1>2, <1>3 DEF InCall
  <1>6. \A a \in live : Owner(a) \in Caller \ {c} /\ Owner(a)' = Owner(a)
    BY <1>4, <1>5 DEF CoreInv, OwnerInv, Owner
  <1>7. \A a \in live : ~BeingMade(a)' /\ ~BeingMade(a)
    BY <1>2, <1>3, <1>6 DEF BeingMade, CoreInv, MutexInv
  <1>8. MutexInv'
    BY <1>2, <1>3 DEF CoreInv, MutexInv
  <1>9. OwnerInv'
    BY <1>1, <1>3, <1>4, <1>5, <1>6 DEF CoreInv, OwnerInv, Owner
  <1>10. EpochInv'
    <2>1. BeingMade(b)'
      BY <1>3, <1>4 DEF BeingMade
    <2>2. \A a \in live : mem[a].epoch < currentEpoch /\ mem[a].epoch \in Int
      BY <1>7 DEF CoreInv, EpochInv, TypeInv, TypeOK, HeapTypes, Record
    <2>3. \A a \in live : mem'[a].epoch # mem'[b].epoch
      BY <1>4, <2>2 DEF TypeInv, TypeOK, HeapTypes
    <2> QED
      BY <1>1, <1>2, <1>4, <1>7, <2>1, <2>2, <2>3 DEF CoreInv, EpochInv
  <1>11. NoLostWakeup'
    <2>1. \A d \in Caller : InCall(d) => rec[d] \in live
      BY DEF CoreInv, OwnerInv
    <2> QED
      BY <1>2, <1>3, <1>4, <2>1 DEF CoreInv, NoLostWakeup, InCall
  <1> QED
    BY <1>8, <1>9, <1>10, <1>11 DEF CoreInv

\* The next epoch is above all that are in use.
LEMMA CorePushRec ==
    ASSUME TypeInv, CoreInv, NEW c \in Caller, PushRec(c)
    PROVE  CoreInv'
  <1> USE CallReturnAssumption
  <1>1. /\ pc[c] = "push" /\ mutex' = None
        /\ pc' = [pc EXCEPT ![c] = "send"]
        /\ currentEpoch' = mem[rec[c]].epoch + 1
        /\ UNCHANGED <<rec, want, live, mem, rpc, target>>
    BY DEF PushRec, recVars, returnVars
  <1>2. /\ mutex = c /\ pc'[c] = "send"
        /\ \A d \in Caller \ {c} : pc'[d] = pc[d] /\ pc[d] # "push"
    BY <1>1 DEF CoreInv, MutexInv, TypeInv, TypeOK, CallerTypes
  <1>3. InCall(c) /\ rec[c] \in live /\ BeingMade(rec[c])
    BY <1>1 DEF CoreInv, OwnerInv, InCall, BeingMade
  <1>4. \A d \in Caller : InCall(d)' <=> InCall(d)
    BY <1>1, <1>2 DEF InCall
  <1>5. \A a \in live : ~BeingMade(a)'
    BY <1>1, <1>2 DEF BeingMade, Owner, CoreInv, OwnerInv
  <1>6. MutexInv'
    BY <1>1, <1>2 DEF CoreInv, MutexInv
  <1>7. OwnerInv'
    BY <1>1, <1>4 DEF CoreInv, OwnerInv, Owner
  <1>8. EpochInv'
    <2>1. currentEpoch \in Int /\ \A a \in live : mem[a].epoch \in Int
      BY DEF TypeInv, TypeOK, HeapTypes, Record
    <2>2. mem[rec[c]].epoch = currentEpoch
      BY <1>3 DEF CoreInv, EpochInv
    <2>3. \A a \in live : mem[a].epoch <= currentEpoch
      BY <2>1 DEF CoreInv, EpochInv
    <2>4. \A a \in live : mem[a].epoch < currentEpoch'
      BY <1>1, <2>1, <2>2, <2>3
    <2> QED
      BY <1>1, <1>5, <2>4 DEF CoreInv, EpochInv
  <1>9. NoLostWakeup'
    BY <1>1, <1>2 DEF CoreInv, NoLostWakeup
  <1> QED
    BY <1>6, <1>7, <1>8, <1>9 DEF CoreInv

\* A caller falls asleep only if its call is not completed.
LEMMA CoreWaiting ==
    ASSUME TypeInv, CoreInv, NEW c \in Caller,
           SendCall(c) \/ WaitForReturn(c) \/ SpuriousWakeup(c) \/ Resume(c)
    PROVE  CoreInv'
  <1>1. /\ pc[c] \in {"send", "wait", "blocked", "woken"}
        /\ pc'[c] \in {"wait", "blocked", "woken", "leave"}
        /\ pc'[c] = "blocked" => ~mem[rec[c]].completed
        /\ \A d \in Caller \ {c} : pc'[d] = pc[d]
        /\ UNCHANGED <<rec, want, currentEpoch, mutex, live, mem, rpc, target>>
    BY DEF SendCall, WaitForReturn, SpuriousWakeup, Resume, Awaiting,
           AfterFailedSend, TypeInv, TypeOK, CallerTypes, handlerVars, recVars,
           returnVars
  <1>2. MutexInv' /\ OwnerInv' /\ EpochInv'
    BY <1>1, CoreKept
  <1>3. NoLostWakeup'
    BY <1>1 DEF CoreInv, NoLostWakeup
  <1> QED
    BY <1>2, <1>3 DEF CoreInv

\* A record is destroyed together with its call.
LEMMA CoreLeave ==
    ASSUME TypeInv, CoreInv, NEW c \in Caller, Leave(c)
    PROVE  CoreInv'
  <1> USE CallReturnAssumption
  <1> DEFINE b == rec[c]
  <1>1. /\ pc[c] = "leave"
        /\ live' = live \ {b}
        /\ rec' = [rec EXCEPT ![c] = None]
        /\ want' = [want EXCEPT ![c] = 0]
        /\ pc' = [pc EXCEPT ![c] = AfterCall(c)]
        /\ UNCHANGED <<currentEpoch, mutex, mem, rpc, target>>
    BY DEF Leave, handlerVars, returnVars
  <1>3. InCall(c) /\ b \in live /\ Owner(b) = c
    BY <1>1 DEF CoreInv, OwnerInv, InCall
  <1>4. /\ pc'[c] \in {"create", "end"}
        /\ \A d \in Caller \ {c} :
             pc'[d] = pc[d] /\ rec'[d] = rec[d] /\ want'[d] = want[d]
    BY <1>1 DEF AfterCall, TypeInv, TypeOK, CallerTypes
  <1>5. /\ \A d \in Caller : pc'[d] = "push" <=> pc[d] = "push"
        /\ ~InCall(c)'
        /\ \A d \in Caller \ {c} : InCall(d)' <=> InCall(d)
    BY <1>1, <1>4 DEF InCall
  <1>6. \A a \in live \ {b} : mem'[a] = mem[a]
    BY <1>1
  <1>7. \A d \in Caller \ {c} : InCall(d) => rec[d] \in live \ {b}
    BY <1>3 DEF CoreInv, OwnerInv
  <1>8. \A a \in live \ {b} :
          /\ Owner(a) \in Caller \ {c} /\ Owner(a)' = Owner(a)
          /\ BeingMade(a)' <=> BeingMade(a)
    BY <1>3, <1>5, <1>6 DEF CoreInv, OwnerInv, Owner, BeingMade
  <1>9. MutexInv'
    BY <1>1, <1>5 DEF CoreInv, MutexInv
  <1>10. OwnerInv'
    BY <1>1, <1>4, <1>5, <1>6, <1>7, <1>8 DEF CoreInv, OwnerInv, Owner
  <1>11. EpochInv'
    BY <1>1, <1>6, <1>8 DEF CoreInv, EpochInv
  <1>12. NoLostWakeup'
    BY <1>1, <1>4, <1>6, <1>7 DEF CoreInv, NoLostWakeup, InCall
  <1> QED
    BY <1>9, <1>10, <1>11, <1>12 DEF CoreInv

\* Receiving and finding touch neither callers nor records.
LEMMA CoreFind ==
    ASSUME TypeInv, CoreInv, NEW r \in Returner, Receive(r) \/ FindByEpoch(r)
    PROVE  CoreInv'
  <1>1. /\ rpc[r] \in {"recv", "find"}
        /\ \A s \in Returner \ {r} : rpc'[s] = rpc[s]
        /\ UNCHANGED <<pc, rec, want, currentEpoch, mutex, live, mem, target>>
    BY DEF Receive, FindByEpoch, TypeInv, TypeOK, ReturnerTypes, callerVars,
           handlerVars, recVars
  <1>2. MutexInv' /\ OwnerInv' /\ EpochInv'
    BY <1>1, CoreKept
  <1>3. NoLostWakeup'
    BY <1>1 DEF CoreInv, NoLostWakeup
  <1> QED
    BY <1>2, <1>3 DEF CoreInv

\* What completing a record, with a reply or an error, does to it.
LEMMA Completes ==
    ASSUME TypeInv, NEW b \in live, NEW m \in Message,
           CompleteWithReturn(b, m) \/ CompleteWithError(b)
    PROVE  /\ mem'[b].completed = TRUE /\ mem'[b].epoch = mem[b].epoch
           /\ mem'[b].block = mem[b].block /\ mem'[b].size = mem[b].size
           /\ \A a \in Rec \ {b} : mem'[a] = mem[a]
  <1>1. mem \in [Rec -> Record] /\ b \in Rec /\ mem[b] \in Record
    BY DEF TypeInv, TypeOK, HeapTypes
  <1>2. CASE CompleteWithReturn(b, m)
    BY <1>1, <1>2 DEF CompleteWithReturn, Record
  <1>3. CASE CompleteWithError(b)
    BY <1>1, <1>3 DEF CompleteWithError, Record
  <1> QED
    BY <1>2, <1>3

\* Whoever completes a call is to signal; whoever uses what is destroyed is lost.
LEMMA CoreSubmit ==
    ASSUME TypeInv, CoreInv, NEW r \in Returner, Submit(r)
    PROVE  CoreInv'
  <1> DEFINE b == nodeRec[it[r]]
  <1>1. /\ rpc[r] = "submit"
        /\ target' = [target EXCEPT ![r] = b]
        /\ UNCHANGED <<pc, rec, want, currentEpoch, mutex, live>>
    BY DEF Submit, handlerVars
  <1>2. \A s \in Returner \ {r} : target'[s] = target[s]
    BY <1>1 DEF TypeInv, TypeOK, ReturnerTypes
  <1>3. CASE b \notin live
    <2>1. mem' = mem /\ rpc' = rpc
      BY <1>3 DEF Submit
    <2>2. MutexInv' /\ OwnerInv' /\ EpochInv'
      BY <1>1, <2>1, CoreKept
    <2>3. NoLostWakeup'
      BY <1>1, <1>2, <2>1 DEF CoreInv, NoLostWakeup
    <2> QED
      BY <2>2, <2>3 DEF CoreInv
  <1>4. CASE b \in live
    <2>1. /\ CompleteWithReturn(b, msg[r]) \/ CompleteWithError(b)
          /\ rpc' = [rpc EXCEPT ![r] = "signal"]
          /\ msg[r] \in Message /\ live \subseteq Rec
      BY <1>4 DEF Submit, TypeInv, TypeOK, ReturnerTypes, HeapTypes
    <2>2. /\ rpc'[r] = "signal" /\ target'[r] = b
          /\ \A s \in Returner \ {r} : rpc'[s] = rpc[s]
      BY <1>1, <2>1, <1>4 DEF TypeInv, TypeOK, ReturnerTypes, HeapTypes
    <2> HIDE DEF b
    <2>3. /\ \A a \in live : /\ mem'[a].epoch = mem[a].epoch
                             /\ mem'[a].block = mem[a].block
                             /\ mem'[a].size = mem[a].size
          /\ \A a \in live \ {b} : mem'[a] = mem[a]
      BY <1>4, <2>1, Completes
    <2>4. MutexInv' /\ OwnerInv' /\ EpochInv'
      BY <1>1, <2>3, CoreKept
    <2>5. NoLostWakeup'
      <3> SUFFICES ASSUME NEW c \in Caller, pc[c] = "blocked",
                          mem'[rec[c]].completed
                   PROVE  \E s \in Returner :
                            rpc'[s] = "signal" /\ target'[s] = rec[c]
        BY <1>1 DEF NoLostWakeup
      <3>1. rec[c] \in live
        BY DEF CoreInv, OwnerInv, InCall
      <3>2. CASE rec[c] = b
        BY <2>2, <3>2
      <3>3. CASE rec[c] # b
        <4>1. PICK s \in Returner : rpc[s] = "signal" /\ target[s] = rec[c]
          BY <2>3, <3>1, <3>3 DEF CoreInv, NoLostWakeup
        <4>2. s # r
          BY <1>1, <4>1
        <4> QED
          BY <1>2, <2>2, <4>1, <4>2
      <3> QED
        BY <3>2, <3>3
    <2> QED
      BY <2>4, <2>5 DEF CoreInv
  <1> QED
    BY <1>3, <1>4

\* After a signal nobody sleeps on the record.
LEMMA CoreSignal ==
    ASSUME TypeInv, CoreInv, NEW r \in Returner, Signal(r)
    PROVE  CoreInv'
  <1> DEFINE b == target[r]
  <1>1. UNCHANGED <<rec, want, currentEpoch, mutex, live, mem>>
    BY DEF Signal, handlerVars
  <1>2. CASE b \in live
    <2>1. /\ pc' = [c \in Caller |-> IF c \in Woken(b) THEN "woken" ELSE pc[c]]
          /\ rpc' = [rpc EXCEPT ![r] = "recv"]
          /\ target' = [target EXCEPT ![r] = None]
      BY <1>2 DEF Signal
    <2>2. \A c \in Caller :
            \/ pc'[c] = pc[c] /\ ~(pc[c] = "blocked" /\ rec[c] = b)
            \/ pc'[c] = "woken" /\ pc[c] = "blocked" /\ rec[c] = b
      BY <2>1 DEF Woken
    <2>3. \A s \in Returner \ {r} : rpc'[s] = rpc[s] /\ target'[s] = target[s]
      BY <2>1 DEF TypeInv, TypeOK, ReturnerTypes
    <2>4. MutexInv' /\ OwnerInv' /\ EpochInv'
      BY <1>1, <2>2, CoreKept
    <2>5. NoLostWakeup'
      BY <1>1, <2>2, <2>3 DEF CoreInv, NoLostWakeup
    <2> QED
      BY <2>4, <2>5 DEF CoreInv
  <1>3. CASE b \notin live
    <2>1. UNCHANGED <<pc, rpc, target>>
      BY <1>3 DEF Signal
    <2>2. MutexInv' /\ OwnerInv' /\ EpochInv'
      BY <1>1, <2>1, CoreKept
    <2>3. NoLostWakeup'
      BY <1>1, <2>1 DEF CoreInv, NoLostWakeup
    <2> QED
      BY <2>2, <2>3 DEF CoreInv
  <1> QED
    BY <1>2, <1>3

\* Every step preserves CoreInv, whatever the faults.
LEMMA CoreNext ==
    ASSUME TypeInv, CoreInv, [Next]_vars
    PROVE  CoreInv'
  <1>1. ASSUME NEW c \in Caller, CallerStep(c) \/ SpuriousWakeup(c)
        PROVE  CoreInv'
    BY <1>1, CoreCreateRec, CorePushRec, CoreWaiting, CoreLeave DEF CallerStep
  <1>2. ASSUME NEW r \in Returner, ReturnerStep(r) PROVE CoreInv'
    BY <1>2, CoreFind, CoreSubmit, CoreSignal DEF ReturnerStep
  <1>3. CASE SandboxReply \/ SandboxDeath \/ UNCHANGED vars
    <2>1. UNCHANGED <<pc, rec, want, currentEpoch, mutex, live, mem, rpc,
                      target>>
      BY <1>3 DEF SandboxReply, SandboxDeath, vars, callerVars, handlerVars,
                  recVars, returnVars
    <2>2. MutexInv' /\ OwnerInv' /\ EpochInv'
      BY <2>1, CoreKept
    <2>3. NoLostWakeup'
      BY <2>1 DEF CoreInv, NoLostWakeup
    <2> QED
      BY <2>2, <2>3 DEF CoreInv
  <1>4. CASE ReuseMemory
    <2>1. MutexInv' /\ OwnerInv' /\ EpochInv'
      BY <1>4, Reuses, CoreKept
    <2>2. \A c \in Caller : pc[c] = "blocked" => rec[c] \in live
      BY DEF CoreInv, OwnerInv, InCall
    <2>3. NoLostWakeup'
      BY <1>4, <2>2, Reuses DEF CoreInv, NoLostWakeup
    <2> QED
      BY <2>1, <2>3 DEF CoreInv
  <1> QED
    BY <1>1, <1>2, <1>3, <1>4 DEF Next, Quiet

\* In the initial state nothing is live.
LEMMA CoreInit == Init => CoreInv
  <1> SUFFICES ASSUME Init PROVE CoreInv
    OBVIOUS
  <1>1. /\ pc = [c \in Caller |-> "create"] /\ mutex = None /\ live = {}
    BY DEF Init
  <1>2. MutexInv
    BY <1>1, CallReturnAssumption DEF MutexInv
  <1> QED
    BY <1>1, <1>2 DEF CoreInv, OwnerInv, EpochInv, NoLostWakeup, InCall

\* The handler's critical sections, the records and the signals stay in step
\* under every fault.
THEOREM CoreHolds == Spec => [](TypeInv /\ CoreInv)
  <1>1. Init => TypeInv /\ CoreInv
    BY InitType, CoreInit
  <1>2. TypeInv /\ CoreInv /\ [Next]_vars => (TypeInv /\ CoreInv)'
    BY NextType, CoreNext
  <1> QED
    BY <1>1, <1>2, PTL DEF Spec

\* A caller never sleeps through the completion of its call, whatever the
\* sandbox answers, whatever sends fail, and even if the record was completed
\* with the reply to another call (call_return.cc:35-64).
THEOREM WakeupsArrive == Spec => []NoLostWakeup
  <1>1. CoreInv => NoLostWakeup
    BY DEF CoreInv
  <1> QED
    BY CoreHolds, <1>1, PTL

\* No two calls in progress have the same epoch: createRec is one critical
\* section (call_return.cc:92-104).
THEOREM EpochsAreUnique == Spec => []EpochsDistinct
  <1>1. TypeInv /\ CoreInv => EpochsDistinct
    <2> SUFFICES ASSUME TypeInv, CoreInv PROVE EpochsDistinct
      OBVIOUS
    <2>1. ASSUME NEW a \in live, mem[a].epoch >= currentEpoch
          PROVE  mutex = mem[a].block
      <3>1. mem[a].epoch \in Int /\ currentEpoch \in Int
        BY DEF TypeInv, TypeOK, HeapTypes, Record
      <3>2. BeingMade(a)
        BY <2>1, <3>1 DEF CoreInv, EpochInv
      <3> QED
        BY <3>2 DEF BeingMade, Owner, CoreInv, MutexInv, OwnerInv
    <2> QED
      BY <2>1 DEF EpochsDistinct, CoreInv, EpochInv
  <1> QED
    BY CoreHolds, <1>1, PTL

-------------------------------------------------------------------------------
(* The inductive invariant.                                                  *)

\* The initial state satisfies the invariant: nothing is live.
LEMMA InitInv == Init => IInv
  <1> SUFFICES ASSUME Init PROVE IInv
    OBVIOUS
  <1>1. /\ pc = [c \in Caller |-> "create"]
        /\ rpc = [r \in Returner |-> "recv"]
        /\ mutex = None /\ live = {} /\ queue = <<>>
        /\ up = TRUE /\ corrupt = FALSE
    BY DEF Init
  <1>2. MutexInv
    BY <1>1, CallReturnAssumption DEF MutexInv
  <1> QED
    BY <1>1, <1>2
       DEF IInv, OwnerInv, EpochInv, QueueInv, SubmitInv, LockInv, WaitInv,
           WordsInv, CalmInv, InCall

\* The invariant contains what holds under every fault.
LEMMA InvCore == ASSUME TypeInv, IInv PROVE CoreInv
  <1> USE CallReturnAssumption
  <1>1. NoLostWakeup
    BY DEF NoLostWakeup, IInv, WaitInv, LockInv, OwnerInv, InCall, TypeInv,
           TypeOK, HeapTypes
  <1> QED
    BY <1>1 DEF IInv, CoreInv

\* What a step leaves true when it moves callers only between the states of a
\* running call that lie behind createRec, and touches no record, no list
\* node and no osd_list.
LEMMA CallsKept ==
    ASSUME TypeInv, IInv,
           UNCHANGED <<rec, want, osdList, currentEpoch, mutex, queue, nodeRec,
                       live>>,
           \A a \in live : mem'[a] = mem[a],
           pc' \in [Caller -> {"create", "push", "send", "wait", "blocked",
                              "woken", "leave", "end"}],
           \A c \in Caller : \/ pc'[c] = pc[c]
                             \/ /\ pc[c] \notin {"create", "push", "end"}
                               /\ pc'[c] \notin {"create", "push", "end"}
    PROVE  MutexInv' /\ OwnerInv' /\ EpochInv' /\ QueueInv' /\ WordsInv'
  <1>1. \A c \in Caller : /\ InCall(c)' <=> InCall(c)
                          /\ pc'[c] = "push" <=> pc[c] = "push"
    BY DEF InCall
  <1>2. \A a \in live : Owner(a) \in Caller
    BY DEF IInv, OwnerInv
  <1>3. \A a \in live : BeingMade(a)' <=> BeingMade(a)
    BY <1>1, <1>2 DEF BeingMade, Owner
  <1>4. MutexInv'
    BY <1>1 DEF IInv, MutexInv
  <1>5. OwnerInv'
    BY <1>1 DEF IInv, OwnerInv, Owner, InCall
  <1>6. EpochInv'
    BY <1>3 DEF IInv, EpochInv
  <1>7. QueueInv'
    BY <1>3 DEF IInv, QueueInv, Open
  <1>8. WordsInv'
    <2>1. \A c \in Caller : InCall(c) => rec[c] \in live
      BY DEF IInv, OwnerInv
    <2> QED
      BY <1>1, <2>1 DEF IInv, WordsInv, WordsAreOwn
  <1> QED
    BY <1>4, <1>5, <1>6, <1>7, <1>8

\* If the returners that are to complete a call, and the list nodes and
\* messages they hold, are also left alone, so is what is known of them.
LEMMA SubmitKept ==
    ASSUME TypeInv, IInv, UNCHANGED <<queue, nodeRec, live>>,
           \A a \in live : mem'[a] = mem[a],
           \A c \in Caller : pc'[c] = "push" <=> pc[c] = "push",
           \A r \in Returner : rpc'[r] = "submit" =>
               rpc[r] = "submit" /\ it'[r] = it[r] /\ msg'[r] = msg[r]
    PROVE  SubmitInv'
  <1>1. \A a \in live : BeingMade(a)' <=> BeingMade(a)
    BY DEF BeingMade, Owner, IInv, OwnerInv
  <1> QED
    BY <1>1 DEF IInv, SubmitInv, Open, Queued, TakenBy

-------------------------------------------------------------------------------
(* The steps of a caller.                                                    *)

\* createRec, up to the push, preserves the invariant: the new record is the
\* caller's own, fresh, and has an epoch no other live record has.
LEMMA CreateRecInv ==
    ASSUME TypeInv, IInv, NEW c \in Caller, CreateRec(c)
    PROVE  IInv'
  <1> USE CallReturnAssumption
  <1>1. PICK b \in Rec \ live, n \in Requested :
          /\ rec' = [rec EXCEPT ![c] = b]
          /\ want' = [want EXCEPT ![c] = n]
          /\ live' = live \cup {b}
          /\ mem' = [mem EXCEPT ![b] =
                       [epoch |-> currentEpoch, errorCode |-> 0,
                        completed |-> FALSE, block |-> c, size |-> n,
                        provided |-> @.provided]]
          /\ recLock' = [recLock EXCEPT ![b] = None]
    BY DEF CreateRec
  <1>2. /\ pc[c] = "create" /\ mutex = None /\ mutex' = c
        /\ pc' = [pc EXCEPT ![c] = "push"]
        /\ UNCHANGED <<osdList, currentEpoch, queue, nodeRec, rpc, msg, it,
                       target, up, corrupt>>
    BY DEF CreateRec, HandlerFree, returnVars, sandboxVars
  <1>3. /\ pc'[c] = "push" /\ rec'[c] = b /\ want'[c] = n
        /\ \A d \in Caller \ {c} :
             pc'[d] = pc[d] /\ rec'[d] = rec[d] /\ want'[d] = want[d]
    BY <1>1, <1>2 DEF TypeInv, TypeOK, CallerTypes
  <1>4. /\ mem'[b].epoch = currentEpoch /\ mem'[b].completed = FALSE
        /\ Owner(b)' = c /\ mem'[b].size = n /\ recLock'[b] = None
        /\ \A a \in live : mem'[a] = mem[a] /\ recLock'[a] = recLock[a]
    BY <1>1 DEF TypeInv, TypeOK, HeapTypes, Owner
  <1>5. ~InCall(c) /\ InCall(c)' /\ b \notin live /\ live' = live \cup {b}
        /\ \A d \in Caller \ {c} : InCall(d)' <=> InCall(d)
    BY <1>1, <1>2, <1>3 DEF InCall
  <1>6. \A a \in live : Owner(a) \in Caller \ {c} /\ Owner(a)' = Owner(a)
    BY <1>4, <1>5 DEF IInv, OwnerInv, Owner
  <1>7. \A a \in live : (BeingMade(a)' <=> BeingMade(a)) /\ ~BeingMade(a)
    BY <1>2, <1>3, <1>6 DEF BeingMade, IInv, MutexInv
  <1>8. MutexInv' /\ OwnerInv' /\ EpochInv'
    BY InvCore, CoreCreateRec DEF CoreInv
  <1>11. QueueInv'
    BY <1>2, <1>4, <1>5, <1>7 DEF IInv, QueueInv, Open
  <1>12. SubmitInv'
    BY <1>2, <1>4, <1>5, <1>7 DEF IInv, SubmitInv, Open, Queued, TakenBy
  <1>13. LockInv'
    BY <1>2, <1>4, <1>5 DEF IInv, LockInv
  <1>14. WaitInv'
    BY <1>3, <1>4, <1>5 DEF IInv, WaitInv, OwnerInv, InCall
  <1>15. WordsInv'
    BY <1>2, <1>3, <1>4, <1>5 DEF IInv, WordsInv, OwnerInv, WordsAreOwn
  <1> QED
    BY <1>2, <1>8, <1>11, <1>12, <1>13, <1>14, <1>15
       DEF IInv, CalmInv
\* The push preserves the invariant: the record enters the queue exactly once,
\* and the next epoch is above all that are in use.
LEMMA PushRecInv ==
    ASSUME Benign, TypeInv, IInv, NEW c \in Caller, PushRec(c)
    PROVE  IInv'
  <1> USE CallReturnAssumption
  <1>1. PICK n \in FreeNodes :
          /\ nodeRec' = [nodeRec EXCEPT ![n] = rec[c]]
          /\ queue' = Append(queue, n)
    BY DEF PushRec
  <1>2. /\ pc[c] = "push" /\ mutex' = None
        /\ pc' = [pc EXCEPT ![c] = "send"]
        /\ currentEpoch' = mem[rec[c]].epoch + 1
        /\ UNCHANGED <<rec, want, osdList, live, mem, recLock, rpc, msg, it,
                       target, up, corrupt>>
    BY DEF PushRec, recVars, returnVars, sandboxVars
  <1>3. /\ mutex = c /\ pc'[c] = "send"
        /\ \A d \in Caller \ {c} : pc'[d] = pc[d] /\ pc[d] # "push"
    BY <1>2 DEF IInv, MutexInv, TypeInv, TypeOK, CallerTypes
  <1>4. /\ InCall(c) /\ rec[c] \in live /\ Owner(rec[c]) = c
        /\ BeingMade(rec[c]) /\ ~mem[rec[c]].completed
    BY <1>2 DEF IInv, OwnerInv, WaitInv, InCall, BeingMade
  <1>5. \A d \in Caller : InCall(d)' <=> InCall(d)
    BY <1>2, <1>3 DEF InCall
  <1>6. \A a \in live : /\ ~BeingMade(a)'
                        /\ BeingMade(a) => a = rec[c]
    BY <1>2, <1>3 DEF BeingMade, Owner, IInv, OwnerInv
  <1>7. /\ n \in Node /\ nodeRec'[n] = rec[c]
        /\ \A m \in Node \ {n} : nodeRec'[m] = nodeRec[m]
    BY <1>1 DEF FreeNodes, TypeInv, TypeOK, HeapTypes
  <1>8. /\ queue \in Seq(Node) /\ DOMAIN queue = 1..Len(queue)
        /\ Len(queue) \in Nat
        /\ \A i \in DOMAIN queue : queue[i] \in Node
    BY LenProperties, ElementOfSeq DEF TypeInv, TypeOK, HeapTypes
  <1>9. /\ DOMAIN queue' = 1..(Len(queue) + 1)
        /\ queue'[Len(queue) + 1] = n
        /\ \A i \in DOMAIN queue : queue'[i] = queue[i]
    BY <1>1, <1>7, <1>8, AppendProperties
  <1>10. \A i \in DOMAIN queue : queue[i] # n
    BY <1>1 DEF FreeNodes, ToSet
  <1>11. \A r \in Returner : rpc[r] = "submit" => it[r] # n
    BY <1>1 DEF FreeNodes, Benign
  <1>12. \A i \in DOMAIN queue : /\ nodeRec'[queue'[i]] = nodeRec[queue[i]]
                                 /\ nodeRec[queue[i]] # rec[c]
                                 /\ nodeRec[queue[i]] \in live
    BY <1>4, <1>7, <1>8, <1>9, <1>10 DEF IInv, QueueInv, Open
  <1>13. ASSUME NEW r \in Returner, rpc[r] = "submit"
         PROVE  /\ nodeRec'[it[r]] = nodeRec[it[r]]
                /\ nodeRec[it[r]] # rec[c]
                /\ nodeRec[it[r]] \in live
    <2>1. it[r] \in Node
      BY <1>13 DEF TypeInv, ReturnerHas, IInv, CalmInv
    <2> QED
      BY <1>4, <1>7, <1>11, <1>13, <2>1 DEF IInv, SubmitInv, Open
  <1>14. MutexInv' /\ OwnerInv' /\ EpochInv'
    BY InvCore, CorePushRec DEF CoreInv
  <1>17. QueueInv'
    <2>1. ASSUME NEW i \in DOMAIN queue'
          PROVE  /\ nodeRec'[queue'[i]] \in live
                 /\ ~mem[nodeRec'[queue'[i]]].completed
      <3>1. CASE i \in DOMAIN queue
        BY <1>12, <3>1 DEF IInv, QueueInv, Open
      <3>2. CASE i = Len(queue) + 1
        BY <1>4, <1>7, <1>9, <3>2
      <3> QED
        BY <1>8, <1>9, <2>1, <3>1, <3>2
    <2>2. ASSUME NEW i \in DOMAIN queue', NEW j \in DOMAIN queue',
                 nodeRec'[queue'[i]] = nodeRec'[queue'[j]]
          PROVE  i = j
      <3>1. CASE i \in DOMAIN queue /\ j \in DOMAIN queue
        BY <1>12, <2>2, <3>1 DEF IInv, QueueInv
      <3>2. CASE i = Len(queue) + 1 \/ j = Len(queue) + 1
        BY <1>7, <1>8, <1>9, <1>12, <2>2, <3>2
      <3> QED
        BY <1>8, <1>9, <2>2, <3>1, <3>2
    <2> QED
      BY <1>2, <1>6, <2>1, <2>2 DEF QueueInv, Open
  <1>18. SubmitInv'
    <2>1. ASSUME NEW r \in Returner, rpc[r] = "submit"
          PROVE  ~Queued(nodeRec[it[r]])'
      <3>1. ASSUME NEW i \in DOMAIN queue'
            PROVE  nodeRec'[queue'[i]] # nodeRec'[it[r]]
        <4>1. CASE i \in DOMAIN queue
          BY <1>12, <1>13, <2>1, <4>1 DEF IInv, SubmitInv, Queued
        <4>2. CASE i = Len(queue) + 1
          BY <1>7, <1>9, <1>13, <2>1, <4>2
        <4> QED
          BY <1>8, <1>9, <3>1, <4>1, <4>2
      <3> QED
        BY <1>2, <3>1 DEF Queued
    <2>2. ASSUME NEW r \in Returner, rpc[r] = "submit"
          PROVE  /\ Open(nodeRec[it[r]])'
                 /\ mem[nodeRec'[it[r]]].epoch = msg[r].epoch
                 /\ \A s \in Returner : TakenBy(nodeRec[it[r]], s)' => s = r
      BY <1>2, <1>13, <2>2 DEF IInv, SubmitInv, Open, TakenBy
    <2> QED
      BY <1>2, <1>6, <2>1, <2>2 DEF SubmitInv, Open
  <1>19. LockInv'
    BY <1>2 DEF IInv, LockInv
  <1>20. WaitInv'
    BY <1>2, <1>3 DEF IInv, WaitInv
  <1>21. WordsInv'
    BY <1>2, <1>5 DEF IInv, WordsInv, WordsAreOwn, InCall
  <1> QED
    BY <1>2, <1>14, <1>17, <1>18, <1>19, <1>20, <1>21
       DEF IInv, CalmInv

\* sendMessage, and waitForReturn up to its sleep and after it.
LEMMA WaitingInv ==
    ASSUME Benign, TypeInv, IInv, NEW c \in Caller,
           SendCall(c) \/ WaitForReturn(c) \/ Resume(c)
    PROVE  IInv'
  <1>1. /\ pc[c] \in {"send", "wait", "woken"}
        /\ pc' \in [Caller -> {"create", "push", "send", "wait", "blocked",
                               "woken", "leave", "end"}]
        /\ pc'[c] \in {"wait", "blocked", "leave"}
        /\ \A d \in Caller \ {c} : pc'[d] = pc[d]
        /\ UNCHANGED <<rec, want, osdList, currentEpoch, mutex, queue, nodeRec,
                       live, mem, recLock, rpc, msg, it, target, up, corrupt>>
    BY DEF SendCall, WaitForReturn, Resume, Awaiting, AfterFailedSend, TypeInv,
           TypeOK, CallerTypes, handlerVars, recVars, returnVars, sandboxVars
  <1>2. /\ pc'[c] = "leave" =>
             mem[rec[c]].completed /\ recLock[rec[c]] = None
        /\ pc'[c] = "blocked" => ~mem[rec[c]].completed
    BY DEF SendCall, WaitForReturn, Resume, Awaiting, AfterFailedSend,
           RecordFree, Benign, IInv, WaitInv, CalmInv, TypeInv, TypeOK,
           CallerTypes
  <1>3. MutexInv' /\ OwnerInv' /\ EpochInv' /\ QueueInv' /\ WordsInv'
    BY <1>1, CallsKept
  <1>4. SubmitInv'
    BY <1>1, SubmitKept
  <1>5. LockInv'
    BY <1>1 DEF IInv, LockInv
  <1>6. WaitInv'
    BY <1>1, <1>2 DEF IInv, WaitInv
  <1> QED
    BY <1>1, <1>3, <1>4, <1>5, <1>6 DEF IInv, CalmInv

\* destroyRec preserves the invariant: the record it deletes is neither in the
\* queue nor held by a returner.
LEMMA LeaveInv ==
    ASSUME TypeInv, IInv, NEW c \in Caller, Leave(c)
    PROVE  IInv'
  <1> USE CallReturnAssumption
  <1> DEFINE b == rec[c]
  <1>1. /\ pc[c] = "leave"
        /\ live' = live \ {b}
        /\ rec' = [rec EXCEPT ![c] = None]
        /\ want' = [want EXCEPT ![c] = 0]
        /\ pc' = [pc EXCEPT ![c] = AfterCall(c)]
        /\ UNCHANGED <<osdList, currentEpoch, mutex, queue, nodeRec, mem,
                       recLock, rpc, msg, it, target, up, corrupt>>
    BY DEF Leave, handlerVars, returnVars, sandboxVars
  <1>3. InCall(c) /\ b \in live /\ Owner(b) = c /\ mem[b].completed
        /\ recLock[b] = None
    BY <1>1 DEF IInv, OwnerInv, WaitInv, InCall
  <1>4. /\ pc'[c] \in {"create", "end"}
        /\ \A d \in Caller \ {c} :
             pc'[d] = pc[d] /\ rec'[d] = rec[d] /\ want'[d] = want[d]
    BY <1>1 DEF AfterCall, TypeInv, TypeOK, CallerTypes
  <1>5. /\ \A d \in Caller : pc'[d] = "push" <=> pc[d] = "push"
        /\ ~InCall(c)'
        /\ \A d \in Caller \ {c} : InCall(d)' <=> InCall(d)
    BY <1>1, <1>4 DEF InCall
  <1>6. \A a \in live \ {b} : mem'[a] = mem[a]
    BY <1>1
  <1>7. \A d \in Caller \ {c} : InCall(d) => rec[d] \in live \ {b}
    BY <1>3 DEF IInv, OwnerInv
  <1>8. \A a \in live \ {b} :
          /\ Owner(a) \in Caller \ {c} /\ Owner(a)' = Owner(a)
          /\ BeingMade(a)' <=> BeingMade(a)
    BY <1>3, <1>5, <1>6 DEF IInv, OwnerInv, Owner, BeingMade
  <1>9. MutexInv' /\ OwnerInv' /\ EpochInv'
    BY InvCore, CoreLeave DEF CoreInv
  <1>12. \A a \in live : Open(a) => a # b
    BY <1>3 DEF Open
  <1>13. QueueInv'
    BY <1>1, <1>6, <1>8, <1>12 DEF IInv, QueueInv, Open
  <1>14. SubmitInv'
    BY <1>1, <1>6, <1>8, <1>12 DEF IInv, SubmitInv, Open, Queued, TakenBy
  <1>15. LockInv'
    BY <1>1, <1>3, <1>6 DEF IInv, LockInv
  <1>16. WaitInv'
    BY <1>1, <1>4, <1>6, <1>7 DEF IInv, WaitInv, InCall
  <1>17. WordsInv'
    BY <1>1, <1>4, <1>5, <1>6, <1>7 DEF IInv, WordsInv, WordsAreOwn, InCall
  <1> QED
    BY <1>1, <1>9, <1>13, <1>14, <1>15, <1>16, <1>17
       DEF IInv, CalmInv
-------------------------------------------------------------------------------
(* The steps of a returner and of the sandbox.                               *)

\* Receiving a message preserves the invariant: it touches no call.
LEMMA ReceiveInv ==
    ASSUME TypeInv, IInv, NEW r \in Returner, Receive(r)
    PROVE  IInv'
  <1>1. /\ rpc[r] = "recv" /\ rpc'[r] \in {"recv", "find"}
        /\ \A s \in Returner \ {r} : rpc'[s] = rpc[s] /\ msg'[s] = msg[s]
        /\ UNCHANGED <<pc, rec, want, osdList, currentEpoch, mutex, queue,
                       nodeRec, live, mem, recLock, it, target, up, corrupt>>
    BY DEF Receive, TypeInv, TypeOK, ReturnerTypes, callerVars, handlerVars,
           recVars
  <1>2. MutexInv' /\ OwnerInv' /\ EpochInv' /\ QueueInv' /\ WordsInv'
    BY <1>1, CallsKept DEF TypeInv, TypeOK, CallerTypes
  <1>3. SubmitInv'
    BY <1>1, SubmitKept
  <1>4. LockInv'
    BY <1>1 DEF IInv, LockInv, TypeInv, TypeOK, HeapTypes
  <1>5. WaitInv'
    BY <1>1 DEF IInv, WaitInv
  <1> QED
    BY <1>1, <1>2, <1>3, <1>4, <1>5 DEF IInv, CalmInv

\* findByEpoch and erase preserve the invariant: the record they take out of
\* the queue is held by this returner alone.
LEMMA FindByEpochInv ==
    ASSUME TypeInv, IInv, NEW r \in Returner, FindByEpoch(r)
    PROVE  IInv'
  <1>1. /\ rpc[r] = "find" /\ rpc'[r] \in {"recv", "submit"}
        /\ \A s \in Returner \ {r} :
             rpc'[s] = rpc[s] /\ msg'[s] = msg[s] /\ it'[s] = it[s]
        /\ UNCHANGED <<pc, rec, want, osdList, currentEpoch, mutex, nodeRec,
                       live, mem, recLock, target, up, corrupt>>
    BY DEF FindByEpoch, TypeInv, TypeOK, ReturnerTypes, callerVars, recVars,
           sandboxVars
  <1>2. LockInv'
    BY <1>1 DEF IInv, LockInv, TypeInv, TypeOK, HeapTypes
  <1>3. WaitInv'
    BY <1>1 DEF IInv, WaitInv
  <1>4. CASE queue' = queue /\ rpc'[r] = "recv"
    <2>1. MutexInv' /\ OwnerInv' /\ EpochInv' /\ QueueInv' /\ WordsInv'
      BY <1>1, <1>4, CallsKept DEF TypeInv, TypeOK, CallerTypes
    <2>2. SubmitInv'
      BY <1>1, <1>4, SubmitKept
    <2> QED
      BY <1>1, <1>2, <1>3, <2>1, <2>2 DEF IInv, CalmInv
  <1>5. ASSUME NEW i \in Matching(msg[r].epoch),
               it' = [it EXCEPT ![r] = queue[i]], queue' = Erase(i),
               rpc'[r] = "submit", msg' = msg
        PROVE  IInv'
    <2> DEFINE b == nodeRec[queue[i]]
               old(j) == IF j < i THEN j ELSE j + 1
    <2>1. /\ queue \in Seq(Node) /\ DOMAIN queue = 1..Len(queue)
          /\ Len(queue) \in Nat /\ i \in 1..Len(queue)
          /\ mem[b].epoch = msg[r].epoch
      BY LenProperties DEF Matching, TypeInv, TypeOK, HeapTypes
    <2>2. /\ DOMAIN queue' = 1..(Len(queue) - 1)
          /\ \A j \in 1..(Len(queue) - 1) : queue'[j] = queue[old(j)]
      <3>1. /\ queue' \in Seq(Node) /\ Len(queue') = Len(queue) - 1
            /\ \A j \in 1..(Len(queue) - 1) :
                 queue'[j] = IF j < i THEN queue[j] ELSE queue[j + 1]
        BY <1>5, <2>1, RemoveAtType DEF Erase
      <3> QED
        BY <3>1, LenProperties
    <2>3. /\ \A j \in DOMAIN queue' : old(j) \in DOMAIN queue /\ old(j) # i
          /\ \A j, k \in DOMAIN queue' : old(j) = old(k) => j = k
      BY <2>1, <2>2
    <2> HIDE DEF old
    <2>4. Open(b) /\ ~BeingMade(b)
      BY <2>1 DEF IInv, QueueInv
    <2>5. \A j \in DOMAIN queue' : nodeRec[queue'[j]] # b
      BY <2>1, <2>2, <2>3 DEF IInv, QueueInv
    <2>6. \A s \in Returner : rpc[s] = "submit" => nodeRec[it[s]] # b
      BY <2>1 DEF IInv, SubmitInv, Queued
    <2>7. it'[r] = queue[i]
      BY <1>5 DEF TypeInv, TypeOK, ReturnerTypes
    <2>8. QueueInv'
      BY <1>1, <2>2, <2>3 DEF IInv, QueueInv, Open, BeingMade, Owner
    <2>9. SubmitInv'
      <3>1. ASSUME NEW s \in Returner \ {r}, rpc'[s] = "submit"
            PROVE  ~Queued(nodeRec[it[s]])'
        BY <1>1, <2>2, <2>3, <3>1 DEF IInv, SubmitInv, Queued
      <3>2. ~Queued(nodeRec[it[r]])'
        BY <1>1, <2>5, <2>7 DEF Queued
      <3>3. ASSUME NEW s \in Returner, rpc'[s] = "submit"
            PROVE  \A t \in Returner : TakenBy(nodeRec[it[s]], t)' => t = s
        BY <1>1, <2>6, <2>7, <3>3 DEF IInv, SubmitInv, TakenBy
      <3>4. ASSUME NEW s \in Returner, rpc'[s] = "submit"
            PROVE  /\ Open(nodeRec[it[s]])'
                   /\ ~BeingMade(nodeRec[it[s]])'
                   /\ mem'[nodeRec'[it'[s]]].epoch = msg'[s].epoch
        BY <1>1, <1>5, <2>1, <2>4, <2>7, <3>4
           DEF IInv, SubmitInv, Open, BeingMade, Owner
      <3> QED
        BY <3>1, <3>2, <3>3, <3>4 DEF SubmitInv
    <2>10. MutexInv' /\ OwnerInv' /\ EpochInv' /\ WordsInv'
      BY <1>1 DEF IInv, MutexInv, OwnerInv, EpochInv, WordsInv, WordsAreOwn,
                  InCall, Owner, BeingMade
    <2> QED
      BY <1>1, <1>2, <1>3, <2>8, <2>9, <2>10 DEF IInv, CalmInv
  <1> QED
    BY <1>1, <1>4, <1>5 DEF FindByEpoch, TypeInv, TypeOK, ReturnerTypes

\* submitReturn and submitError preserve the invariant: the record they fill in
\* is live, not yet completed, and waits for this very epoch.
LEMMA SubmitsInv ==
    ASSUME TypeInv, IInv, NEW r \in Returner, Submit(r)
    PROVE  IInv'
  <1> USE CallReturnAssumption
  <1> DEFINE b == nodeRec[it[r]]
             m == msg[r]
  <1>1. /\ rpc[r] = "submit"
        /\ b \in live /\ ~mem[b].completed /\ ~BeingMade(b) /\ ~Queued(b)
        /\ mem[b].epoch = m.epoch
        /\ \A s \in Returner : TakenBy(b, s) => s = r
    BY DEF Submit, IInv, SubmitInv, Open
  <1>2. /\ target' = [target EXCEPT ![r] = b]
        /\ it' = [it EXCEPT ![r] = None]
        /\ recLock' = [recLock EXCEPT ![b] = r]
        /\ CompleteWithReturn(b, m) \/ CompleteWithError(b)
        /\ rpc' = [rpc EXCEPT ![r] = "signal"]
        /\ UNCHANGED <<pc, rec, want, currentEpoch, mutex, queue, nodeRec,
                       live, msg, up, corrupt>>
    BY <1>1 DEF Submit, handlerVars, sandboxVars
  <1>3. /\ b \in Rec /\ mem[b] \in Record /\ m \in Message
        /\ m.len \in Nat /\ mem[b].size \in 0..MaxOsds
    BY <1>1 DEF TypeInv, TypeOK, HeapTypes, ReturnerTypes, Record, Message
  <1>4. PICK own \in Caller : Owner(b) = own /\ InCall(own) /\ rec[own] = b
    BY <1>1 DEF IInv, OwnerInv
  <1>5. /\ rpc'[r] = "signal" /\ target'[r] = b /\ recLock'[b] = r
        /\ \A s \in Returner \ {r} :
             rpc'[s] = rpc[s] /\ it'[s] = it[s] /\ target'[s] = target[s]
        /\ \A a \in live \ {b} : recLock'[a] = recLock[a]
    BY <1>2, <1>3 DEF TypeInv, TypeOK, HeapTypes, ReturnerTypes
  <1> HIDE DEF b, m
  <1>6. /\ mem'[b].completed = TRUE /\ mem'[b].epoch = mem[b].epoch
        /\ mem'[b].block = mem[b].block /\ mem'[b].size = mem[b].size
        /\ \A a \in live \ {b} : mem'[a] = mem[a]
    BY <1>1, <1>2, <1>3, Completes DEF TypeInv, TypeOK, HeapTypes
  <1>7. /\ \A a \in live : /\ mem'[a].epoch = mem[a].epoch
                           /\ Owner(a)' = Owner(a)
                           /\ mem'[a].size = mem[a].size
                           /\ BeingMade(a)' <=> BeingMade(a)
        /\ \A d \in Caller : InCall(d)' <=> InCall(d)
    BY <1>2, <1>6 DEF Owner, BeingMade, InCall
  <1>8. \A d \in Caller \ {own} : InCall(d) => rec[d] \in live \ {b}
    BY <1>4 DEF IInv, OwnerInv
  <1>9. MutexInv' /\ OwnerInv' /\ EpochInv'
    BY InvCore, CoreSubmit DEF CoreInv
  <1>12. QueueInv'
    <2>1. \A i \in DOMAIN queue : nodeRec[queue[i]] \in live \ {b}
      BY <1>1 DEF Queued, IInv, QueueInv, Open
    <2> QED
      BY <1>2, <1>6, <1>7, <2>1 DEF IInv, QueueInv, Open
  <1>13. SubmitInv'
    <2>1. \A s \in Returner \ {r} :
            rpc[s] = "submit" => nodeRec[it[s]] \in live \ {b}
      BY <1>1 DEF IInv, SubmitInv, Open, TakenBy
    <2> QED
      BY <1>2, <1>5, <1>6, <1>7, <2>1 DEF IInv, SubmitInv, Open, Queued, TakenBy
  <1>14. LockInv'
    <2>1. \A s \in Returner \ {r} :
            rpc[s] = "signal" => target[s] \in live \ {b}
      BY <1>1 DEF IInv, LockInv
    <2>2. \A a \in live \ {b} : recLock[a] # None => recLock[a] \in Returner \ {r}
      BY <1>1 DEF IInv, LockInv, TypeInv, TypeOK, HeapTypes
    <2> QED
      BY <1>1, <1>2, <1>5, <1>6, <2>1, <2>2 DEF IInv, LockInv
  <1>15. WaitInv'
    <2>1. pc[own] \notin {"push", "woken", "leave"}
      BY <1>1, <1>4 DEF BeingMade, IInv, WaitInv
    <2> QED
      BY <1>2, <1>4, <1>5, <1>6, <1>8, <2>1 DEF IInv, WaitInv, InCall
  <1>16. WordsInv'
    <2>1. ASSUME NEW d \in Caller \ {own}
          PROVE  osdList'[d] = osdList[d]
      BY <1>2, <1>4, <2>1
         DEF CompleteWithReturn, CompleteWithError, Owner, TypeInv, TypeOK,
             CallerTypes
    <2>2. ASSUME mem'[b].errorCode = 0
          PROVE  WordsAreOwn(own)'
      <3>1. CASE CompleteWithError(b)
        BY <1>3, <2>2, <3>1
           DEF CompleteWithError, ErrorTruth, TypeInv, TypeOK, HeapTypes, Record
      <3>2. CASE CompleteWithReturn(b, m)
        <4>1. mem'[b].provided = m.len
          BY <1>3, <3>2 DEF CompleteWithReturn, TypeInv, TypeOK, HeapTypes, Record
        <4>2. ASSUME NEW w \in 1..Lesser(m.len, mem[b].size)
              PROVE  osdList'[own][w] = m.epoch
          <5>1. w \in 1..MaxOsds /\ w \in Copied(b, m)
            BY <1>3 DEF Lesser, Copied
          <5> QED
            BY <1>4, <3>2, <5>1
               DEF CompleteWithReturn, Owner, TypeInv, TypeOK, CallerTypes
        <4> QED
          BY <1>1, <1>2, <1>4, <1>6, <4>1, <4>2 DEF WordsAreOwn
      <3> QED
        BY <1>2, <3>1, <3>2
    <2>3. ASSUME NEW d \in Caller \ {own}, InCall(d), mem'[rec[d]].completed,
                 mem'[rec[d]].errorCode = 0
          PROVE  WordsAreOwn(d)'
      BY <1>2, <1>6, <1>8, <2>1, <2>3 DEF IInv, WordsInv, WordsAreOwn
    <2> QED
      BY <1>2, <1>4, <1>7, <2>2, <2>3 DEF WordsInv, InCall
  <1> QED
    BY <1>2, <1>9, <1>12, <1>13, <1>14, <1>15, <1>16
       DEF IInv, CalmInv

\* The signal and the unlock preserve the invariant: whoever sleeps on the
\* record is woken.
LEMMA SignalInv ==
    ASSUME TypeInv, IInv, NEW r \in Returner, Signal(r)
    PROVE  IInv'
  <1> USE CallReturnAssumption
  <1> DEFINE b == target[r]
  <1>1. /\ rpc[r] = "signal" /\ b \in live /\ recLock[b] = r
        /\ mem[b].completed
    BY DEF Signal, IInv, LockInv
  <1>2. /\ pc' = [c \in Caller |-> IF c \in Woken(b) THEN "woken" ELSE pc[c]]
        /\ recLock' = [recLock EXCEPT ![b] = None]
        /\ rpc' = [rpc EXCEPT ![r] = "recv"]
        /\ msg' = [msg EXCEPT ![r] = NoMessage]
        /\ target' = [target EXCEPT ![r] = None]
        /\ UNCHANGED <<rec, want, osdList, currentEpoch, mutex, queue, nodeRec,
                       live, mem, it, up, corrupt>>
    BY <1>1 DEF Signal, handlerVars, sandboxVars
  <1>3. \A c \in Caller :
          \/ pc'[c] = pc[c] /\ ~(pc[c] = "blocked" /\ rec[c] = b)
          \/ pc'[c] = "woken" /\ pc[c] = "blocked" /\ rec[c] = b
    BY <1>2 DEF Woken
  <1>4. pc' \in [Caller -> {"create", "push", "send", "wait", "blocked",
                           "woken", "leave", "end"}]
    BY <1>2, <1>3 DEF TypeInv, TypeOK, CallerTypes
  <1>5. /\ rpc'[r] = "recv"
        /\ \A s \in Returner \ {r} :
             rpc'[s] = rpc[s] /\ msg'[s] = msg[s] /\ target'[s] = target[s]
        /\ recLock'[b] = None
        /\ \A a \in live \ {b} : recLock'[a] = recLock[a]
    BY <1>1, <1>2 DEF TypeInv, TypeOK, HeapTypes, ReturnerTypes
  <1>6. MutexInv' /\ OwnerInv' /\ EpochInv' /\ QueueInv' /\ WordsInv'
    BY <1>2, <1>3, <1>4, CallsKept
  <1>7. SubmitInv'
    BY <1>2, <1>3, <1>5, SubmitKept
  <1>8. LockInv'
    BY <1>1, <1>2, <1>5 DEF IInv, LockInv, TypeInv, TypeOK, HeapTypes
  <1>9. WaitInv'
    <2>1. \A c \in Caller : InCall(c) => rec[c] \in live
      BY DEF IInv, OwnerInv
    <2> QED
      BY <1>1, <1>2, <1>3, <1>5, <2>1 DEF IInv, WaitInv, InCall
  <1> QED
    BY <1>2, <1>6, <1>7, <1>8, <1>9 DEF IInv, CalmInv

\* Every step preserves the invariant, as long as the environment is benign.
LEMMA NextInv ==
    ASSUME Benign, TypeInv, IInv, [Next]_vars
    PROVE  IInv'
  <1>1. ASSUME NEW c \in Caller, CallerStep(c) \/ SpuriousWakeup(c)
        PROVE  IInv'
    <2>1. ~SpuriousWakeup(c)
      BY DEF SpuriousWakeup, Benign
    <2> QED
      BY <1>1, <2>1, CreateRecInv, PushRecInv, WaitingInv, LeaveInv
         DEF CallerStep
  <1>2. ASSUME NEW r \in Returner, ReturnerStep(r) PROVE IInv'
    BY <1>2, ReceiveInv, FindByEpochInv, SubmitsInv, SignalInv DEF ReturnerStep
  <1>3. CASE SandboxReply \/ UNCHANGED vars
    <2>1. UNCHANGED <<pc, rec, want, osdList, currentEpoch, mutex, queue,
                      nodeRec, live, mem, recLock, rpc, msg, it, target, up,
                      corrupt>>
      BY <1>3 DEF SandboxReply, vars, callerVars, handlerVars, recVars,
                  returnVars, sandboxVars
    <2>2. MutexInv' /\ OwnerInv' /\ EpochInv' /\ QueueInv' /\ WordsInv'
      BY <2>1, CallsKept DEF TypeInv, TypeOK, CallerTypes
    <2>3. SubmitInv'
      BY <2>1, SubmitKept
    <2> QED
      BY <2>1, <2>2, <2>3 DEF IInv, LockInv, WaitInv, CalmInv
  <1>4. ~SandboxDeath
    BY DEF SandboxDeath, Benign
  <1>5. CASE ReuseMemory
    <2>1. MutexInv' /\ OwnerInv' /\ EpochInv' /\ QueueInv' /\ WordsInv'
      BY <1>5, Reuses, CallsKept DEF TypeInv, TypeOK, CallerTypes
    <2>2. SubmitInv'
      BY <1>5, Reuses, SubmitKept
    <2>3. \A c \in Caller : InCall(c) => rec[c] \in live
      BY DEF IInv, OwnerInv
    <2>4. LockInv'
      BY <1>5, Reuses DEF IInv, LockInv
    <2>5. WaitInv'
      BY <1>5, <2>3, Reuses DEF IInv, WaitInv, InCall
    <2> QED
      BY <1>5, <2>1, <2>2, <2>4, <2>5, Reuses DEF IInv, CalmInv
  <1> QED
    BY <1>1, <1>2, <1>3, <1>4, <1>5 DEF Next, Quiet
-------------------------------------------------------------------------------
(* Safety.                                                                   *)

\* The inductive invariant holds in every reachable state.
THEOREM Inductive == Benign => (Spec => [](TypeInv /\ IInv))
  <1> SUFFICES ASSUME Benign PROVE Spec => [](TypeInv /\ IInv)
    OBVIOUS
  <1>1. Init => TypeInv /\ IInv
    BY InitType, InitInv
  <1>2. TypeInv /\ IInv /\ [Next]_vars => (TypeInv /\ IInv)'
    BY NextType, NextInv
  <1> QED
    BY <1>1, <1>2, PTL DEF Spec

\* findByEpoch never follows a pointer to a deleted record.
THEOREM QueueIsLive == Benign => (Spec => []QueueHoldsLiveRecords)
  <1>1. IInv => QueueHoldsLiveRecords
    BY DEF QueueHoldsLiveRecords, IInv, QueueInv, Open
  <1> QED
    BY <1>1, Inductive, PTL
===============================================================================
