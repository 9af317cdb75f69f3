------------------------- MODULE CallReturnLossProofs -------------------------
(***************************************************************************)
(* Proof of the invariant of CallReturn for an environment in which sends    *)
(* fail and the sandbox dies: each call is answered once, whatever the queue *)
(* still holds.                                                              *)
(***************************************************************************)
EXTENDS CallReturnProofs

-------------------------------------------------------------------------------
(* Calls that are waited for.                                                *)

\* Who expects a reply has a live record, and nobody else's has its epoch.
LEMMA ExpectedRecord ==
    ASSUME LossInv, NEW e, Expected(e)
    PROVE  \E c \in Caller :
             /\ Expects(c, e) /\ InCall(c)
             /\ rec[c] \in live /\ Owner(rec[c]) = c
             /\ \A a \in live : mem[a].epoch = e => a = rec[c]
  <1>1. PICK c \in Caller : Expects(c, e)
    BY DEF Expected
  <1>2. InCall(c)
    BY <1>1 DEF Expects, InCall
  <1> QED
    BY <1>1, <1>2 DEF Expects, LossInv, CoreInv, OwnerInv, EpochInv

\* The record a returner is to fill in belongs to a caller that waits for what
\* the returner has in hand.
LEMMA FoundRecord ==
    ASSUME LossInv, NEW r \in Returner, rpc[r] = "submit"
    PROVE  \E c \in Caller :
             /\ Expects(c, msg[r].epoch) /\ InCall(c)
             /\ nodeRec[it[r]] = rec[c]
             /\ rec[c] \in live /\ Owner(rec[c]) = c
  <1>1. /\ Expected(msg[r].epoch) /\ nodeRec[it[r]] \in live
        /\ mem[nodeRec[it[r]]].epoch = msg[r].epoch
    BY DEF LossInv, FlightInv, FoundInv, Answering
  <1> QED
    BY <1>1, ExpectedRecord

\* What is under way stays in order when nothing is added to it and everybody
\* goes on waiting.
LEMMA FlightKept ==
    ASSUME FlightInv, wire' \subseteq wire,
           \A e : Expected(e) => Expected(e)',
           \A r \in Returner : Answering(r)' =>
               Answering(r) /\ msg'[r].epoch = msg[r].epoch
    PROVE  FlightInv'
  BY DEF FlightInv

\* What is known of the words of completed calls stays known if lists, records
\* and calls stay as they are.
LEMMA WordsKept ==
    ASSUME WordsInv, UNCHANGED <<rec, osdList, mem>>,
           \A c \in Caller : InCall(c)' <=> InCall(c)
    PROVE  WordsInv'
  BY DEF WordsInv, WordsAreOwn

\* In the initial state nothing is under way and nothing is queued.
LEMMA LossInit == Init => LossInv
  <1> SUFFICES ASSUME Init PROVE LossInv
    OBVIOUS
  <1>1. /\ pc = [c \in Caller |-> "create"]
        /\ rpc = [r \in Returner |-> "recv"]
        /\ live = {} /\ queue = <<>> /\ wire = {} /\ corrupt = FALSE
        /\ currentEpoch = FirstEpoch
        /\ \A a \in Rec : mem[a].epoch = 0
    BY DEF Init
  <1>2. CoreInv
    BY CoreInit
  <1>3. MemoryInv
    BY <1>1, CallReturnAssumption DEF MemoryInv
  <1> QED
    BY <1>1, <1>2, <1>3
       DEF LossInv, NodeInv, FlightInv, FoundInv, Answering, LockInv,
           LeavingInv, WordsInv, InCall

\* createRec, up to the push: no memory has the new epoch.
LEMMA LossCreateRec ==
    ASSUME Lossy, TypeInv, LossInv, NEW c \in Caller, CreateRec(c)
    PROVE  LossInv'
  <1> USE CallReturnAssumption
  <1>1. PICK b \in Rec \ live, n \in Requested :
          /\ rec' = [rec EXCEPT ![c] = b]
          /\ live' = live \cup {b}
          /\ mem' = [mem EXCEPT ![b] =
                       [epoch |-> currentEpoch, errorCode |-> 0,
                        completed |-> FALSE, block |-> c, size |-> n,
                        provided |-> @.provided]]
          /\ recLock' = [recLock EXCEPT ![b] = None]
    BY DEF CreateRec
  <1>2. /\ pc[c] = "create"
        /\ pc' = [pc EXCEPT ![c] = "push"]
        /\ rv' = [rv EXCEPT ![c] = 0]
        /\ UNCHANGED <<osdList, currentEpoch, queue, nodeRec, rpc, msg, it,
                       target, wire, up, corrupt>>
    BY DEF CreateRec, returnVars, sandboxVars
  <1>3. /\ pc'[c] = "push" /\ rec'[c] = b /\ rv'[c] = 0
        /\ \A d \in Caller \ {c} :
             pc'[d] = pc[d] /\ rec'[d] = rec[d] /\ rv'[d] = rv[d]
    BY <1>1, <1>2 DEF TypeInv, TypeOK, CallerTypes
  <1>4. /\ b \in Rec /\ mem'[b].epoch = currentEpoch
        /\ mem'[b].completed = FALSE /\ recLock'[b] = None
        /\ \A a \in Rec \ {b} : mem'[a] = mem[a] /\ recLock'[a] = recLock[a]
        /\ live \subseteq Rec
    BY <1>1 DEF TypeInv, TypeOK, HeapTypes
  <1>5. /\ ~InCall(c) /\ InCall(c)'
        /\ \A d \in Caller \ {c} : InCall(d)' <=> InCall(d)
        /\ \A d \in Caller : InCall(d) => rec[d] \in live
    BY <1>2, <1>3 DEF InCall, LossInv, CoreInv, OwnerInv
  <1>6. \A a \in live :
          a # b /\ a \in live' /\ mem'[a] = mem[a] /\ recLock'[a] = recLock[a]
    BY <1>1, <1>4
  <1>7. CoreInv'
    BY CoreCreateRec DEF LossInv
  <1>8. MemoryInv'
    <2>1. \A a \in Rec : mem[a].epoch \in Int /\ currentEpoch \in Int
      BY DEF TypeInv, TypeOK, HeapTypes, Record
    <2>2. ASSUME NEW a \in Rec \ live'
          PROVE  /\ mem'[a].epoch = mem[a].epoch
                 /\ mem[a].epoch # currentEpoch
                 /\ \A d \in live' : mem'[d].epoch # mem'[a].epoch
      <3>1. mem'[a] = mem[a] /\ a \in Rec \ live
        BY <1>1, <1>4
      <3>2. mem[a].epoch # currentEpoch
        BY <2>1, <3>1 DEF LossInv, MemoryInv, Lossy
      <3> QED
        BY <1>1, <1>4, <1>6, <3>1, <3>2 DEF LossInv, MemoryInv
    <2>3. \A a \in live' : mem'[a].epoch >= FirstEpoch
      BY <1>1, <1>4, <1>6 DEF LossInv, MemoryInv
    <2> QED
      BY <1>1, <1>2, <2>2, <2>3 DEF LossInv, MemoryInv
  <1>9. NodeInv'
    BY <1>2 DEF LossInv, NodeInv
  <1>10. FlightInv'
    <2>1. \A e : Expected(e) => Expected(e)'
      BY <1>2, <1>3, <1>5, <1>6 DEF Expected, Expects, InCall
    <2> QED
      BY <1>2, <2>1, FlightKept DEF LossInv, Answering
  <1>11. FoundInv'
    BY <1>2, <1>6 DEF LossInv, FoundInv
  <1>12. LockInv'
    BY <1>1, <1>2, <1>4, <1>6 DEF LossInv, LockInv
  <1>13. LeavingInv'
    BY <1>3, <1>4, <1>5, <1>6 DEF LossInv, LeavingInv, InCall
  <1>14. WordsInv'
    BY <1>2, <1>3, <1>4, <1>5, <1>6 DEF LossInv, WordsInv, WordsAreOwn
  <1> QED
    BY <1>2, <1>7, <1>8, <1>9, <1>10, <1>11, <1>12, <1>13, <1>14 DEF LossInv

\* The push: no returner holds the node.
LEMMA LossPushRec ==
    ASSUME Lossy, TypeInv, LossInv, NEW c \in Caller, PushRec(c)
    PROVE  LossInv'
  <1> USE CallReturnAssumption
  <1>1. PICK n \in FreeNodes :
          /\ nodeRec' = [nodeRec EXCEPT ![n] = rec[c]]
          /\ queue' = Append(queue, n)
    BY DEF PushRec
  <1>2. /\ pc[c] = "push"
        /\ pc' = [pc EXCEPT ![c] = "send"]
        /\ currentEpoch' = mem[rec[c]].epoch + 1
        /\ UNCHANGED <<rec, rv, osdList, live, mem, recLock, rpc, msg, it,
                       target, wire, up, corrupt>>
    BY DEF PushRec, recVars, returnVars, sandboxVars
  <1>3. pc'[c] = "send" /\ \A d \in Caller \ {c} : pc'[d] = pc[d]
    BY <1>2 DEF TypeInv, TypeOK, CallerTypes
  <1>4. \A d \in Caller : InCall(d)' <=> InCall(d)
    BY <1>2, <1>3 DEF InCall
  <1>5. /\ n \in Node /\ rec[c] \in Rec /\ nodeRec'[n] = rec[c]
        /\ \A k \in Node \ {n} : nodeRec'[k] = nodeRec[k]
    BY <1>1, <1>2 DEF FreeNodes, TypeInv, TypeOK, HeapTypes, CallerHas, InCall
  <1>6. CoreInv'
    BY CorePushRec DEF LossInv
  <1>7. MemoryInv'
    <2>1. mem[rec[c]].epoch = currentEpoch /\ currentEpoch \in Int
      BY <1>2 DEF LossInv, CoreInv, OwnerInv, EpochInv, BeingMade, InCall,
                  TypeInv, TypeOK, HeapTypes
    <2>2. \A a \in Rec : mem[a].epoch \in Int
      BY DEF TypeInv, TypeOK, HeapTypes, Record
    <2> QED
      BY <1>2, <2>1, <2>2 DEF LossInv, MemoryInv
  <1>8. NodeInv'
    <2>1. /\ queue \in Seq(Node) /\ DOMAIN queue = 1..Len(queue)
          /\ Len(queue) \in Nat
          /\ \A i \in DOMAIN queue : queue[i] \in Node
      BY LenProperties, ElementOfSeq DEF TypeInv, TypeOK, HeapTypes
    <2>2. /\ DOMAIN queue' = 1..(Len(queue) + 1)
          /\ queue'[Len(queue) + 1] = n
          /\ \A i \in DOMAIN queue : queue'[i] = queue[i]
      BY <1>1, <1>5, <2>1, AppendProperties
    <2>3. \A i \in DOMAIN queue : nodeRec'[queue'[i]] \in Rec
      BY <1>5, <2>1, <2>2 DEF LossInv, NodeInv
    <2>4. nodeRec'[queue'[Len(queue) + 1]] \in Rec
      BY <1>5, <2>2
    <2> QED
      BY <2>1, <2>2, <2>3, <2>4 DEF NodeInv
  <1>9. FlightInv'
    <2>1. \A e : Expected(e) => Expected(e)'
      BY <1>2, <1>3 DEF Expected, Expects
    <2> QED
      BY <1>2, <2>1, FlightKept DEF LossInv, Answering
  <1>10. FoundInv'
    <2>1. ASSUME NEW r \in Returner, rpc[r] = "submit"
          PROVE  nodeRec'[it[r]] = nodeRec[it[r]]
      <3>1. it[r] # n
        BY <1>1, <2>1 DEF FreeNodes, Lossy
      <3>2. it[r] \in Node
        BY <2>1 DEF TypeInv, ReturnerHas, LossInv
      <3> QED
        BY <1>5, <3>1, <3>2
    <2> QED
      BY <1>2, <2>1 DEF LossInv, FoundInv
  <1>11. LockInv'
    BY <1>2 DEF LossInv, LockInv
  <1>12. LeavingInv'
    BY <1>2, <1>3, <1>4 DEF LossInv, LeavingInv, InCall
  <1>13. WordsInv'
    BY <1>2, <1>4, WordsKept DEF LossInv
  <1> QED
    BY <1>2, <1>6, <1>7, <1>8, <1>9, <1>10, <1>11, <1>12, <1>13 DEF LossInv

\* sendMessage puts one call for its epoch on the socket, or fails its call.
LEMMA LossSendCall ==
    ASSUME TypeInv, LossInv, NEW c \in Caller, SendCall(c)
    PROVE  LossInv'
  <1> USE CallReturnAssumption
  <1>0. PICK e : e = mem[rec[c]].epoch
    OBVIOUS
  <1> DEFINE m == [op |-> "OP_CALL", epoch |-> e, len |-> want[c]]
  <1>1. /\ pc[c] = "send" /\ pc'[c] \in {"wait", "leave"}
        /\ \A d \in Caller \ {c} : pc'[d] = pc[d] /\ rv'[d] = rv[d]
        /\ UNCHANGED <<rec, want, osdList, currentEpoch, queue, nodeRec, live,
                       mem, recLock, rpc, msg, it, target, corrupt>>
    BY DEF SendCall, AfterFailedSend, TypeInv, TypeOK, CallerTypes,
           handlerVars, recVars, returnVars
  <1>2. \/ wire' = wire \cup {m} /\ pc'[c] = "wait" /\ rv'[c] = rv[c]
        \/ wire' = wire /\ pc'[c] = "leave" /\ rv'[c] = 1
    BY <1>0 DEF SendCall, AfterFailedSend, TypeInv, TypeOK, CallerTypes
  <1>3. /\ InCall(c) /\ rec[c] \in live /\ ~mem[rec[c]].completed /\ rv[c] = 0
        /\ \A d \in Caller : InCall(d)' <=> InCall(d)
    BY <1>1 DEF InCall, LossInv, LeavingInv, CoreInv, OwnerInv
  <1>4. recLock[rec[c]] = None
    BY <1>3 DEF LossInv, LockInv, TypeInv, TypeOK, HeapTypes
  <1>5. ~Expected(e)
    <2>1. Owner(rec[c]) = c
      BY <1>3 DEF LossInv, CoreInv, OwnerInv
    <2>2. ASSUME Expected(e) PROVE FALSE
      <3>1. PICK d \in Caller :
              /\ Expects(d, e) /\ Owner(rec[d]) = d
              /\ \A a \in live : mem[a].epoch = e => a = rec[d]
        BY <2>2, ExpectedRecord
      <3>2. rec[c] = rec[d]
        BY <1>0, <1>3, <3>1
      <3> QED
        BY <1>1, <2>1, <3>1, <3>2 DEF Expects
    <2> QED
      BY <2>2
  <1>6. \A f : Expected(f) => Expected(f)'
    BY <1>1 DEF Expected, Expects
  <1>7. FlightInv'
    <2>1. CASE wire' = wire
      BY <1>1, <1>6, <2>1, FlightKept DEF LossInv, Answering
    <2>2. CASE wire' = wire \cup {m} /\ pc'[c] = "wait"
      <3>1. Expected(e)'
        BY <1>0, <1>1, <1>3, <2>2 DEF Expected, Expects
      <3>2. /\ m.epoch = e /\ m.op # "OP_ERROR"
            /\ \A w \in wire : w.epoch # e
            /\ \A r \in Returner : Answering(r) => msg[r].epoch # e
        BY <1>5 DEF LossInv, FlightInv
      <3>3. \A r \in Returner : Answering(r)' <=> Answering(r)
        BY <1>1 DEF Answering
      <3> HIDE DEF m
      <3>4. ASSUME NEW w \in wire'
            PROVE  /\ Expected(w.epoch)'
                   /\ w.op = "OP_ERROR" => "errorReply" \in Faults
                   /\ \A n \in wire' : w.epoch = n.epoch => w = n
        BY <1>6, <2>2, <3>1, <3>2 DEF LossInv, FlightInv
      <3>5. ASSUME NEW r \in Returner, Answering(r)'
            PROVE  /\ Expected(msg[r].epoch)'
                   /\ \A w \in wire' : w.epoch # msg'[r].epoch
                   /\ \A s \in Returner :
                        Answering(s)' /\ msg'[s].epoch = msg'[r].epoch => s = r
        BY <1>1, <1>6, <2>2, <3>2, <3>3, <3>5 DEF LossInv, FlightInv
      <3> QED
        BY <1>1, <3>4, <3>5 DEF FlightInv
    <2> QED
      BY <1>2, <2>1, <2>2
  <1>8. CoreInv'
    BY CoreWaiting DEF LossInv
  <1>9. MemoryInv' /\ NodeInv' /\ FoundInv' /\ LockInv'
    BY <1>1 DEF LossInv, MemoryInv, NodeInv, FoundInv, LockInv
  <1>10. LeavingInv'
    BY <1>1, <1>2, <1>3, <1>4 DEF LossInv, LeavingInv, InCall
  <1>11. WordsInv'
    BY <1>1, <1>3, WordsKept DEF LossInv
  <1> QED
    BY <1>1, <1>7, <1>8, <1>9, <1>10, <1>11 DEF LossInv

\* waitForReturn: who goes on is completed, who sleeps is still expected to.
LEMMA LossWaiting ==
    ASSUME TypeInv, LossInv, NEW c \in Caller, WaitForReturn(c) \/ Resume(c)
    PROVE  LossInv'
  <1>1. /\ pc[c] \in {"wait", "woken"} /\ pc'[c] \in {"blocked", "leave"}
        /\ \A d \in Caller \ {c} : pc'[d] = pc[d]
        /\ UNCHANGED <<rec, rv, osdList, currentEpoch, queue, nodeRec, live,
                       mem, recLock, rpc, msg, it, target, wire, corrupt>>
    BY DEF WaitForReturn, Resume, Awaiting, TypeInv, TypeOK, CallerTypes,
           callerVars, handlerVars, recVars, returnVars, sandboxVars
  <1>2. /\ \A d \in Caller : InCall(d)' <=> InCall(d)
        /\ InCall(c) /\ rv[c] = 0
    BY <1>1 DEF InCall, LossInv, LeavingInv, TypeInv, TypeOK, CallerTypes
  <1>3. /\ pc'[c] = "leave" =>
             mem[rec[c]].completed /\ recLock[rec[c]] = None
        /\ pc[c] = "wait" /\ ~mem[rec[c]].completed => pc'[c] = "blocked"
    BY <1>2 DEF WaitForReturn, Resume, Awaiting, RecordFree, LossInv,
                LeavingInv, TypeInv, TypeOK, CallerTypes
  <1>4. FlightInv'
    <2>1. \A e : Expected(e) => Expected(e)'
      BY <1>1, <1>3 DEF Expected, Expects
    <2> QED
      BY <1>1, <2>1, FlightKept DEF LossInv, Answering
  <1>5. CoreInv'
    BY CoreWaiting DEF LossInv
  <1>6. MemoryInv' /\ NodeInv' /\ FoundInv' /\ LockInv'
    BY <1>1 DEF LossInv, MemoryInv, NodeInv, FoundInv, LockInv
  <1>7. LeavingInv'
    BY <1>1, <1>2, <1>3 DEF LossInv, LeavingInv, InCall
  <1>8. WordsInv'
    BY <1>1, <1>2, WordsKept DEF LossInv
  <1> QED
    BY <1>1, <1>4, <1>5, <1>6, <1>7, <1>8 DEF LossInv

\* destroyRec: whatever nodes are left with the record, nothing under way has
\* its epoch.
LEMMA LossLeave ==
    ASSUME TypeInv, LossInv, NEW c \in Caller, Leave(c)
    PROVE  LossInv'
  <1> USE CallReturnAssumption
  <1> DEFINE b == rec[c]
  <1>1. /\ pc[c] = "leave"
        /\ live' = live \ {b}
        /\ rec' = [rec EXCEPT ![c] = None]
        /\ pc' = [pc EXCEPT ![c] = AfterCall(c)]
        /\ UNCHANGED <<rv, osdList, currentEpoch, queue, nodeRec, mem, recLock,
                       rpc, msg, it, target, wire, corrupt>>
    BY DEF Leave, handlerVars, returnVars, sandboxVars
  <1>3. /\ InCall(c) /\ b \in live /\ Owner(b) = c /\ ~BeingMade(b)
        /\ recLock[b] = None
    BY <1>1 DEF LossInv, CoreInv, OwnerInv, LeavingInv, InCall, BeingMade
  <1>4. /\ pc'[c] \in {"create", "end"}
        /\ \A d \in Caller \ {c} : pc'[d] = pc[d] /\ rec'[d] = rec[d]
    BY <1>1 DEF AfterCall, TypeInv, TypeOK, CallerTypes
  <1>5. /\ ~InCall(c)'
        /\ \A d \in Caller \ {c} : InCall(d)' <=> InCall(d)
        /\ \A d \in Caller \ {c} : InCall(d) => rec[d] \in live \ {b}
    BY <1>3, <1>4 DEF InCall, LossInv, CoreInv, OwnerInv
  <1>6. b \in Rec /\ live \subseteq Rec
    BY <1>3 DEF TypeInv, TypeOK, HeapTypes
  <1>7. CoreInv'
    BY CoreLeave DEF LossInv
  <1>8. MemoryInv'
    <2>1. /\ mem[b].epoch >= FirstEpoch /\ mem[b].epoch < currentEpoch
          /\ \A a \in live \ {b} : mem[a].epoch # mem[b].epoch
      BY <1>3 DEF LossInv, MemoryInv, CoreInv, EpochInv
    <2> QED
      BY <1>1, <2>1 DEF LossInv, MemoryInv
  <1>9. NodeInv'
    BY <1>1 DEF LossInv, NodeInv
  <1>10. FlightInv'
    <2>1. ASSUME NEW f, Expected(f) PROVE Expected(f)'
      <3>1. PICK d \in Caller : Expects(d, f)
        BY <2>1 DEF Expected
      <3>2. d # c /\ InCall(d)
        BY <1>1, <3>1 DEF Expects, InCall
      <3> QED
        BY <1>1, <1>4, <3>1, <3>2 DEF Expected, Expects
    <2> QED
      BY <1>1, <2>1, FlightKept DEF LossInv, Answering
  <1>11. FoundInv'
    <2>1. ASSUME NEW r \in Returner, rpc[r] = "submit"
          PROVE  nodeRec[it[r]] \in live \ {b}
      <3>1. PICK d \in Caller :
              /\ Expects(d, msg[r].epoch) /\ InCall(d)
              /\ nodeRec[it[r]] = rec[d]
        BY <2>1, FoundRecord
      <3>2. d # c
        BY <1>1, <3>1 DEF Expects
      <3> QED
        BY <1>5, <3>1, <3>2
    <2> QED
      BY <1>1, <2>1 DEF LossInv, FoundInv
  <1>12. LockInv'
    <2>1. \A r \in Returner : rpc[r] = "signal" => target[r] \in live \ {b}
      BY <1>3 DEF LossInv, LockInv
    <2> QED
      BY <1>1, <2>1 DEF LossInv, LockInv
  <1>13. LeavingInv'
    BY <1>1, <1>4, <1>5 DEF LossInv, LeavingInv, InCall
  <1>14. WordsInv'
    BY <1>1, <1>4, <1>5 DEF LossInv, WordsInv, WordsAreOwn
  <1> QED
    BY <1>1, <1>7, <1>8, <1>9, <1>10, <1>11, <1>12, <1>13, <1>14 DEF LossInv

\* Receiving takes the answer from the socket into the returner's hands; errors
\* and unknown messages are nobody's.
LEMMA LossReceive ==
    ASSUME TypeInv, LossInv, NEW r \in Returner, Receive(r)
    PROVE  LossInv'
  <1>1. PICK m \in wire :
          /\ wire' = wire \ {m}
          /\ \/ /\ m.op = "OP_RETURN"
                /\ msg' = [msg EXCEPT ![r] = m]
                /\ rpc' = [rpc EXCEPT ![r] = "find"]
             \/ /\ m.op = "OP_ERROR"
                /\ msg' = [msg EXCEPT ![r] = [m EXCEPT !.epoch = HeaderWord]]
                /\ rpc' = [rpc EXCEPT ![r] = "find"]
             \/ UNCHANGED <<msg, rpc>>
    BY DEF Receive
  <1>2. /\ rpc[r] = "recv" /\ rpc'[r] \in {"recv", "find"}
        /\ \A s \in Returner \ {r} : rpc'[s] = rpc[s] /\ msg'[s] = msg[s]
        /\ UNCHANGED <<pc, rec, rv, osdList, currentEpoch, queue, nodeRec, live,
                       mem, recLock, it, target, corrupt>>
    BY DEF Receive, TypeInv, TypeOK, ReturnerTypes, callerVars, handlerVars,
           recVars
  <1>3. \/ /\ m.op = "OP_RETURN" /\ msg'[r] = m /\ rpc'[r] = "find"
        \/ /\ m.op = "OP_ERROR" /\ msg'[r].op = "OP_ERROR" /\ rpc'[r] = "find"
           /\ msg'[r].epoch = HeaderWord /\ "errorReply" \in Faults
        \/ rpc'[r] = "recv"
    BY <1>1, <1>2 DEF TypeInv, TypeOK, ReturnerTypes, WireTypes, Message, LossInv,
                      FlightInv
  <1>4. \A e : Expected(e) => Expected(e)'
    BY <1>2 DEF Expected, Expects
  <1>5. /\ \A s \in Returner \ {r} :
             Answering(s)' <=> Answering(s)
        /\ Answering(r)' => m.op = "OP_RETURN" /\ msg'[r] = m
        /\ ~Answering(r)
    BY <1>2, <1>3 DEF Answering
  <1>6. FlightInv'
    <2>1. \A w \in wire' : w \in wire /\ w # m /\ w.epoch # m.epoch
      BY <1>1 DEF LossInv, FlightInv
    <2>2. \A s \in Returner : Answering(s) => msg[s].epoch # m.epoch
      BY DEF LossInv, FlightInv
    <2>3. ASSUME NEW s \in Returner \ {r}, Answering(s)'
          PROVE  /\ Expected(msg[s].epoch)'
                 /\ \A w \in wire' : w.epoch # msg'[s].epoch
                 /\ \A t \in Returner :
                      Answering(t)' /\ msg'[t].epoch = msg'[s].epoch => t = s
      <3>1. /\ Answering(s) /\ Expected(msg[s].epoch) /\ msg'[s] = msg[s]
            /\ msg[s].epoch # m.epoch
            /\ \A w \in wire : w.epoch # msg[s].epoch
        BY <1>2, <1>5, <2>2, <2>3 DEF LossInv, FlightInv
      <3>2. Expected(msg[s].epoch)'
        BY <1>2, <3>1 DEF Expected, Expects
      <3>3. ASSUME NEW t \in Returner, Answering(t)',
                   msg'[t].epoch = msg'[s].epoch
            PROVE  t = s
        <4>1. t # r
          BY <1>5, <3>1, <3>3
        <4> QED
          BY <1>2, <1>5, <3>1, <3>3, <4>1 DEF LossInv, FlightInv
      <3> QED
        BY <1>1, <3>1, <3>2, <3>3
    <2>4. ASSUME Answering(r)'
          PROVE  /\ Expected(msg[r].epoch)'
                 /\ \A w \in wire' : w.epoch # msg'[r].epoch
                 /\ \A t \in Returner :
                      Answering(t)' /\ msg'[t].epoch = msg'[r].epoch => t = r
      <3>1. msg'[r] = m /\ Expected(m.epoch)
        BY <1>5, <2>4 DEF LossInv, FlightInv
      <3>2. Expected(msg[r].epoch)'
        BY <1>2, <3>1 DEF Expected, Expects
      <3> QED
        BY <1>2, <1>5, <2>1, <2>2, <3>1, <3>2
    <2>5. \A w \in wire' : Expected(w.epoch)'
      BY <1>4, <2>1 DEF LossInv, FlightInv
    <2> QED
      BY <2>1, <2>3, <2>4, <2>5 DEF LossInv, FlightInv
  <1>7. CoreInv'
    BY CoreFind DEF LossInv
  <1>8. MemoryInv' /\ NodeInv'
    BY <1>2 DEF LossInv, MemoryInv, NodeInv
  <1>9. FoundInv'
    BY <1>2, <1>3 DEF LossInv, FoundInv
  <1>10. LockInv'
    BY <1>2 DEF LossInv, LockInv, TypeInv, TypeOK, HeapTypes
  <1>11. LeavingInv'
    BY <1>2 DEF LossInv, LeavingInv, InCall
  <1>12. WordsInv'
    BY <1>2, WordsKept DEF LossInv, InCall
  <1> QED
    BY <1>2, <1>6, <1>7, <1>8, <1>9, <1>10, <1>11, <1>12 DEF LossInv

\* findByEpoch finds a live record or none, though the queue holds others.
LEMMA LossFindByEpoch ==
    ASSUME Lossy, TypeInv, LossInv, NEW r \in Returner, FindByEpoch(r)
    PROVE  LossInv'
  <1> USE CallReturnAssumption
  <1>1. /\ rpc[r] = "find" /\ rpc'[r] \in {"recv", "submit"}
        /\ \A s \in Returner \ {r} :
             rpc'[s] = rpc[s] /\ msg'[s] = msg[s] /\ it'[s] = it[s]
        /\ UNCHANGED <<pc, rec, rv, osdList, currentEpoch, nodeRec, live, mem,
                       recLock, target, wire, corrupt>>
    BY DEF FindByEpoch, TypeInv, TypeOK, ReturnerTypes, callerVars, recVars,
           sandboxVars
  <1>2. \/ queue' = queue /\ rpc'[r] = "recv"
        \/ \E i \in Matching(msg[r].epoch) :
             /\ it'[r] = queue[i] /\ queue' = Erase(i) /\ rpc'[r] = "submit"
             /\ msg' = msg
    BY DEF FindByEpoch, TypeInv, TypeOK, ReturnerTypes
  <1>3. /\ queue \in Seq(Node) /\ DOMAIN queue = 1..Len(queue)
        /\ Len(queue) \in Nat
    BY LenProperties DEF TypeInv, TypeOK, HeapTypes
  <1>4. CoreInv'
    BY CoreFind DEF LossInv
  <1>5. MemoryInv' /\ LeavingInv'
    BY <1>1 DEF LossInv, MemoryInv, LeavingInv, InCall
  <1>6. LockInv'
    BY <1>1 DEF LossInv, LockInv, TypeInv, TypeOK, HeapTypes
  <1>7. WordsInv'
    BY <1>1, WordsKept DEF LossInv, InCall
  <1>8. FlightInv'
    <2>1. \A e : Expected(e) => Expected(e)'
      BY <1>1 DEF Expected, Expects
    <2>2. \A s \in Returner : Answering(s)' =>
            Answering(s) /\ msg'[s].epoch = msg[s].epoch
      BY <1>1, <1>2 DEF Answering
    <2> QED
      BY <1>1, <2>1, <2>2, FlightKept DEF LossInv
  <1>9. NodeInv'
    <2>1. CASE queue' = queue
      BY <1>1, <2>1 DEF LossInv, NodeInv
    <2>2. ASSUME NEW i \in 1..Len(queue), queue' = Erase(i)
          PROVE  NodeInv'
      <3>1. /\ queue' \in Seq(Node) /\ Len(queue') = Len(queue) - 1
            /\ \A j \in 1..(Len(queue) - 1) :
                 queue'[j] = IF j < i THEN queue[j] ELSE queue[j + 1]
        BY <1>3, <2>2, RemoveAtType DEF Erase
      <3>2. DOMAIN queue' = 1..(Len(queue) - 1)
        BY <3>1, LenProperties
      <3> QED
        BY <1>1, <1>3, <3>1, <3>2 DEF LossInv, NodeInv
    <2> QED
      BY <1>2, <1>3, <2>1, <2>2 DEF Matching
  <1>10. FoundInv'
    <2>1. ASSUME rpc'[r] = "submit"
          PROVE  /\ msg'[r].op = "OP_RETURN"
                 /\ nodeRec'[it'[r]] \in live'
                 /\ mem'[nodeRec'[it'[r]]].epoch = msg'[r].epoch
      <3>1. PICK i \in Matching(msg[r].epoch) : it'[r] = queue[i] /\ msg' = msg
        BY <1>2, <2>1
      <3> DEFINE a == nodeRec[queue[i]]
      <3>2. /\ i \in DOMAIN queue /\ a \in Rec /\ mem[a].epoch = msg[r].epoch
            /\ mem[a].epoch \in Int
        BY <3>1 DEF Matching, LossInv, NodeInv, TypeInv, TypeOK, HeapTypes, Record
      <3> HIDE DEF a
      <3>3. mem[a].epoch \in Garbage \/ mem[a].epoch >= FirstEpoch
        BY <3>2 DEF LossInv, MemoryInv
      <3>4. msg[r].op = "OP_RETURN"
        BY <1>1, <3>2, <3>3 DEF LossInv, FoundInv, Lossy
      <3>5. a \in live
        <4>1. Expected(msg[r].epoch)
          BY <1>1, <3>4 DEF LossInv, FlightInv, Answering
        <4>2. \E b \in live : mem[b].epoch = msg[r].epoch
          BY <4>1, ExpectedRecord DEF Expects
        <4> QED
          BY <3>2, <4>2 DEF LossInv, MemoryInv
      <3> QED
        BY <1>1, <3>1, <3>2, <3>4, <3>5 DEF a
    <2> QED
      BY <1>1, <2>1 DEF LossInv, FoundInv
  <1> QED
    BY <1>1, <1>4, <1>5, <1>6, <1>7, <1>8, <1>9, <1>10 DEF LossInv

\* submitReturn: the answer leaves its flight, and the call is completed with it.
LEMMA LossSubmit ==
    ASSUME TypeInv, LossInv, NEW r \in Returner, Submit(r)
    PROVE  LossInv'
  <1> USE CallReturnAssumption
  <1> DEFINE b == nodeRec[it[r]]
             m == msg[r]
  <1>1. rpc[r] = "submit" /\ m.op = "OP_RETURN" /\ b \in live /\ Answering(r)
    BY DEF Submit, LossInv, FoundInv, Answering
  <1>2. PICK own \in Caller :
          /\ Expects(own, m.epoch) /\ InCall(own) /\ b = rec[own]
          /\ Owner(b) = own
    BY <1>1, FoundRecord
  <1>3. /\ target' = [target EXCEPT ![r] = b]
        /\ recLock[b] = None
        /\ recLock' = [recLock EXCEPT ![b] = r]
        /\ CompleteWithReturn(b, m)
        /\ rpc' = [rpc EXCEPT ![r] = "signal"]
        /\ it' = [it EXCEPT ![r] = None]
        /\ UNCHANGED <<pc, rec, rv, want, currentEpoch, queue, nodeRec, live,
                       msg, wire, up, corrupt>>
    BY <1>1 DEF Submit, RecordFree, handlerVars, sandboxVars
  <1>4. /\ b \in Rec /\ mem[b] \in Record /\ m \in Message /\ live \subseteq Rec
        /\ m.len \in Nat /\ mem[b].size \in 0..MaxOsds
    BY <1>1 DEF TypeInv, TypeOK, HeapTypes, ReturnerTypes, Record, Message
  <1>5. /\ rpc'[r] = "signal" /\ target'[r] = b /\ recLock'[b] = r
        /\ \A s \in Returner \ {r} :
             rpc'[s] = rpc[s] /\ it'[s] = it[s] /\ target'[s] = target[s]
        /\ \A a \in live \ {b} : recLock'[a] = recLock[a]
    BY <1>3, <1>4 DEF TypeInv, TypeOK, HeapTypes, ReturnerTypes
  <1> HIDE DEF b, m
  <1>6. /\ mem'[b].completed = TRUE /\ mem'[b].epoch = mem[b].epoch
        /\ mem'[b].block = mem[b].block /\ mem'[b].size = mem[b].size
        /\ \A a \in Rec \ {b} : mem'[a] = mem[a]
    BY <1>1, <1>3, <1>4, Completes
  <1>7. \A a \in Rec : mem'[a].epoch = mem[a].epoch
    BY <1>6
  <1>8. /\ \A d \in Caller : InCall(d)' <=> InCall(d)
        /\ \A d \in Caller \ {own} : InCall(d) => rec[d] \in live \ {b}
    BY <1>2, <1>3 DEF InCall, LossInv, CoreInv, OwnerInv
  <1>9. /\ pc[own] \in {"wait", "blocked"} /\ ~mem[b].completed
        /\ mem[b].epoch = m.epoch
    BY <1>2 DEF Expects
  <1>10. CoreInv'
    BY CoreSubmit DEF LossInv
  <1>11. MemoryInv'
    BY <1>3, <1>4, <1>7 DEF LossInv, MemoryInv
  <1>12. NodeInv'
    BY <1>3 DEF LossInv, NodeInv
  <1>13. FlightInv'
    <2>1. ASSUME NEW e, Expected(e), e # m.epoch PROVE Expected(e)'
      <3>1. PICK d \in Caller : Expects(d, e)
        BY <2>1 DEF Expected
      <3>2. d # own /\ InCall(d)
        BY <1>2, <2>1, <3>1 DEF Expects, InCall
      <3>3. mem'[rec[d]] = mem[rec[d]]
        BY <1>4, <1>6, <1>8, <3>2
      <3> QED
        BY <1>3, <3>1, <3>3 DEF Expected, Expects
    <2>2. /\ \A w \in wire : w.epoch # m.epoch
          /\ \A s \in Returner : Answering(s) /\ msg[s].epoch = m.epoch => s = r
      BY <1>1 DEF LossInv, FlightInv, m
    <2>3. \A s \in Returner : Answering(s)' => Answering(s) /\ s # r
      BY <1>3, <1>5 DEF Answering
    <2>4. ASSUME NEW w \in wire' PROVE Expected(w.epoch)'
      BY <1>3, <2>1, <2>2 DEF LossInv, FlightInv
    <2>5. ASSUME NEW s \in Returner, Answering(s)' PROVE Expected(msg[s].epoch)'
      <3>1. Expected(msg[s].epoch) /\ msg[s].epoch # m.epoch /\ msg'[s] = msg[s]
        BY <1>3, <2>2, <2>3, <2>5 DEF LossInv, FlightInv
      <3>2. PICK e : e = msg[s].epoch
        OBVIOUS
      <3>3. Expected(e)' /\ e = msg'[s].epoch
        BY <2>1, <3>1, <3>2
      <3> QED
        BY <3>3 DEF Expected, Expects
    <2> QED
      BY <1>3, <2>3, <2>4, <2>5 DEF LossInv, FlightInv
  <1>14. FoundInv'
    BY <1>3, <1>4, <1>5, <1>7 DEF LossInv, FoundInv
  <1>15. LockInv'
    <2>1. \A s \in Returner \ {r} :
            rpc[s] = "signal" => target[s] \in live \ {b}
      BY <1>3 DEF LossInv, LockInv, TypeInv, TypeOK, HeapTypes
    <2>2. \A a \in live \ {b} : recLock[a] # None => recLock[a] \in Returner \ {r}
      BY <1>1 DEF LossInv, LockInv, TypeInv, TypeOK, HeapTypes
    <2> QED
      BY <1>1, <1>3, <1>4, <1>5, <1>6, <2>1, <2>2 DEF LossInv, LockInv
  <1>16. LeavingInv'
    <2>1. ASSUME NEW d \in Caller \ {own}, InCall(d)
          PROVE  mem'[rec[d]] = mem[rec[d]] /\ recLock'[rec[d]] = recLock[rec[d]]
      BY <1>4, <1>5, <1>6, <1>8, <2>1
    <2> QED
      BY <1>3, <1>8, <1>9, <2>1 DEF LossInv, LeavingInv, InCall
  <1>17. WordsInv'
    <2>1. osdList' = [osdList EXCEPT ![own] =
             [w \in 1..MaxOsds |->
                IF w \in Copied(b, m) THEN m.epoch ELSE @[w]]]
      BY <1>2, <1>3 DEF CompleteWithReturn, Owner
    <2>2. \A d \in Caller \ {own} : osdList'[d] = osdList[d]
      BY <2>1 DEF TypeInv, TypeOK, CallerTypes
    <2>3. WordsAreOwn(own)'
      <3>1. mem'[b].provided = m.len
        BY <1>3, <1>4 DEF CompleteWithReturn, TypeInv, TypeOK, HeapTypes, Record
      <3>2. ASSUME NEW w \in 1..Lesser(m.len, mem[b].size)
            PROVE  osdList'[own][w] = m.epoch
        <4>1. w \in 1..MaxOsds /\ w \in Copied(b, m)
          BY <1>4 DEF Lesser, Copied
        <4> QED
          BY <2>1, <4>1 DEF TypeInv, TypeOK, CallerTypes
      <3> QED
        BY <1>2, <1>3, <1>6, <1>9, <3>1, <3>2 DEF WordsAreOwn
    <2>4. ASSUME NEW d \in Caller \ {own}, InCall(d), mem'[rec[d]].completed,
                 mem'[rec[d]].errorCode = 0
          PROVE  WordsAreOwn(d)'
      <3>1. mem'[rec[d]] = mem[rec[d]]
        BY <1>4, <1>6, <1>8, <2>4
      <3> QED
        BY <1>3, <2>2, <2>4, <3>1 DEF LossInv, WordsInv, WordsAreOwn
    <2> QED
      BY <1>3, <1>8, <2>3, <2>4 DEF WordsInv
  <1> QED
    BY <1>1, <1>3, <1>10, <1>11, <1>12, <1>13, <1>14, <1>15, <1>16, <1>17
       DEF LossInv

\* The signal and the unlock: who is woken has been answered.
LEMMA LossSignal ==
    ASSUME TypeInv, LossInv, NEW r \in Returner, Signal(r)
    PROVE  LossInv'
  <1> USE CallReturnAssumption
  <1> DEFINE b == target[r]
  <1>1. rpc[r] = "signal" /\ b \in live /\ recLock[b] = r /\ mem[b].completed
    BY DEF Signal, LossInv, LockInv
  <1>2. /\ pc' = [c \in Caller |-> IF c \in Woken(b) THEN "woken" ELSE pc[c]]
        /\ recLock' = [recLock EXCEPT ![b] = None]
        /\ rpc' = [rpc EXCEPT ![r] = "recv"]
        /\ msg' = [msg EXCEPT ![r] = NoMessage]
        /\ target' = [target EXCEPT ![r] = None]
        /\ UNCHANGED <<rec, rv, osdList, currentEpoch, queue, nodeRec, live,
                       mem, it, wire, up, corrupt>>
    BY <1>1 DEF Signal, handlerVars, sandboxVars
  <1>3. \A c \in Caller :
          \/ pc'[c] = pc[c] /\ ~(pc[c] = "blocked" /\ rec[c] = b)
          \/ pc'[c] = "woken" /\ pc[c] = "blocked" /\ rec[c] = b
    BY <1>2 DEF Woken
  <1>4. /\ rpc'[r] = "recv"
        /\ \A s \in Returner \ {r} :
             rpc'[s] = rpc[s] /\ msg'[s] = msg[s] /\ target'[s] = target[s]
        /\ recLock'[b] = None
        /\ \A a \in live \ {b} : recLock'[a] = recLock[a]
    BY <1>1, <1>2 DEF TypeInv, TypeOK, HeapTypes, ReturnerTypes
  <1>5. /\ \A c \in Caller : InCall(c)' <=> InCall(c)
        /\ \A c \in Caller : InCall(c) => rec[c] \in live
    BY <1>3 DEF InCall, LossInv, CoreInv, OwnerInv
  <1> HIDE DEF b
  <1>6. CoreInv'
    BY CoreSignal DEF LossInv
  <1>7. MemoryInv' /\ NodeInv'
    BY <1>2 DEF LossInv, MemoryInv, NodeInv
  <1>8. FlightInv'
    <2>1. \A e : Expected(e) => Expected(e)'
      BY <1>1, <1>2, <1>3 DEF Expected, Expects
    <2>2. \A s \in Returner : Answering(s)' =>
            Answering(s) /\ msg'[s].epoch = msg[s].epoch
      BY <1>4 DEF Answering
    <2> QED
      BY <1>2, <2>1, <2>2, FlightKept DEF LossInv
  <1>9. FoundInv'
    BY <1>2, <1>4 DEF LossInv, FoundInv
  <1>10. LockInv'
    BY <1>1, <1>2, <1>4 DEF LossInv, LockInv, TypeInv, TypeOK, HeapTypes
  <1>11. LeavingInv'
    BY <1>1, <1>2, <1>3, <1>4, <1>5 DEF LossInv, LeavingInv, InCall
  <1>12. WordsInv'
    BY <1>2, <1>5, WordsKept DEF LossInv
  <1> QED
    BY <1>2, <1>6, <1>7, <1>8, <1>9, <1>10, <1>11, <1>12 DEF LossInv

\* The sandbox turns a call into its one answer, or takes it away.
LEMMA LossSandbox ==
    ASSUME Lossy, TypeInv, LossInv, SandboxReply \/ SandboxDeath
    PROVE  LossInv'
  <1>1. UNCHANGED <<pc, rec, want, rv, osdList, currentEpoch, mutex, queue,
                    nodeRec, live, mem, recLock, rpc, msg, it, target, corrupt>>
    BY DEF SandboxReply, SandboxDeath, callerVars, handlerVars, recVars,
           returnVars
  <1>2. /\ \A e : Expected(e) => Expected(e)'
        /\ \A r \in Returner : Answering(r)' =>
             Answering(r) /\ msg'[r].epoch = msg[r].epoch
    BY <1>1 DEF Expected, Expects, Answering
  <1>3. FlightInv'
    <2>1. CASE SandboxReply
      <3>0. PICK m \in { w \in wire : w.op = "OP_CALL" } :
             \E op \in {"OP_RETURN"}
                     \cup (IF "errorReply" \in Faults THEN {"OP_ERROR"} ELSE {})
                     \cup (IF "unknownReply" \in Faults THEN {"OP_OTHER"} ELSE {}),
                len \in IF "oddLength" \in Faults THEN 0..(m.len + 1) ELSE {m.len},
                keep \in {{}} :
               wire' = (wire \ {m}) \cup keep
                          \cup {[op |-> op, epoch |-> m.epoch, len |-> len]}
        BY <2>1 DEF SandboxReply, Lossy
      <3>1. PICK op, len :
              /\ wire' = (wire \ {m}) \cup {}
                           \cup {[op |-> op, epoch |-> m.epoch, len |-> len]}
              /\ op = "OP_ERROR" => "errorReply" \in Faults
        BY <3>0
      <3> DEFINE n == [op |-> op, epoch |-> m.epoch, len |-> len]
      <3>2. /\ \A w \in wire' : w = n \/ w \in wire \ {m}
            /\ n.epoch = m.epoch
            /\ n.op = "OP_ERROR" => "errorReply" \in Faults
        BY <3>1
      <3> HIDE DEF n
      <3>3. /\ Expected(m.epoch)
            /\ \A w \in wire \ {m} : w.epoch # m.epoch
            /\ \A r \in Returner : Answering(r) => m.epoch # msg[r].epoch
        BY DEF LossInv, FlightInv
      <3>4. ASSUME NEW w \in wire'
            PROVE  /\ Expected(w.epoch)'
                   /\ w.op = "OP_ERROR" => "errorReply" \in Faults
                   /\ \A v \in wire' : w.epoch = v.epoch => w = v
        BY <1>2, <3>2, <3>3 DEF LossInv, FlightInv
      <3>5. ASSUME NEW r \in Returner, Answering(r)'
            PROVE  /\ Expected(msg[r].epoch)'
                   /\ \A w \in wire' : w.epoch # msg'[r].epoch
                   /\ \A s \in Returner :
                        Answering(s)' /\ msg'[s].epoch = msg'[r].epoch => s = r
        <4>1. Expected(msg[r].epoch)'
          BY <1>1, <1>2, <3>5 DEF LossInv, FlightInv, Expected, Expects
        <4> QED
          BY <1>1, <1>2, <3>2, <3>3, <3>5, <4>1 DEF LossInv, FlightInv
      <3> QED
        BY <3>4, <3>5 DEF FlightInv
    <2>2. CASE SandboxDeath
      BY <1>2, <2>2, FlightKept DEF SandboxDeath, LossInv
    <2> QED
      BY <2>1, <2>2
  <1>4. CoreInv'
    BY <1>1, CoreKept DEF LossInv, CoreInv, NoLostWakeup
  <1>5. MemoryInv' /\ NodeInv' /\ FoundInv' /\ LockInv'
    BY <1>1 DEF LossInv, MemoryInv, NodeInv, FoundInv, LockInv
  <1>6. LeavingInv' /\ WordsInv'
    BY <1>1 DEF LossInv, LeavingInv, WordsInv, WordsAreOwn, InCall
  <1> QED
    BY <1>1, <1>3, <1>4, <1>5, <1>6 DEF LossInv

\* Freed memory is given to somebody who leaves no epoch there.
LEMMA LossReuseMemory ==
    ASSUME Lossy, TypeInv, LossInv, ReuseMemory
    PROVE  LossInv'
  <1> USE CallReturnAssumption
  <1>1. /\ \A a \in live : mem'[a] = mem[a]
        /\ \A a \in Rec : mem'[a] = mem[a] \/ mem'[a].epoch \in Garbage
        /\ UNCHANGED <<pc, rec, rv, osdList, currentEpoch, queue, nodeRec, live,
                       recLock, rpc, msg, it, target, wire, corrupt>>
    BY Reuses
  <1>2. \A c \in Caller : InCall(c) => rec[c] \in live
    BY DEF LossInv, CoreInv, OwnerInv
  <1>3. CoreInv'
    BY CoreNext DEF LossInv, Next
  <1>4. MemoryInv'
    <2>1. \A g \in Garbage : g \in Int /\ g < FirstEpoch
      BY DEF Lossy
    <2>2. \A a \in live : mem[a].epoch \in Int /\ mem[a].epoch >= FirstEpoch
      BY DEF LossInv, MemoryInv, TypeInv, TypeOK, HeapTypes, Record
    <2> QED
      BY <1>1, <2>1, <2>2 DEF LossInv, MemoryInv
  <1>5. FlightInv'
    <2>1. \A e : Expected(e) => Expected(e)'
      BY <1>1, <1>2 DEF Expected, Expects, InCall
    <2> QED
      BY <1>1, <2>1, FlightKept DEF LossInv, Answering
  <1>6. NodeInv' /\ FoundInv' /\ LockInv'
    BY <1>1 DEF LossInv, NodeInv, FoundInv, LockInv
  <1>7. LeavingInv'
    BY <1>1, <1>2 DEF LossInv, LeavingInv, InCall
  <1>8. WordsInv'
    BY <1>1, <1>2 DEF LossInv, WordsInv, WordsAreOwn, InCall
  <1> QED
    BY <1>1, <1>3, <1>4, <1>5, <1>6, <1>7, <1>8 DEF LossInv

\* Every step preserves the invariant, as long as each call is answered once.
LEMMA LossNext ==
    ASSUME Lossy, TypeInv, LossInv, [Next]_vars
    PROVE  LossInv'
  <1>1. ASSUME NEW c \in Caller, CallerStep(c) \/ SpuriousWakeup(c)
        PROVE  LossInv'
    <2>1. ~SpuriousWakeup(c)
      BY DEF SpuriousWakeup, Lossy
    <2> QED
      BY <1>1, <2>1, LossCreateRec, LossPushRec, LossSendCall, LossWaiting,
         LossLeave DEF CallerStep
  <1>2. ASSUME NEW r \in Returner, ReturnerStep(r) PROVE LossInv'
    BY <1>2, LossReceive, LossFindByEpoch, LossSubmit, LossSignal
       DEF ReturnerStep
  <1>3. CASE UNCHANGED vars
    BY <1>3 DEF vars, callerVars, handlerVars, recVars, returnVars, sandboxVars,
                LossInv, CoreInv, MutexInv, OwnerInv, EpochInv, NoLostWakeup,
                MemoryInv, NodeInv, FlightInv, FoundInv, LockInv, LeavingInv,
                WordsInv, WordsAreOwn, Expected, Expects, Answering, InCall,
                Owner, BeingMade
  <1> QED
    BY <1>1, <1>2, <1>3, LossSandbox, LossReuseMemory DEF Next, Quiet

\* The invariant holds in every reachable state though sends fail and the
\* sandbox dies.
THEOREM LossHolds == Lossy => (Spec => [](TypeInv /\ LossInv))
  <1> SUFFICES ASSUME Lossy PROVE Spec => [](TypeInv /\ LossInv)
    OBVIOUS
  <1>1. Init => TypeInv /\ LossInv
    BY InitType, LossInit
  <1>2. TypeInv /\ LossInv /\ [Next]_vars => (TypeInv /\ LossInv)'
    BY NextType, LossNext
  <1> QED
    BY <1>1, <1>2, PTL DEF Spec
===============================================================================
