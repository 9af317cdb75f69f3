------------------------- MODULE CallReturnOnceProofs -------------------------
(***************************************************************************)
(* Proof that a waiting call is answered by exactly one returner, in a       *)
(* benign environment.  It rests on the inductive invariant of CallReturnInv *)
(* and on two facts it leaves out.                                           *)
(***************************************************************************)
EXTENDS CallReturnProofs, FiniteSetTheorems

\* The call with the epoch e has been sent.
Asked(e) ==
    /\ e < currentEpoch
    /\ \A c \in Caller : pc[c] \in {"push", "send"} => mem[rec[c]].epoch # e

\* Only calls that have been sent are replied to.  An error reply is left out:
\* its epoch is a word of the header.
AskedInv ==
    /\ \A m \in wire : Asked(m.epoch)
    /\ \A r \in Returner :
         rpc[r] \in {"find", "submit"} /\ msg[r].op = "OP_RETURN" =>
             Asked(msg[r].epoch)

\* A call that is not completed is in the queue or taken out of it.
PendInv ==
    \A a \in live :
        ~mem[a].completed /\ ~BeingMade(a) =>
            Queued(a) \/ \E r \in Returner : TakenBy(a, r)

OnceInv == TypeInv /\ IInv /\ AskedInv /\ PendInv

-------------------------------------------------------------------------------
(* Calls that have been sent stay so.                                        *)

\* Epochs go up, and a call on its way to being sent keeps its own or gets the
\* next.
Onward ==
    /\ currentEpoch' >= currentEpoch
    /\ \A c \in Caller : pc'[c] \in {"push", "send"} =>
         \/ mem'[rec'[c]].epoch = currentEpoch
         \/ pc[c] \in {"push", "send"} /\ mem'[rec'[c]].epoch = mem[rec[c]].epoch

LEMMA AskedStays ==
    ASSUME TypeInv, TypeInv', Onward, NEW e \in Int, Asked(e)
    PROVE  Asked(e)'
  <1>1. currentEpoch \in Int /\ currentEpoch' \in Int
    BY DEF TypeInv, TypeOK, HeapTypes
  <1> QED
    BY <1>1 DEF Asked, Onward

LEMMA StepsGoOnward ==
    ASSUME TypeInv, IInv, [Next]_vars
    PROVE  Onward
  <1> USE CallReturnAssumption
  <1>0. /\ currentEpoch \in Int
        /\ \A c \in Caller : rec[c] \in live => rec[c] \in Rec
        /\ mem \in [Rec -> Record]
    BY DEF TypeInv, TypeOK, HeapTypes
  <1>1. ASSUME currentEpoch' = currentEpoch, mem' = mem, rec' = rec,
               \A c \in Caller : pc'[c] \in {"push", "send"} =>
                                     pc[c] \in {"push", "send"}
        PROVE  Onward
    BY <1>0, <1>1 DEF Onward
  <1>2. ASSUME NEW c \in Caller, CreateRec(c) PROVE Onward
    <2>1. PICK b \in Rec \ live, n \in Requested :
            /\ rec' = [rec EXCEPT ![c] = b]
            /\ mem' = [mem EXCEPT ![b] =
                         [epoch |-> currentEpoch, errorCode |-> 0,
                          completed |-> FALSE, block |-> c, size |-> n,
                          provided |-> @.provided]]
      BY <1>2 DEF CreateRec
    <2>2. pc' = [pc EXCEPT ![c] = "push"] /\ currentEpoch' = currentEpoch
      BY <1>2 DEF CreateRec
    <2>3. mem'[rec'[c]].epoch = currentEpoch
      BY <2>1 DEF TypeInv, TypeOK, HeapTypes, CallerTypes
    <2>4. ASSUME NEW d \in Caller \ {c}, pc'[d] \in {"push", "send"}
          PROVE  pc[d] \in {"push", "send"} /\ mem'[rec'[d]].epoch = mem[rec[d]].epoch
      <3>1. pc[d] \in {"push", "send"} /\ rec'[d] = rec[d]
        BY <2>1, <2>2, <2>4 DEF TypeInv, TypeOK, CallerTypes
      <3>2. rec[d] \in live
        BY <3>1 DEF IInv, OwnerInv, InCall
      <3> QED
        BY <1>0, <2>1, <3>1, <3>2
    <2> QED
      BY <1>0, <2>2, <2>3, <2>4 DEF Onward
  <1>3. ASSUME NEW c \in Caller, PushRec(c) PROVE Onward
    <2>1. /\ pc[c] = "push" /\ pc' = [pc EXCEPT ![c] = "send"]
          /\ currentEpoch' = mem[rec[c]].epoch + 1 /\ mem' = mem /\ rec' = rec
      BY <1>3 DEF PushRec, recVars
    <2>2. mem[rec[c]].epoch = currentEpoch
      BY <2>1 DEF IInv, OwnerInv, EpochInv, BeingMade, InCall
    <2> QED
      BY <1>0, <2>1, <2>2 DEF Onward, TypeInv, TypeOK, CallerTypes
  <1>4. ASSUME NEW c \in Caller, SendCall(c) \/ WaitForReturn(c) \/ Resume(c)
                                 \/ SpuriousWakeup(c)
        PROVE  Onward
    <2>1. UNCHANGED <<currentEpoch, mem, rec>>
          /\ \A d \in Caller : pc'[d] \in {"push", "send"} =>
                                   pc[d] \in {"push", "send"}
      BY <1>4 DEF SendCall, WaitForReturn, Resume, SpuriousWakeup, Awaiting,
                  AfterFailedSend, handlerVars, recVars, TypeInv, TypeOK, CallerTypes
    <2> QED
      BY <1>1, <2>1
  <1>5. ASSUME NEW c \in Caller, Leave(c) PROVE Onward
    <2>1. /\ pc[c] = "leave" /\ UNCHANGED <<currentEpoch, mem>>
          /\ rec' = [rec EXCEPT ![c] = None]
          /\ pc' = [pc EXCEPT ![c] = AfterCall(c)]
      BY <1>5 DEF Leave, handlerVars
    <2>2. AfterCall(c) \in {"end", "create"}
      BY DEF AfterCall
    <2>3. ASSUME NEW d \in Caller, pc'[d] \in {"push", "send"}
          PROVE  pc[d] \in {"push", "send"} /\ rec'[d] = rec[d]
      BY <2>1, <2>2, <2>3 DEF TypeInv, TypeOK, CallerTypes
    <2> QED
      BY <1>0, <2>1, <2>3 DEF Onward
  <1>6. ASSUME NEW r \in Returner, Submit(r) PROVE Onward
    <2>1. UNCHANGED <<currentEpoch, rec, pc>>
      BY <1>6 DEF Submit, handlerVars
    <2>2. \A a \in Rec : mem'[a].epoch = mem[a].epoch
      <3>1. nodeRec[it[r]] \in live
        BY <1>6 DEF Submit, IInv, SubmitInv, Open
      <3>2. CASE CompleteWithReturn(nodeRec[it[r]], msg[r])
        BY <1>0, <3>2 DEF CompleteWithReturn, Record
      <3>3. CASE CompleteWithError(nodeRec[it[r]])
        BY <1>0, <3>3 DEF CompleteWithError, Record
      <3> QED
        BY <1>6, <3>1, <3>2, <3>3 DEF Submit
    <2>3. \A c \in Caller : pc[c] \in {"push", "send"} => rec[c] \in Rec
      BY <1>0 DEF IInv, OwnerInv, InCall
    <2> QED
      BY <1>0, <2>1, <2>2, <2>3 DEF Onward
  <1>7. ASSUME NEW r \in Returner, Receive(r) \/ FindByEpoch(r) \/ Signal(r)
        PROVE  Onward
    <2>1. UNCHANGED <<currentEpoch, mem, rec>>
          /\ \A d \in Caller : pc'[d] \in {"push", "send"} =>
                                   pc[d] \in {"push", "send"}
      BY <1>7 DEF Receive, FindByEpoch, Signal, callerVars, handlerVars, recVars
    <2> QED
      BY <1>1, <2>1
  <1>8. CASE SandboxReply \/ SandboxDeath \/ UNCHANGED vars
    BY <1>1, <1>8 DEF SandboxReply, SandboxDeath, vars, callerVars, handlerVars,
                      recVars
  <1>9. CASE ReuseMemory
    <2>1. \A c \in Caller : pc[c] \in {"push", "send"} => rec[c] \in live
      BY DEF IInv, OwnerInv, InCall
    <2> QED
      BY <1>0, <1>9, <2>1, Reuses DEF Onward
  <1> QED
    BY <1>2, <1>3, <1>4, <1>5, <1>6, <1>7, <1>8, <1>9
       DEF Next, Quiet, CallerStep, ReturnerStep

\* Only calls that have been sent are replied to, after every step.
LEMMA AskedStep ==
    ASSUME Benign, TypeInv, TypeInv', IInv, AskedInv, [Next]_vars
    PROVE  AskedInv'
  <1> USE CallReturnAssumption
  <1>0. Onward
    BY StepsGoOnward
  <1>1. \A m \in wire : m.epoch \in Int /\ Asked(m.epoch)'
    <2>1. ASSUME NEW m \in wire PROVE m.epoch \in Int /\ Asked(m.epoch)'
      <3>1. m.epoch \in Int /\ Asked(m.epoch)
        BY DEF AskedInv, TypeInv, TypeOK, WireTypes, Message
      <3> QED
        BY <1>0, <3>1, AskedStays
    <2> QED
      BY <2>1
  <1>2. ASSUME NEW r \in Returner, rpc[r] \in {"find", "submit"},
               msg[r].op = "OP_RETURN"
        PROVE  \A e \in {msg[r].epoch} : Asked(e)'
    <2>1. \A e \in {msg[r].epoch} : e \in Int /\ Asked(e)
      BY <1>2 DEF AskedInv, TypeInv, TypeOK, ReturnerTypes, Message
    <2> QED
      BY <1>0, <2>1, AskedStays
  <1>3. ASSUME wire' \subseteq wire,
               \A r \in Returner : rpc'[r] \in {"find", "submit"} =>
                   rpc[r] \in {"find", "submit"} /\ msg'[r] = msg[r]
        PROVE  AskedInv'
    BY <1>1, <1>2, <1>3 DEF AskedInv, Asked
  <1>4. ASSUME NEW c \in Caller, SendCall(c) PROVE AskedInv'
    <2>1. UNCHANGED <<rpc, msg>>
      BY <1>4 DEF SendCall, returnVars
    <2>2. CASE wire' = wire
      BY <1>3, <2>1, <2>2
    <2>3. ASSUME wire' = wire \cup {[op |-> "OP_CALL", epoch |-> mem[rec[c]].epoch,
                                     len |-> want[c]]},
                 pc' = [pc EXCEPT ![c] = "wait"]
          PROVE  AskedInv'
      <3>1. pc[c] = "send" /\ UNCHANGED <<rec, mem, currentEpoch>>
        BY <1>4 DEF SendCall, handlerVars, recVars
      <3>2. rec[c] \in live /\ ~BeingMade(rec[c])
        BY <3>1 DEF IInv, OwnerInv, BeingMade, InCall
      <3>3. mem[rec[c]].epoch < currentEpoch
        BY <3>2 DEF IInv, EpochInv
      <3>4. ASSUME NEW d \in Caller, pc'[d] \in {"push", "send"}
            PROVE  mem[rec[d]].epoch # mem[rec[c]].epoch
        <4>1. d # c /\ pc[d] \in {"push", "send"}
          BY <2>3, <3>4 DEF TypeInv, TypeOK, CallerTypes
        <4>2. rec[d] \in live /\ rec[d] # rec[c]
          BY <3>1, <4>1 DEF IInv, OwnerInv, InCall
        <4> QED
          BY <3>2, <4>2 DEF IInv, EpochInv
      <3>5. Asked(mem[rec[c]].epoch)'
        BY <3>1, <3>3, <3>4 DEF Asked
      <3>6. \A m \in wire' : Asked(m.epoch)'
        BY <1>1, <2>3, <3>1, <3>5
      <3> QED
        BY <1>2, <2>1, <3>6 DEF AskedInv, Asked
    <2> QED
      BY <1>4, <2>2, <2>3 DEF SendCall
  <1>5. ASSUME NEW r \in Returner, Receive(r) PROVE AskedInv'
    <2>1. PICK m \in wire :
            /\ wire' = wire \ {m}
            /\ \/ m.op = "OP_RETURN" /\ msg' = [msg EXCEPT ![r] = m]
               \/ m.op = "OP_ERROR" /\ msg' = [msg EXCEPT ![r] =
                                                  [m EXCEPT !.epoch = HeaderWord]]
               \/ UNCHANGED <<msg, rpc>>
      BY <1>5 DEF Receive
    <2>2. \A s \in Returner \ {r} : rpc'[s] = rpc[s]
      BY <1>5 DEF Receive, TypeInv, TypeOK, ReturnerTypes
    <2>3. CASE UNCHANGED <<msg, rpc>>
      BY <1>3, <2>1, <2>3
    <2>4. CASE m.op = "OP_RETURN" /\ msg' = [msg EXCEPT ![r] = m]
      BY <1>1, <1>2, <2>1, <2>2, <2>4
         DEF AskedInv, Asked, TypeInv, TypeOK, ReturnerTypes
    <2>5. CASE m.op = "OP_ERROR" /\ msg' = [msg EXCEPT ![r] =
                                              [m EXCEPT !.epoch = HeaderWord]]
      <3>1. msg'[r].op = "OP_ERROR"
        BY <2>1, <2>5 DEF TypeInv, TypeOK, ReturnerTypes, WireTypes, Message
      <3>2. \A s \in Returner \ {r} : msg'[s] = msg[s]
        BY <2>5 DEF TypeInv, TypeOK, ReturnerTypes
      <3> QED
        BY <1>1, <1>2, <2>1, <2>2, <3>1, <3>2 DEF AskedInv, Asked
    <2> QED
      BY <2>1, <2>3, <2>4, <2>5
  <1>6. ASSUME NEW r \in Returner, FindByEpoch(r) \/ Submit(r) \/ Signal(r)
        PROVE  AskedInv'
    <2>1. wire' = wire
      BY <1>6 DEF FindByEpoch, Submit, Signal, sandboxVars
    <2>2. ASSUME NEW s \in Returner, rpc'[s] \in {"find", "submit"}
          PROVE  rpc[s] \in {"find", "submit"} /\ msg'[s] = msg[s]
      <3>1. CASE FindByEpoch(r)
        BY <2>2, <3>1 DEF FindByEpoch, TypeInv, TypeOK, ReturnerTypes
      <3>2. CASE Submit(r)
        BY <2>2, <3>2 DEF Submit, TypeInv, TypeOK, ReturnerTypes
      <3>3. CASE Signal(r)
        BY <2>2, <3>3 DEF Signal, TypeInv, TypeOK, ReturnerTypes
      <3> QED
        BY <1>6, <3>1, <3>2, <3>3
    <2> QED
      BY <1>3, <2>1, <2>2
  <1>7. CASE SandboxReply
    <2>1. UNCHANGED <<rpc, msg>>
      BY <1>7 DEF SandboxReply, returnVars
    <2>2. \A w \in wire' : w \in wire \/ \E m \in wire : w.epoch = m.epoch
      BY <1>7 DEF SandboxReply
    <2> QED
      BY <1>1, <1>2, <2>1, <2>2 DEF AskedInv, Asked
  <1>8. ASSUME NEW c \in Caller, CallerStep(c), ~SendCall(c) PROVE AskedInv'
    BY <1>3, <1>8 DEF CallerStep, CreateRec, PushRec, WaitForReturn, Resume, Leave,
                      returnVars, sandboxVars
  <1>9. ASSUME NEW c \in Caller PROVE ~SpuriousWakeup(c)
    BY DEF Benign, SpuriousWakeup
  <1>10. CASE UNCHANGED vars
    BY <1>3, <1>10 DEF vars, returnVars, sandboxVars
  <1>11. ~SandboxDeath
    BY DEF Benign, SandboxDeath
  <1>12. CASE ReuseMemory
    BY <1>3, <1>12, Reuses
  <1> QED
    BY <1>4, <1>5, <1>6, <1>7, <1>8, <1>9, <1>10, <1>11, <1>12
       DEF Next, Quiet, ReturnerStep

-------------------------------------------------------------------------------
(* No waiting call is forgotten.                                             *)

\* Steps that leave queue, records and the returners that hold one alone.
LEMMA PendKept ==
    ASSUME TypeInv, IInv, PendInv,
           UNCHANGED <<queue, nodeRec>>, live' \subseteq live,
           \A a \in live' : mem'[a] = mem[a],
           \A c \in Caller : pc'[c] = "push" <=> pc[c] = "push",
           \A r \in Returner : rpc[r] = "submit" =>
               rpc'[r] = "submit" /\ it'[r] = it[r]
    PROVE  PendInv'
  <1>1. \A a \in live' : BeingMade(a)' <=> BeingMade(a)
    BY DEF BeingMade, Owner, IInv, OwnerInv
  <1> QED
    BY <1>1 DEF PendInv, Queued, TakenBy

LEMMA PendStep ==
    ASSUME Benign, TypeInv, IInv, PendInv, [Next]_vars
    PROVE  PendInv'
  <1> USE CallReturnAssumption
  <1>1. ASSUME NEW c \in Caller, CreateRec(c) PROVE PendInv'
    <2>1. PICK b \in Rec \ live, n \in Requested :
            /\ live' = live \cup {b}
            /\ mem' = [mem EXCEPT ![b] =
                         [epoch |-> currentEpoch, errorCode |-> 0,
                          completed |-> FALSE, block |-> c, size |-> n,
                          provided |-> @.provided]]
      BY <1>1 DEF CreateRec
    <2>2. /\ pc[c] = "create" /\ pc' = [pc EXCEPT ![c] = "push"]
          /\ UNCHANGED <<queue, nodeRec, rpc, it>>
      BY <1>1 DEF CreateRec, returnVars
    <2>3. BeingMade(b)'
      BY <2>1, <2>2 DEF BeingMade, Owner, TypeInv, TypeOK, CallerTypes, HeapTypes
    <2>4. \A a \in live : mem'[a] = mem[a]
      BY <2>1 DEF TypeInv, TypeOK, HeapTypes
    <2>5. \A a \in live : BeingMade(a) => BeingMade(a)'
      BY <2>2, <2>4 DEF BeingMade, Owner, TypeInv, TypeOK, CallerTypes, IInv, OwnerInv
    <2> QED
      BY <2>1, <2>2, <2>3, <2>4, <2>5 DEF PendInv, Queued, TakenBy
  <1>2. ASSUME NEW c \in Caller, PushRec(c) PROVE PendInv'
    <2>1. PICK n \in FreeNodes :
            /\ nodeRec' = [nodeRec EXCEPT ![n] = rec[c]]
            /\ queue' = Append(queue, n)
      BY <1>2 DEF PushRec
    <2>2. /\ pc[c] = "push" /\ pc' = [pc EXCEPT ![c] = "send"]
          /\ UNCHANGED <<live, mem, rec, rpc, it>>
      BY <1>2 DEF PushRec, recVars, returnVars
    <2>3. /\ n \in Node /\ n \notin ToSet(queue)
          /\ \A r \in Returner : rpc[r] = "submit" => it[r] # n
      BY DEF FreeNodes, Benign
    <2>4. /\ queue \in Seq(Node) /\ DOMAIN queue = 1..Len(queue) /\ Len(queue) \in Nat
          /\ DOMAIN queue' = 1..(Len(queue) + 1)
          /\ queue'[Len(queue) + 1] = n
          /\ \A i \in DOMAIN queue : queue'[i] = queue[i] /\ queue[i] # n
      BY <2>1, <2>3, AppendProperties, LenProperties
         DEF TypeInv, TypeOK, HeapTypes, ToSet
    <2>5. Queued(rec[c])'
      BY <2>1, <2>2, <2>3, <2>4 DEF Queued, TypeInv, TypeOK, HeapTypes
    <2>6. \A a \in live : Queued(a) => Queued(a)'
      BY <2>1, <2>3, <2>4 DEF Queued, TypeInv, TypeOK, HeapTypes
    <2>7. \A a \in live, r \in Returner : TakenBy(a, r) => TakenBy(a, r)'
      BY <2>1, <2>2, <2>3 DEF TakenBy, TypeInv, TypeOK, HeapTypes
    <2>8. \A a \in live \ {rec[c]} : BeingMade(a) => BeingMade(a)'
      BY <2>2 DEF BeingMade, Owner, IInv, OwnerInv, TypeInv, TypeOK, CallerTypes
    <2> QED
      BY <2>2, <2>5, <2>6, <2>7, <2>8 DEF PendInv
  <1>3. ASSUME NEW c \in Caller, SendCall(c) \/ WaitForReturn(c) \/ Resume(c)
        PROVE  PendInv'
    <2>1. UNCHANGED <<queue, nodeRec, live, mem, rpc, it>>
      BY <1>3 DEF SendCall, WaitForReturn, Resume, handlerVars, recVars, returnVars
    <2>2. \A d \in Caller : pc'[d] = "push" <=> pc[d] = "push"
      BY <1>3 DEF SendCall, WaitForReturn, Resume, Awaiting, AfterFailedSend,
                  TypeInv, TypeOK, CallerTypes
    <2> QED
      BY <2>1, <2>2, PendKept
  <1>4. ASSUME NEW c \in Caller, Leave(c) PROVE PendInv'
    <2>1. /\ UNCHANGED <<queue, nodeRec, rpc, it>>
          /\ live' = live \ {rec[c]} /\ pc[c] = "leave"
          /\ pc' = [pc EXCEPT ![c] = AfterCall(c)]
          /\ AfterCall(c) \in {"end", "create"}
      BY <1>4 DEF Leave, AfterCall, handlerVars, returnVars
    <2>2. mem' = mem
      BY <1>4 DEF Leave
    <2>3. \A d \in Caller : pc'[d] = "push" <=> pc[d] = "push"
      BY <2>1 DEF TypeInv, TypeOK, CallerTypes
    <2> QED
      BY <2>1, <2>2, <2>3, PendKept
  <1>5. ASSUME NEW r \in Returner, Receive(r) \/ Signal(r) PROVE PendInv'
    <2>1. UNCHANGED <<queue, nodeRec, live, mem, it>>
      BY <1>5 DEF Receive, Signal, handlerVars, recVars
    <2>2. \A d \in Caller : pc'[d] = "push" <=> pc[d] = "push"
      BY <1>5 DEF Receive, Signal, Woken, callerVars, TypeInv, TypeOK, CallerTypes
    <2>3. \A s \in Returner : rpc[s] = "submit" => rpc'[s] = "submit"
      BY <1>5 DEF Receive, Signal, TypeInv, TypeOK, ReturnerTypes
    <2> QED
      BY <2>1, <2>2, <2>3, PendKept
  <1>6. ASSUME NEW r \in Returner, FindByEpoch(r) PROVE PendInv'
    <2>1. /\ UNCHANGED <<pc, nodeRec, live, mem>>
          /\ rpc[r] = "find"
      BY <1>6 DEF FindByEpoch, callerVars, recVars
    <2>2. CASE UNCHANGED <<queue, it>>
      <3>1. \A s \in Returner : rpc[s] = "submit" => rpc'[s] = "submit"
        BY <1>6, <2>1 DEF FindByEpoch, TypeInv, TypeOK, ReturnerTypes
      <3> QED
        BY <2>1, <2>2, <3>1, PendKept
    <2>3. ASSUME NEW i \in Matching(msg[r].epoch),
                 it' = [it EXCEPT ![r] = queue[i]], queue' = Erase(i),
                 rpc' = [rpc EXCEPT ![r] = "submit"]
          PROVE  PendInv'
      <3> DEFINE new(j) == IF j < i THEN j ELSE j - 1
      <3>1. /\ queue \in Seq(Node) /\ DOMAIN queue = 1..Len(queue)
            /\ Len(queue) \in Nat /\ i \in 1..Len(queue)
        BY LenProperties DEF Matching, TypeInv, TypeOK, HeapTypes
      <3>2. /\ DOMAIN queue' = 1..(Len(queue) - 1)
            /\ \A j \in 1..(Len(queue) - 1) :
                 queue'[j] = IF j < i THEN queue[j] ELSE queue[j + 1]
        <4>1. /\ queue' \in Seq(Node) /\ Len(queue') = Len(queue) - 1
              /\ \A j \in 1..(Len(queue) - 1) :
                   queue'[j] = IF j < i THEN queue[j] ELSE queue[j + 1]
          BY <2>3, <3>1, RemoveAtType DEF Erase
        <4> QED
          BY <4>1, LenProperties
      <3>3. \A j \in DOMAIN queue \ {i} : new(j) \in DOMAIN queue'
                                          /\ queue'[new(j)] = queue[j]
        BY <3>1, <3>2
      <3> HIDE DEF new
      <3> PICK b : b = nodeRec[queue[i]]
        OBVIOUS
      <3>4. TakenBy(b, r)'
        BY <2>1, <2>3 DEF TakenBy, TypeInv, TypeOK, ReturnerTypes
      <3>5. \A a \in live : Queued(a) => Queued(a)' \/ TakenBy(a, r)'
        BY <2>1, <3>1, <3>3, <3>4 DEF Queued
      <3>6. \A a \in live, s \in Returner : TakenBy(a, s) => TakenBy(a, s)'
        BY <2>1, <2>3 DEF TakenBy, TypeInv, TypeOK, ReturnerTypes
      <3>7. \A a \in live : BeingMade(a)' <=> BeingMade(a)
        BY <2>1 DEF BeingMade, Owner
      <3> QED
        BY <2>1, <3>5, <3>6, <3>7 DEF PendInv
    <2> QED
      BY <1>6, <2>2, <2>3 DEF FindByEpoch
  <1>7. ASSUME NEW r \in Returner, Submit(r) PROVE PendInv'
    <2> DEFINE b == nodeRec[it[r]]
    <2>1. /\ UNCHANGED <<pc, queue, nodeRec, live>>
          /\ b \in live /\ b \in Rec
          /\ \A s \in Returner \ {r} : rpc'[s] = rpc[s] /\ it'[s] = it[s]
          /\ CompleteWithReturn(b, msg[r]) \/ CompleteWithError(b)
      BY <1>7 DEF Submit, handlerVars, IInv, SubmitInv, Open, TypeInv, TypeOK,
                  HeapTypes, ReturnerTypes
    <2> HIDE DEF b
    <2>2. /\ mem'[b].completed
          /\ \A a \in live \ {b} : mem'[a] = mem[a]
      <3>1. CASE CompleteWithReturn(b, msg[r])
        BY <2>1, <3>1 DEF CompleteWithReturn, Record, TypeInv, TypeOK, HeapTypes
      <3>2. CASE CompleteWithError(b)
        BY <2>1, <3>2 DEF CompleteWithError, Record, TypeInv, TypeOK, HeapTypes
      <3> QED
        BY <2>1, <3>1, <3>2
    <2>3. \A a \in live \ {b}, s \in Returner : TakenBy(a, s) => TakenBy(a, s)'
      BY <2>1 DEF TakenBy, b
    <2>4. \A a \in live \ {b} : (BeingMade(a)' <=> BeingMade(a))
                                /\ (Queued(a)' <=> Queued(a))
      BY <2>1, <2>2 DEF BeingMade, Owner, Queued
    <2> QED
      BY <2>1, <2>2, <2>3, <2>4 DEF PendInv
  <1>8. CASE SandboxReply \/ UNCHANGED vars
    BY <1>8, PendKept DEF SandboxReply, vars, callerVars, handlerVars, recVars,
                          returnVars
  <1>9. ASSUME NEW c \in Caller PROVE ~SpuriousWakeup(c)
    BY DEF Benign, SpuriousWakeup
  <1>10. ~SandboxDeath
    BY DEF Benign, SandboxDeath
  <1>11. CASE ReuseMemory
    BY <1>11, Reuses, PendKept
  <1> QED
    BY <1>1, <1>2, <1>3, <1>4, <1>5, <1>6, <1>7, <1>8, <1>9, <1>10, <1>11
       DEF Next, Quiet, CallerStep, ReturnerStep

-------------------------------------------------------------------------------
(* A waiting call is answered by one returner.                               *)

LEMMA OnceIsInvariant == Benign => (Spec => []OnceInv)
  <1> SUFFICES ASSUME Benign PROVE Spec => []OnceInv
    OBVIOUS
  <1>1. Init => OnceInv
    <2>1. Init => AskedInv /\ PendInv
      BY DEF Init, AskedInv, PendInv
    <2> QED
      BY <2>1, InitType, InitInv DEF OnceInv
  <1>2. OnceInv /\ [Next]_vars => OnceInv'
    BY NextType, NextInv, AskedStep, PendStep DEF OnceInv
  <1> QED
    BY <1>1, <1>2, PTL DEF Spec

\* How often a call that has been queued is still held, as a number.
LEMMA PendingCount ==
    ASSUME OnceInv, NEW a \in live, ~BeingMade(a)
    PROVE  Pending(a) = IF mem[a].completed THEN 0 ELSE 1
  <1> DEFINE Q == { i \in DOMAIN queue : nodeRec[queue[i]] = a }
             T == { r \in Returner : rpc[r] = "submit" /\ nodeRec[it[r]] = a }
  <1>1. Pending(a) = Cardinality(Q) + Cardinality(T)
    BY DEF Pending
  <1>2. /\ \A i \in Q : ~mem[a].completed /\ Q = {i} /\ T = {}
        /\ \A r \in T : ~mem[a].completed /\ T = {r} /\ Q = {}
    <2>1. ASSUME NEW i \in Q PROVE ~mem[a].completed /\ Q = {i} /\ T = {}
      <3>1. ~mem[a].completed /\ \A j \in Q : j = i
        BY DEF OnceInv, IInv, QueueInv, Open
      <3>2. \A r \in Returner : ~(rpc[r] = "submit" /\ nodeRec[it[r]] = a)
        BY DEF OnceInv, IInv, SubmitInv, Queued
      <3> QED
        BY <3>1, <3>2
    <2>2. ASSUME NEW r \in T PROVE ~mem[a].completed /\ T = {r} /\ Q = {}
      <3>1. ~mem[a].completed /\ \A s \in T : s = r
        BY DEF OnceInv, IInv, SubmitInv, Open, TakenBy
      <3>2. \A i \in DOMAIN queue : nodeRec[queue[i]] # a
        BY DEF OnceInv, IInv, SubmitInv, Queued
      <3> QED
        BY <3>1, <3>2
    <2> QED
      BY <2>1, <2>2
  <1>3. ~mem[a].completed => Q # {} \/ T # {}
    BY DEF OnceInv, PendInv, Queued, TakenBy
  <1>4. Cardinality({}) = 0
    BY FS_EmptySet
  <1> HIDE DEF Q, T
  <1>5. CASE mem[a].completed
    BY <1>1, <1>2, <1>4, <1>5
  <1>6. ASSUME NEW i \in Q PROVE Pending(a) = 1 /\ ~mem[a].completed
    <2>1. Cardinality({i}) = 1
      BY FS_Singleton
    <2> QED
      BY <1>1, <1>2, <1>4, <1>6, <2>1
  <1>7. ASSUME NEW r \in T PROVE Pending(a) = 1 /\ ~mem[a].completed
    <2>1. Cardinality({r}) = 1
      BY FS_Singleton
    <2> QED
      BY <1>1, <1>2, <1>4, <1>7, <2>1
  <1> QED
    BY <1>3, <1>5, <1>6, <1>7

\* A waiting call is in the queue or in the hands of one returner, never both and
\* never neither, until it is completed (call_return.cc:90-103, 121-160).
THEOREM AnsweredByOne == Benign => (Spec => []PendingOnce)
  <1>1. OnceInv => PendingOnce
    BY PendingCount DEF OnceInv, PendingOnce, BeingMade, Owner, IInv, OwnerInv, InCall
  <1> QED
    BY <1>1, OnceIsInvariant, PTL
===============================================================================
