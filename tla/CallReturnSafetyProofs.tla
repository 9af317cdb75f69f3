------------------------ MODULE CallReturnSafetyProofs ------------------------
(***************************************************************************)
(* Proofs of what the callers are promised: the safety properties of a call  *)
(* and the refinement of PlacementCalls.  They hold in either environment    *)
(* for which an invariant is known: where the sandbox answers anyhow and     *)
(* any number of times but every send succeeds (Benign), and where sends     *)
(* fail and the sandbox dies but answers no call twice (Lossy).  CallInv is  *)
(* what the two invariants have in common.                                   *)
(***************************************************************************)
EXTENDS CallReturnOnceProofs, CallReturnLossProofs

\* What a returner is about to complete is a call that is under way and has
\* neither been completed nor failed, and is the call its reply is for.
AnswerInv ==
    \A r \in Returner : rpc[r] = "submit" =>
        LET a == nodeRec[it[r]] IN
        /\ Open(a)
        /\ mem[a].epoch = msg[r].epoch
        /\ rv[Owner(a)] = 0
        /\ msg[r].op = "OP_RETURN" => pc[Owner(a)] \in {"wait", "blocked"}

\* A failed call is on its way out, nobody else leaves before his call is
\* completed, and no call fails that is.
OutcomeInv ==
    \A c \in Caller :
        /\ InCall(c) /\ rv[c] # 0 => pc[c] = "leave"
        /\ pc[c] = "leave" /\ rv[c] = 0 => mem[rec[c]].completed
        /\ pc[c] = "send" /\ mem[rec[c]].completed =>
             up /\ "sendFailure" \notin Faults

CallInv ==
    /\ MutexInv /\ OwnerInv /\ EpochInv /\ LockInv /\ WordsInv
    /\ AnswerInv /\ OutcomeInv /\ ~corrupt

-------------------------------------------------------------------------------
(* Both environments give CallInv.                                           *)

\* While every send succeeds no call fails.
LEMMA NoFailureStep ==
    ASSUME Benign, TypeInv, IInv, NoFailure, [Next]_vars
    PROVE  NoFailure'
  <1>1. ASSUME NEW c \in Caller, CallerStep(c) \/ SpuriousWakeup(c)
        PROVE  NoFailure'
    <2>1. up /\ "sendFailure" \notin Faults
      BY DEF IInv, CalmInv, Benign
    <2> QED
      BY <1>1, <2>1
         DEF CallerStep, SpuriousWakeup, CreateRec, PushRec, SendCall,
             WaitForReturn, Resume, Leave, NoFailure, TypeInv, TypeOK,
             CallerTypes
  <1>2. ASSUME NEW r \in Returner, ReturnerStep(r)
        PROVE  NoFailure'
    BY <1>2 DEF ReturnerStep, Receive, FindByEpoch, Submit, Signal, NoFailure,
                callerVars
  <1>3. CASE ReuseMemory \/ SandboxReply \/ SandboxDeath \/ UNCHANGED vars
    BY <1>3 DEF ReuseMemory, SandboxReply, SandboxDeath, vars, callerVars,
                NoFailure
  <1> QED
    BY <1>1, <1>2, <1>3 DEF Next, Quiet

\* Sends succeed: no call is completed by a reply before it is sent, or after
\* it was completed.
LEMMA BenignGivesCallInv ==
    ASSUME Benign, OnceInv, NoFailure
    PROVE  CallInv
  <1>1. AnswerInv
    <2>1. ASSUME NEW r \in Returner, rpc[r] = "submit",
                 NEW a \in live, a = nodeRec[it[r]]
          PROVE  /\ Open(a) /\ mem[a].epoch = msg[r].epoch
                 /\ rv[Owner(a)] = 0
                 /\ msg[r].op = "OP_RETURN" => pc[Owner(a)] \in {"wait", "blocked"}
      <3> PICK c \in Caller : c = Owner(a)
        BY DEF OnceInv, IInv, OwnerInv
      <3>1. /\ Open(a) /\ ~BeingMade(a) /\ mem[a].epoch = msg[r].epoch
            /\ InCall(c) /\ rec[c] = a
        BY <2>1 DEF OnceInv, IInv, SubmitInv, OwnerInv
      <3>2. pc[c] \notin {"create", "end", "push", "woken", "leave"}
        BY <3>1 DEF OnceInv, IInv, WaitInv, Open, InCall, BeingMade
      <3>3. msg[r].op = "OP_RETURN" => pc[c] # "send"
        BY <2>1, <3>1 DEF OnceInv, AskedInv, Asked
      <3> QED
        BY <3>1, <3>2, <3>3 DEF NoFailure, OnceInv, TypeInv, TypeOK, CallerTypes
    <2> QED
      BY <2>1 DEF AnswerInv, OnceInv, IInv, SubmitInv, Open
  <1>2. OutcomeInv
    BY DEF OutcomeInv, NoFailure, Benign, OnceInv, IInv, WaitInv, CalmInv
  <1> QED
    BY <1>1, <1>2 DEF CallInv, OnceInv, IInv, CalmInv

\* Sends fail: each call is answered once, while its caller waits.
LEMMA LossyGivesCallInv ==
    ASSUME TypeInv, LossInv
    PROVE  CallInv
  <1>1. AnswerInv
    <2>1. ASSUME NEW r \in Returner, rpc[r] = "submit",
                 NEW a \in live, a = nodeRec[it[r]]
          PROVE  /\ Open(a) /\ mem[a].epoch = msg[r].epoch
                 /\ rv[Owner(a)] = 0 /\ pc[Owner(a)] \in {"wait", "blocked"}
      <3>1. PICK c \in Caller :
              Expects(c, msg[r].epoch) /\ InCall(c) /\ a = rec[c] /\ Owner(a) = c
        BY <2>1, FoundRecord
      <3>2. rv[c] = 0
        BY <3>1 DEF Expects, LossInv, LeavingInv
      <3> QED
        BY <3>1, <3>2 DEF Expects, Open
    <2> QED
      BY <2>1 DEF AnswerInv, LossInv, FoundInv
  <1>2. OutcomeInv
    BY DEF OutcomeInv, LossInv, LeavingInv, InCall
  <1> QED
    BY <1>1, <1>2 DEF CallInv, LossInv, CoreInv

\* In either environment every call keeps to CallInv.
LEMMA CallInvHolds == Benign \/ Lossy => (Spec => [](TypeInv /\ CallInv))
  <1>1. ASSUME Benign PROVE Spec => [](TypeInv /\ CallInv)
    <2>1. Init => NoFailure
      BY DEF Init, NoFailure
    <2>2. OnceInv /\ NoFailure /\ [Next]_vars => NoFailure'
      BY <1>1, NoFailureStep DEF OnceInv
    <2>3. OnceInv /\ NoFailure => TypeInv /\ CallInv
      BY <1>1, BenignGivesCallInv DEF OnceInv
    <2>4. Spec => []OnceInv
      BY <1>1, OnceIsInvariant
    <2> QED
      BY <2>1, <2>2, <2>3, <2>4, PTL DEF Spec
  <1>2. ASSUME Lossy PROVE Spec => [](TypeInv /\ CallInv)
    <2>1. TypeInv /\ LossInv => TypeInv /\ CallInv
      BY LossyGivesCallInv
    <2>2. Spec => [](TypeInv /\ LossInv)
      BY <1>2, LossHolds
    <2> QED
      BY <2>1, <2>2, PTL
  <1> QED
    BY <1>1, <1>2

-------------------------------------------------------------------------------
(* Safety.                                                                   *)

\* calculateOsds never returns 0 with the reply to another call, or none, for
\* any number of calling and receiving threads (call_return.cc:31-66).
THEOREM RepliesAreOwn == Benign \/ Lossy => (Spec => []OwnReply)
  <1>1. CallInv => OwnReply
    BY DEF OwnReply, CallInv, OutcomeInv, WordsInv, InCall
  <1> QED
    BY <1>1, CallInvHolds, PTL

\* No returner locks, fills in or unlocks a record that was deleted, though
\* destroyRec leaves the record's node in the queue (call_return.cc:107-160).
THEOREM RecordsOutliveWrites == Benign \/ Lossy => (Spec => []NoWriteToDestroyed)
  <1>1. CallInv => NoWriteToDestroyed
    BY DEF NoWriteToDestroyed, CallInv, AnswerInv, Open, LockInv
  <1> QED
    BY <1>1, CallInvHolds, PTL

\* A step locks no completed record that outlives it.
LEMMA LockStep ==
    ASSUME TypeInv, CallInv, [Next]_vars,
           NEW a \in live \cap live', mem[a].completed, recLock[a] = None
    PROVE  recLock'[a] = None
  <1> USE CallReturnAssumption
  <1>0. a \in Rec /\ recLock \in [Rec -> Returner \cup {None}]
    BY DEF TypeInv, TypeOK, HeapTypes
  <1>1. ASSUME NEW c \in Caller, CallerStep(c) \/ SpuriousWakeup(c)
        PROVE  recLock'[a] = None
    BY <1>0, <1>1
       DEF CallerStep, SpuriousWakeup, CreateRec, PushRec, SendCall,
           WaitForReturn, Resume, Leave, recVars
  <1>2. ASSUME NEW r \in Returner, ReturnerStep(r)
        PROVE  recLock'[a] = None
    <2>1. CASE Submit(r)
      <3>1. nodeRec[it[r]] # a
        BY <2>1 DEF Submit, CallInv, AnswerInv, Open
      <3> QED
        BY <1>0, <2>1, <3>1 DEF Submit
    <2>2. CASE ~Submit(r)
      BY <1>0, <1>2, <2>2
         DEF ReturnerStep, Receive, FindByEpoch, Signal, recVars
    <2> QED
      BY <2>1, <2>2
  <1>3. CASE ReuseMemory \/ SandboxReply \/ SandboxDeath \/ UNCHANGED vars
    BY <1>3 DEF ReuseMemory, SandboxReply, SandboxDeath, vars, recVars
  <1> QED
    BY <1>1, <1>2, <1>3 DEF Next, Quiet

\* A call is completed by one reply only.
THEOREM CompletesOnce == Benign \/ Lossy => (Spec => CompletedOnce)
  <1>1. TypeInv /\ CallInv /\ [Next]_vars =>
          [\A a \in live \cap live' :
              mem[a].completed /\ recLock[a] = None => recLock'[a] = None]_vars
    BY LockStep
  <1> QED
    BY <1>1, CallInvHolds, PTL DEF Spec, CompletedOnce

\* A step that writes to an osd_list is a submit of a returner.
LEMMA WriteStep ==
    ASSUME TypeInv, CallInv, [Next]_vars, NEW c \in Caller, osdList'[c] # osdList[c]
    PROVE  /\ pc[c] \in {"wait", "blocked"}
           /\ \A d \in Caller \ {c} : osdList'[d] = osdList[d]
           /\ \A w \in 1..MaxOsds : osdList'[c][w] # osdList[c][w] => w <= want[c]
  <1> USE CallReturnAssumption
  <1>1. PICK r \in Returner : Submit(r)
    <2>1. ASSUME NEW d \in Caller, CallerStep(d) \/ SpuriousWakeup(d) PROVE FALSE
      BY <2>1 DEF CallerStep, SpuriousWakeup, CreateRec, PushRec, SendCall,
                  WaitForReturn, Resume, Leave
    <2>2. ASSUME NEW s \in Returner, Receive(s) \/ FindByEpoch(s) \/ Signal(s)
          PROVE  FALSE
      BY <2>2 DEF Receive, FindByEpoch, Signal, callerVars
    <2>3. CASE ReuseMemory \/ SandboxReply \/ SandboxDeath \/ UNCHANGED vars
      BY <2>3 DEF ReuseMemory, SandboxReply, SandboxDeath, vars, callerVars
    <2> QED
      BY <2>1, <2>2, <2>3 DEF Next, Quiet, ReturnerStep
  <1> DEFINE a == nodeRec[it[r]]
  <1>2. /\ rpc[r] = "submit" /\ a \in live
        /\ msg[r].op = "OP_RETURN" /\ CompleteWithReturn(a, msg[r])
        /\ pc[Owner(a)] \in {"wait", "blocked"}
    BY <1>1 DEF Submit, CallInv, AnswerInv, Open, CompleteWithError
  <1> HIDE DEF a
  <1>3. /\ mem[a].block \in Caller /\ InCall(mem[a].block) /\ rec[mem[a].block] = a
    BY <1>2 DEF CallInv, OwnerInv, Owner
  <1>4. osdList' = [osdList EXCEPT ![mem[a].block] =
                     [w \in 1..MaxOsds |->
                        IF w \in Copied(a, msg[r]) THEN msg[r].epoch ELSE @[w]]]
    BY <1>2 DEF CompleteWithReturn
  <1>5. mem[a].block = c /\ \A d \in Caller \ {c} : osdList'[d] = osdList[d]
    BY <1>3, <1>4 DEF TypeInv, TypeOK, CallerTypes
  <1>6. mem[a].size = want[c] /\ want[c] \in Nat /\ msg[r].len \in Nat
    BY <1>3, <1>5 DEF CallInv, OwnerInv, TypeInv, TypeOK, CallerTypes,
                      ReturnerTypes, Message
  <1>7. \A w \in 1..MaxOsds : osdList'[c][w] # osdList[c][w] => w <= want[c]
    BY <1>4, <1>5, <1>6 DEF Copied, Lesser, TypeInv, TypeOK, CallerTypes
  <1>8. pc[c] \in {"wait", "blocked"}
    BY <1>2, <1>5 DEF Owner
  <1> QED
    BY <1>5, <1>7, <1>8

\* A reply is written only to the list of the caller that asked and still waits, and
\* only as far as it asked for, however late or long it is (call_return.cc:48-66).
THEOREM WritesAreOwn == Benign \/ Lossy => (Spec => WritesWithinBlock)
  <1>1. TypeInv /\ CallInv /\ [Next]_vars =>
          [\A c \in Caller :
             osdList'[c] # osdList[c] =>
                 /\ pc[c] \in {"wait", "blocked"}
                 /\ \A d \in Caller \ {c} : osdList'[d] = osdList[d]
                 /\ \A w \in 1..MaxOsds :
                      osdList'[c][w] # osdList[c][w] => w <= want[c]]_vars
    BY WriteStep
  <1> QED
    BY <1>1, CallInvHolds, PTL DEF Spec, WritesWithinBlock

-------------------------------------------------------------------------------
(* CallReturn implements PlacementCalls.                                     *)

\* What a step that is none of a call's begin, answer and return leaves alone.
LEMMA MapKept ==
    ASSUME TypeInv, CallInv, UNCHANGED <<rec, want, rv, calls, osdList>>,
           \A c \in Caller : InCall(c) => mem'[rec[c]] = mem[rec[c]],
           \A c \in Caller : InCall(c)' <=> InCall(c),
           NextTicket' = NextTicket
    PROVE  UNCHANGED Calls!vars
  <1>1. CallState' = CallState
    BY DEF CallState
  <1>2. CallTicket' = CallTicket
    BY DEF CallTicket
  <1> QED
    BY <1>1, <1>2 DEF Calls!vars

\* The initial state is one of the abstract specification.
LEMMA MapInit == Init => Calls!Init
  <1> SUFFICES ASSUME Init PROVE Calls!Init
    OBVIOUS
  <1>1. /\ pc = [c \in Caller |-> "create"]
        /\ want = [c \in Caller |-> 0]
        /\ calls = [c \in Caller |-> 0]
        /\ osdList = [c \in Caller |-> [w \in 1..MaxOsds |-> 0]]
        /\ currentEpoch = FirstEpoch /\ mutex = None
    BY DEF Init
  <1>2. \A c \in Caller : ~InCall(c)
    BY <1>1 DEF InCall
  <1>3. CallState = [c \in Caller |-> "idle"]
    BY <1>2 DEF CallState
  <1>4. CallTicket = [c \in Caller |-> 0]
    BY <1>2 DEF CallTicket
  <1> QED
    BY <1>1, <1>3, <1>4 DEF Calls!Init, NextTicket

\* createRec, up to its second half, begins a call.
LEMMA MapCreateRec ==
    ASSUME TypeInv, CallInv, NEW c \in Caller, CreateRec(c)
    PROVE  Calls!Begin(c)
  <1> USE CallReturnAssumption
  <1>1. PICK b \in Rec \ live, n \in Requested :
          /\ rec' = [rec EXCEPT ![c] = b]
          /\ want' = [want EXCEPT ![c] = n]
          /\ mem' = [mem EXCEPT ![b] =
                       [epoch |-> currentEpoch, errorCode |-> 0,
                        completed |-> FALSE, block |-> c, size |-> n,
                        provided |-> @.provided]]
    BY DEF CreateRec
  <1>2. /\ pc[c] = "create" /\ mutex = None /\ mutex' = c
        /\ pc' = [pc EXCEPT ![c] = "push"]
        /\ rv' = [rv EXCEPT ![c] = 0]
        /\ UNCHANGED <<calls, osdList, currentEpoch>>
    BY DEF CreateRec, HandlerFree
  <1>3. /\ pc'[c] = "push" /\ rec'[c] = b /\ rv'[c] = 0
        /\ \A d \in Caller \ {c} :
             pc'[d] = pc[d] /\ rec'[d] = rec[d] /\ rv'[d] = rv[d]
    BY <1>1, <1>2 DEF TypeInv, TypeOK, CallerTypes
  <1>4. /\ mem'[b].epoch = currentEpoch /\ mem'[b].completed = FALSE
        /\ \A a \in live : mem'[a] = mem[a]
    BY <1>1 DEF TypeInv, TypeOK, HeapTypes
  <1>5. /\ ~InCall(c) /\ InCall(c)'
        /\ \A d \in Caller \ {c} : InCall(d)' <=> InCall(d)
        /\ \A d \in Caller : InCall(d) => rec[d] \in live
    BY <1>2, <1>3 DEF InCall, CallInv, OwnerInv
  <1>6. CallState' = [CallState EXCEPT ![c] = "asking"]
    <2>1. CallState'[c] = "asking"
      BY <1>3, <1>4, <1>5 DEF CallState
    <2>2. ASSUME NEW d \in Caller \ {c} PROVE CallState'[d] = CallState[d]
      <3>1. CASE InCall(d)
        BY <1>3, <1>4, <1>5, <3>1 DEF CallState
      <3>2. CASE ~InCall(d)
        BY <1>5, <3>2 DEF CallState
      <3> QED
        BY <3>1, <3>2
    <2>3. /\ CallState = [d \in Caller |-> CallState[d]]
          /\ CallState' = [d \in Caller |-> CallState'[d]]
      BY DEF CallState
    <2> QED
      BY <2>1, <2>2, <2>3
  <1>7. CallTicket' = [CallTicket EXCEPT ![c] = NextTicket]
    <2>1. CallTicket'[c] = NextTicket
      BY <1>2, <1>3, <1>4, <1>5 DEF CallTicket, NextTicket
    <2>2. ASSUME NEW d \in Caller \ {c} PROVE CallTicket'[d] = CallTicket[d]
      <3>1. CASE InCall(d)
        BY <1>3, <1>4, <1>5, <3>1 DEF CallTicket
      <3>2. CASE ~InCall(d)
        BY <1>5, <3>2 DEF CallTicket
      <3> QED
        BY <3>1, <3>2
    <2>3. /\ CallTicket = [d \in Caller |-> CallTicket[d]]
          /\ CallTicket' = [d \in Caller |-> CallTicket'[d]]
      BY DEF CallTicket
    <2> QED
      BY <2>1, <2>2, <2>3
  <1>8. NextTicket' = NextTicket + 1
    BY <1>2 DEF NextTicket, TypeInv, TypeOK, HeapTypes
  <1>9. CallState[c] = "idle" /\ calls[c] < CallCount
    BY <1>2, <1>5 DEF CallState, TypeInv, CallerHas
  <1> QED
    BY <1>1, <1>2, <1>6, <1>7, <1>8, <1>9 DEF Calls!Begin

\* CallReturnRec::submitReturn and submitError answer the call.
LEMMA MapSubmit ==
    ASSUME TypeInv, CallInv, NEW r \in Returner, Submit(r)
    PROVE  \E c \in Caller : Calls!Answer(c)
  <1> USE CallReturnAssumption
  <1>1. PICK b \in live :
          /\ b = nodeRec[it[r]] /\ ~mem[b].completed
          /\ mem[b].epoch = msg[r].epoch
    BY DEF Submit, CallInv, AnswerInv, Open
  <1>2. PICK c \in Caller :
          mem[b].block = c /\ InCall(c) /\ rec[c] = b /\ rv[c] = 0
    BY <1>1 DEF Submit, CallInv, OwnerInv, AnswerInv, Owner
  <1>3. /\ CompleteWithReturn(b, msg[r]) \/ CompleteWithError(b)
        /\ UNCHANGED <<pc, rec, want, rv, calls, currentEpoch, mutex>>
    BY <1>1 DEF Submit, handlerVars
  <1>4. /\ b \in Rec /\ mem \in [Rec -> Record] /\ live \subseteq Rec
        /\ msg[r].len \in Nat /\ mem[b].size \in 0..MaxOsds
        /\ osdList \in [Caller -> [1..MaxOsds -> Int]]
    BY DEF TypeInv, TypeOK, HeapTypes, CallerTypes, ReturnerTypes, Record,
           Message
  <1>5. /\ mem'[b].completed = TRUE /\ mem'[b].epoch = mem[b].epoch
        /\ \A a \in live \ {b} : mem'[a] = mem[a]
    <2>1. CASE CompleteWithReturn(b, msg[r])
      BY <1>4, <2>1 DEF CompleteWithReturn, Record
    <2>2. CASE CompleteWithError(b)
      BY <1>4, <2>2 DEF CompleteWithError, Record
    <2> QED
      BY <1>3, <2>1, <2>2
  <1>6. /\ \A d \in Caller : InCall(d)' <=> InCall(d)
        /\ \A d \in Caller \ {c} : InCall(d) => rec[d] \in live \ {b}
    BY <1>2, <1>3 DEF InCall, CallInv, OwnerInv, Owner
  <1>7. CallState' = [CallState EXCEPT ![c] = "answered"]
    BY <1>2, <1>3, <1>5, <1>6 DEF CallState
  <1>8. CallTicket' = CallTicket
    BY <1>2, <1>3, <1>5, <1>6 DEF CallTicket
  <1>9. /\ CallState[c] = "asking" /\ CallTicket[c] = msg[r].epoch
        /\ want[c] = mem[b].size
    BY <1>1, <1>2 DEF CallState, CallTicket, CallInv, OwnerInv
  <1>10. \E n \in 0..want[c] :
           osdList' = [osdList EXCEPT ![c] =
              [w \in 1..MaxOsds |-> IF w <= n THEN CallTicket[c] ELSE @[w]]]
    <2>1. CASE CompleteWithReturn(b, msg[r])
      <3> DEFINE n == Lesser(msg[r].len, mem[b].size)
      <3>1. n \in 0..want[c]
        BY <1>4, <1>9 DEF Lesser
      <3>2. \A w \in 1..MaxOsds : w \in Copied(b, msg[r]) <=> w <= n
        BY <1>4 DEF Copied, Lesser
      <3>3. osdList' = [osdList EXCEPT ![c] =
              [w \in 1..MaxOsds |-> IF w \in Copied(b, msg[r])
                                    THEN CallTicket[c] ELSE @[w]]]
        BY <1>2, <1>9, <2>1 DEF CompleteWithReturn
      <3> HIDE DEF n
      <3>4. [w \in 1..MaxOsds |-> IF w \in Copied(b, msg[r])
                                  THEN CallTicket[c] ELSE osdList[c][w]]
              = [w \in 1..MaxOsds |-> IF w <= n
                                      THEN CallTicket[c] ELSE osdList[c][w]]
        BY <3>2
      <3> QED
        BY <3>1, <3>3, <3>4
    <2>2. CASE CompleteWithError(b)
      <3>1. osdList[c] = [w \in 1..MaxOsds |-> IF w <= 0 THEN CallTicket[c]
                                               ELSE osdList[c][w]]
        BY <1>4
      <3>2. osdList' = [osdList EXCEPT ![c] =
              [w \in 1..MaxOsds |-> IF w <= 0 THEN CallTicket[c] ELSE @[w]]]
        BY <1>4, <2>2, <3>1 DEF CompleteWithError
      <3>3. 0 \in 0..want[c]
        BY <1>4, <1>9
      <3> QED
        BY <3>2, <3>3
    <2> QED
      BY <1>3, <2>1, <2>2
  <1>11. Calls!Answer(c)
    BY <1>3, <1>7, <1>8, <1>9, <1>10 DEF Calls!Answer, NextTicket
  <1> QED
    BY <1>11

\* A send that fails fails the call.
LEMMA MapFail ==
    ASSUME TypeInv, CallInv, NEW c \in Caller, SendCall(c), ~UNCHANGED rv
    PROVE  Calls!Fail(c)
  <1>1. /\ pc[c] = "send" /\ pc' = [pc EXCEPT ![c] = "leave"]
        /\ rv' = [rv EXCEPT ![c] = 1]
        /\ ~up \/ "sendFailure" \in Faults
        /\ UNCHANGED <<rec, want, calls, osdList, mem, mutex, currentEpoch>>
    BY DEF SendCall, AfterFailedSend, handlerVars, recVars
  <1>2. InCall(c) /\ rv[c] = 0 /\ ~mem[rec[c]].completed
    BY <1>1 DEF CallInv, OutcomeInv, InCall
  <1>3. /\ rv'[c] = 1
        /\ \A d \in Caller \ {c} : rv'[d] = rv[d]
        /\ \A d \in Caller : InCall(d)' <=> InCall(d)
    BY <1>1 DEF InCall, TypeInv, TypeOK, CallerTypes
  <1>4. CallState' = [CallState EXCEPT ![c] = "failed"]
    <2>1. CallState'[c] = "failed"
      BY <1>2, <1>3 DEF CallState
    <2>2. ASSUME NEW d \in Caller \ {c} PROVE CallState'[d] = CallState[d]
      BY <1>1, <1>3 DEF CallState
    <2>3. /\ CallState = [d \in Caller |-> CallState[d]]
          /\ CallState' = [d \in Caller |-> CallState'[d]]
      BY DEF CallState
    <2> QED
      BY <2>1, <2>2, <2>3
  <1>5. CallTicket' = CallTicket
    BY <1>1, <1>3 DEF CallTicket
  <1>6. CallState[c] = "asking"
    BY <1>2 DEF CallState
  <1> QED
    BY <1>1, <1>4, <1>5, <1>6 DEF Calls!Fail, NextTicket

\* The end of calculateOsds returns from the call.
LEMMA MapLeave ==
    ASSUME TypeInv, CallInv, NEW c \in Caller, Leave(c)
    PROVE  Calls!Return(c)
  <1> USE CallReturnAssumption
  <1>1. /\ pc[c] = "leave"
        /\ rec' = [rec EXCEPT ![c] = None]
        /\ want' = [want EXCEPT ![c] = 0]
        /\ calls' = [calls EXCEPT ![c] = @ + 1]
        /\ pc' = [pc EXCEPT ![c] = AfterCall(c)]
        /\ UNCHANGED <<rv, osdList, currentEpoch, mutex, mem>>
    BY DEF Leave, handlerVars
  <1>3. InCall(c) /\ (rv[c] = 0 => mem[rec[c]].completed)
    BY <1>1 DEF CallInv, OutcomeInv, InCall
  <1>4. /\ pc'[c] \in {"create", "end"}
        /\ \A d \in Caller \ {c} : pc'[d] = pc[d] /\ rec'[d] = rec[d]
    BY <1>1 DEF AfterCall, TypeInv, TypeOK, CallerTypes
  <1>5. /\ ~InCall(c)'
        /\ \A d \in Caller \ {c} : InCall(d)' <=> InCall(d)
    BY <1>4 DEF InCall
  <1>6. \A d \in Caller \ {c} : InCall(d) => mem'[rec[d]] = mem[rec[d]]
    BY <1>1
  <1>7. CallState' = [CallState EXCEPT ![c] = "idle"]
    <2>1. CallState'[c] = "idle"
      BY <1>5 DEF CallState
    <2>2. ASSUME NEW d \in Caller \ {c} PROVE CallState'[d] = CallState[d]
      <3>1. CASE InCall(d)
        BY <1>1, <1>4, <1>5, <1>6, <3>1 DEF CallState
      <3>2. CASE ~InCall(d)
        BY <1>5, <3>2 DEF CallState
      <3> QED
        BY <3>1, <3>2
    <2>3. /\ CallState = [d \in Caller |-> CallState[d]]
          /\ CallState' = [d \in Caller |-> CallState'[d]]
      BY DEF CallState
    <2> QED
      BY <2>1, <2>2, <2>3
  <1>8. CallTicket' = [CallTicket EXCEPT ![c] = 0]
    BY <1>4, <1>5, <1>6 DEF CallTicket
  <1>9. CallState[c] \in {"answered", "failed"}
    BY <1>3 DEF CallState
  <1> QED
    BY <1>1, <1>7, <1>8, <1>9 DEF Calls!Return, NextTicket

\* Every step is a step of the abstract specification or changes nothing in it.
LEMMA MapNext ==
    ASSUME Benign \/ Lossy, TypeInv, CallInv, [Next]_vars
    PROVE  [Calls!Next]_(Calls!vars)
  <1> USE CallReturnAssumption
  <1>1. ASSUME NEW c \in Caller, CallerStep(c) \/ SpuriousWakeup(c)
        PROVE  [Calls!Next]_(Calls!vars)
    <2>1. CASE CreateRec(c)
      BY <2>1, MapCreateRec DEF Calls!Next, Calls!CallStep
    <2>2. CASE Leave(c)
      BY <2>2, MapLeave DEF Calls!Next, Calls!CallStep
    <2>3. CASE PushRec(c)
      <3>1. mutex = c /\ mem[rec[c]].epoch = currentEpoch
        <4>1. pc[c] = "push"
          BY <2>3 DEF PushRec
        <4>2. rec[c] \in live /\ BeingMade(rec[c])
          BY <4>1 DEF CallInv, OwnerInv, InCall, BeingMade
        <4> QED
          BY <4>1, <4>2 DEF CallInv, MutexInv, EpochInv
      <3>2. NextTicket' = NextTicket
        BY <2>3, <3>1 DEF NextTicket, PushRec
      <3>3. \A d \in Caller : InCall(d)' <=> InCall(d)
        BY <2>3 DEF PushRec, InCall, TypeInv, TypeOK, CallerTypes
      <3> QED
        BY <2>3, <3>2, <3>3, MapKept DEF PushRec, recVars
    <2>4. CASE SendCall(c)
      <3>1. CASE UNCHANGED rv
        <4>1. \A d \in Caller : InCall(d)' <=> InCall(d)
          BY <2>4, <3>1 DEF SendCall, AfterFailedSend, InCall, TypeInv, TypeOK,
                            CallerTypes
        <4> QED
          BY <2>4, <3>1, <4>1, MapKept DEF SendCall, handlerVars, recVars, NextTicket
      <3>2. CASE ~UNCHANGED rv
        BY <2>4, <3>2, MapFail DEF Calls!Next, Calls!CallStep
      <3> QED
        BY <3>1, <3>2
    <2>5. CASE WaitForReturn(c) \/ Resume(c)
      <3>1. \A d \in Caller : InCall(d)' <=> InCall(d)
        BY <2>5 DEF WaitForReturn, Resume, Awaiting, InCall, TypeInv, TypeOK,
                    CallerTypes
      <3> QED
        BY <2>5, <3>1, MapKept
           DEF WaitForReturn, Resume, handlerVars, recVars, NextTicket
    <2>6. ~SpuriousWakeup(c)
      BY DEF SpuriousWakeup, Benign, Lossy
    <2> QED
      BY <1>1, <2>1, <2>2, <2>3, <2>4, <2>5, <2>6 DEF CallerStep
  <1>2. ASSUME NEW r \in Returner, ReturnerStep(r)
        PROVE  [Calls!Next]_(Calls!vars)
    <2>1. CASE Submit(r)
      BY <2>1, MapSubmit DEF Calls!Next, Calls!CallStep
    <2>2. CASE Receive(r) \/ FindByEpoch(r)
      <3>1. UNCHANGED <<pc, rec, want, rv, calls, osdList, mem, mutex,
                        currentEpoch>>
        BY <2>2 DEF Receive, FindByEpoch, callerVars, handlerVars, recVars
      <3> QED
        BY <3>1, MapKept DEF NextTicket, InCall
    <2>3. CASE Signal(r)
      <3>1. UNCHANGED <<rec, want, rv, calls, osdList, mem, mutex, currentEpoch>>
        BY <2>3 DEF Signal, handlerVars
      <3>2. \A d \in Caller : InCall(d)' <=> InCall(d)
        BY <2>3 DEF Signal, Woken, InCall
      <3> QED
        BY <3>1, <3>2, MapKept DEF NextTicket
    <2> QED
      BY <1>2, <2>1, <2>2, <2>3 DEF ReturnerStep
  <1>3. CASE SandboxReply \/ SandboxDeath \/ UNCHANGED vars
    <2>1. UNCHANGED <<pc, rec, want, rv, calls, osdList, mem, mutex,
                      currentEpoch>>
      BY <1>3 DEF SandboxReply, SandboxDeath, vars, callerVars, handlerVars,
                  recVars
    <2> QED
      BY <2>1, MapKept DEF NextTicket, InCall
  <1>4. CASE ReuseMemory
    <2>1. \A c \in Caller : InCall(c) => mem'[rec[c]] = mem[rec[c]]
      BY <1>4, Reuses DEF CallInv, OwnerInv
    <2> QED
      BY <1>4, <2>1, Reuses, MapKept DEF NextTicket, InCall
  <1> QED
    BY <1>1, <1>2, <1>3, <1>4 DEF Next, Quiet

\* The threads, the handler and the sandbox together do what PlacementCalls
\* promises the callers.
THEOREM Implementation == Benign \/ Lossy => (Spec => ImplementsCalls)
  <1> SUFFICES ASSUME Benign \/ Lossy PROVE Spec => ImplementsCalls
    OBVIOUS
  <1>1. TypeInv /\ CallInv /\ [Next]_vars => [Calls!Next]_(Calls!vars)
    BY MapNext
  <1> QED
    BY <1>1, MapInit, CallInvHolds, PTL DEF Spec, ImplementsCalls, Calls!Spec
===============================================================================
