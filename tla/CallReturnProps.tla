--------------------------- MODULE CallReturnProps ---------------------------
(***************************************************************************)
(* What CallReturn must guarantee, whatever order the threads run in.  The  *)
(* faults under which each property is checked are those of the runs that   *)
(* list it.                                                                 *)
(***************************************************************************)
EXTENDS CallReturn, FiniteSets

-------------------------------------------------------------------------------
(* Type invariant.                                                           *)

CallerTypes ==
    /\ pc \in [Caller -> {"create", "push", "send", "wait", "blocked", "woken",
                          "leave", "end"}]
    /\ rec \in [Caller -> Rec \cup {None}]
    /\ want \in [Caller -> 0..MaxOsds]
    /\ rv \in [Caller -> {0, 1}]
    /\ calls \in [Caller -> 0..CallCount]
    /\ osdList \in [Caller -> [1..MaxOsds -> Int]]

HeapTypes ==
    /\ currentEpoch \in Int
    /\ mutex \in Caller \cup {None}
    /\ queue \in Seq(Node)
    /\ nodeRec \in [Node -> Rec \cup {None}]
    /\ live \subseteq Rec
    /\ mem \in [Rec -> Record]
    /\ recLock \in [Rec -> Returner \cup {None}]

ReturnerTypes ==
    /\ rpc \in [Returner -> {"recv", "find", "submit", "signal"}]
    /\ msg \in [Returner -> Message]
    /\ it \in [Returner -> Node \cup {None}]
    /\ target \in [Returner -> Rec \cup {None}]

WireTypes ==
    /\ wire \subseteq Message
    /\ up \in BOOLEAN
    /\ corrupt \in BOOLEAN

\* Every variable stays in its type, whatever the faults: in particular a
\* thread never makes more than callCount calls, and every message a returner
\* holds is one that was on the socket.
TypeOK == CallerTypes /\ HeapTypes /\ ReturnerTypes /\ WireTypes

-------------------------------------------------------------------------------
(* Safety invariants.                                                        *)

\* The words of c's osd_list that the reply was to fill are from the reply to
\* the call c is in.
WordsAreOwn(c) ==
    \A w \in 1..Lesser(mem[rec[c]].provided, mem[rec[c]].size) :
        osdList[c][w] = mem[rec[c]].epoch

\* When calculateOsds is about to return 0 with no error code, its call has
\* been completed, and what the reply filled in of osd_list comes from the
\* reply to that very call, never from that of another thread or of an earlier
\* call.
OwnReply ==
    \A c \in Caller :
        pc[c] = "leave" /\ rv[c] = 0 =>
            /\ mem[rec[c]].completed
            /\ mem[rec[c]].errorCode = 0 => WordsAreOwn(c)

\* The record a returner is about to lock, or has locked and is to signal and
\* unlock, has not been deleted under it by the caller it belongs to: delete
\* happens in another thread as soon as the caller sees the call completed.
\* (That findByEpoch reads no deleted record is QueueHoldsLiveRecords, which a
\* failed send breaks.)
NoWriteToDestroyed ==
    /\ ~corrupt
    /\ \A r \in Returner :
         /\ rpc[r] = "submit" => nodeRec[it[r]] \in live
         /\ rpc[r] = "signal" => target[r] \in live

\* findByEpoch dereferences every pointer in `queue': none of them is to a
\* destroyed record.  destroyRec does not look at the queue, so this depends
\* on a call never being completed while its record is still in it.
QueueHoldsLiveRecords ==
    \A i \in DOMAIN queue : nodeRec[queue[i]] \in live

\* No caller sleeps on a call that has completed unless the returner that
\* completed it is still to signal: callCompleted is set, and tested before
\* the wait, under the record's mutex.
NoLostWakeup ==
    \A c \in Caller :
        pc[c] = "blocked" /\ mem[rec[c]].completed =>
            \E r \in Returner : rpc[r] = "signal" /\ target[r] = rec[c]

\* Two records that are alive have different epochs, so a reply can be for one
\* call only; and none has an epoch that is still to be given out.
EpochsDistinct ==
    /\ \A a, b \in live : mem[a].epoch = mem[b].epoch => a = b
    /\ \A a \in live : mem[a].epoch >= currentEpoch => mutex = mem[a].block

\* How often the address a is held by the queue, and by returners that are to
\* complete the call.
Pending(a) ==
    Cardinality({ i \in DOMAIN queue : nodeRec[queue[i]] = a })
    + Cardinality({ r \in Returner : rpc[r] = "submit" /\ nodeRec[it[r]] = a })

\* A call that waits and has not completed can still be: its record is in the
\* queue, or taken out of it by exactly one returner that has the reply.  Two
\* would complete it twice, none would leave its caller waiting.
PendingOnce ==
    \A c \in Caller :
        pc[c] \in {"send", "wait", "blocked"} /\ rec[c] \in live =>
            Pending(rec[c]) = IF mem[rec[c]].completed THEN 0 ELSE 1

-------------------------------------------------------------------------------
(* Action properties.                                                        *)

\* A call is completed once: no returner locks a record that another has
\* filled in and unlocked, even if the sandbox answers a call twice; the second
\* reply finds no record.
CompletedOnce ==
    [][\A a \in live \cap live' :
           mem[a].completed /\ recLock[a] = None => recLock'[a] = None]_vars

\* One step writes at most the osd_list of one thread, only while that thread
\* is inside calculateOsds and still to return, and only the words it asked
\* for: a longer reply is truncated and a late one touches nobody.
WritesWithinBlock ==
    [][\A c \in Caller :
           osdList'[c] # osdList[c] =>
               /\ pc[c] \in {"wait", "blocked"}
               /\ \A d \in Caller \ {c} : osdList'[d] = osdList[d]
               /\ \A w \in 1..MaxOsds :
                    osdList'[c][w] # osdList[c][w] => w <= want[c]]_vars

-------------------------------------------------------------------------------
(* Liveness.                                                                 *)

\* Every thread gets through all of its calls: no reply is lost between the
\* sandbox, the queue and the condition variable.
AllCallsReturn == \A c \in Caller : <>(pc[c] = "end")

\* A call made when the sandbox is already gone returns all the same: its send
\* fails, and it does not go on to wait for a reply.  (Once memory is corrupt
\* the program has no meaning, and the model stops.)
CallsAfterDeathReturn ==
    \A c \in Caller : (~up /\ pc[c] = "send") ~> (~InCall(c) \/ corrupt)

-------------------------------------------------------------------------------
(* Refinement of PlacementCalls.  The ticket is the epoch; a ticket is taken *)
(* when createRec loads currentEpoch, though it is stored only by PushRec.   *)
(* A call is answered from the moment its record is completed.               *)

CallState ==
    [c \in Caller |->
       IF ~InCall(c) THEN "idle"
       ELSE IF rv[c] # 0 THEN "failed"
       ELSE IF mem[rec[c]].completed THEN "answered" ELSE "asking"]

CallTicket == [c \in Caller |-> IF InCall(c) THEN mem[rec[c]].epoch ELSE 0]

NextTicket == IF mutex = None THEN currentEpoch ELSE currentEpoch + 1

Calls == INSTANCE PlacementCalls WITH
    FirstTicket <- FirstEpoch, state <- CallState, ticket <- CallTicket,
    asked <- want, next <- NextTicket, done <- calls, osdList <- osdList

\* Every behaviour of the threads and the sandbox is one of PlacementCalls.
ImplementsCalls == Calls!Spec

\* With the threads scheduled fairly, the calls make progress as promised.
ImplementsFairCalls == Calls!FairSpec
===============================================================================
