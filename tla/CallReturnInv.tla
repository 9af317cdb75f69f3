---------------------------- MODULE CallReturnInv ----------------------------
(***************************************************************************)
(* The inductive invariants behind the safety properties of CallReturn.     *)
(* CoreInv is inductive whatever the environment does.  IInv is inductive   *)
(* when the environment stays within Benign: list nodes are not reused      *)
(* under an iterator, waits end only by a signal and sends succeed, but the *)
(* sandbox may answer calls with an error, with the wrong op, with any      *)
(* number of words, any number of times, or not at all.  LossInv is         *)
(* inductive within Lossy: sends fail and the sandbox dies, but no call is  *)
(* answered twice, and what is found in freed memory is below every epoch.  *)
(***************************************************************************)
EXTENDS CallReturnProps

\* The type invariant, and what it takes to be inductive: a caller in a call
\* has a record and a call to go, a returner has what it works on.
CallerHas ==
    \A c \in Caller : /\ InCall(c) => rec[c] \in Rec
                      /\ pc[c] # "end" => calls[c] < CallCount

ReturnerHas ==
    \A r \in Returner : /\ rpc[r] = "submit" /\ ~corrupt => it[r] \in Node
                        /\ rpc[r] = "signal" => target[r] \in Rec

TypeInv == TypeOK /\ CallerHas /\ ReturnerHas

Benign == Faults \subseteq {"errorReply", "unknownReply", "repeatedReply",
                            "oddLength"}

\* The thread whose call the record a belongs to.
Owner(a) == mem[a].block

\* The queue holds the record a, or has given it up to the returner r.
Queued(a) == \E i \in DOMAIN queue : nodeRec[queue[i]] = a
TakenBy(a, r) == rpc[r] = "submit" /\ nodeRec[it[r]] = a

\* A record that can still be completed, and one that is to be pushed.
Open(a) == a \in live /\ ~mem[a].completed
BeingMade(a) == pc[Owner(a)] = "push"

\* The mutex is held by the caller that is between loading and storing
\* currentEpoch.
MutexInv == \A c \in Caller : mutex = c <=> pc[c] = "push"

\* The live records are those of the running calls, one each.
OwnerInv ==
    /\ \A c \in Caller : InCall(c) =>
         /\ rec[c] \in live
         /\ Owner(rec[c]) = c
         /\ mem[rec[c]].size = want[c]
    /\ \A a \in live : Owner(a) \in Caller /\ InCall(Owner(a)) /\ rec[Owner(a)] = a

\* currentEpoch is above every epoch in use, but for the record being made.
EpochInv ==
    /\ \A a \in live :
         /\ BeingMade(a) => mem[a].epoch = currentEpoch
         /\ ~BeingMade(a) => mem[a].epoch < currentEpoch
    /\ \A a, b \in live : mem[a].epoch = mem[b].epoch => a = b

\* What the queue holds can be completed, and is there once.
QueueInv ==
    /\ \A i \in DOMAIN queue :
         Open(nodeRec[queue[i]]) /\ ~BeingMade(nodeRec[queue[i]])
    /\ \A i, j \in DOMAIN queue : nodeRec[queue[i]] = nodeRec[queue[j]] => i = j

\* A returner that has taken a record out of the queue alone is to complete
\* it, and has the reply to it in hand.
SubmitInv ==
    \A r \in Returner : rpc[r] = "submit" =>
        /\ Open(nodeRec[it[r]])
        /\ ~BeingMade(nodeRec[it[r]])
        /\ ~Queued(nodeRec[it[r]])
        /\ mem[nodeRec[it[r]]].epoch = msg[r].epoch
        /\ \A s \in Returner : TakenBy(nodeRec[it[r]], s) => s = r

\* A record is locked from its completion to the signal, by the returner that
\* completed it.
LockInv ==
    /\ \A r \in Returner : rpc[r] = "signal" =>
         /\ target[r] \in live
         /\ recLock[target[r]] = r
         /\ mem[target[r]].completed
    /\ \A a \in live : recLock[a] # None =>
         rpc[recLock[a]] = "signal" /\ target[recLock[a]] = a

\* A sleeper whose call is completed has the signal still to come, nobody goes
\* on before completion, and nobody destroys a record that is locked.
WaitInv ==
    \A c \in Caller :
        /\ pc[c] = "push" => ~mem[rec[c]].completed
        /\ pc[c] = "blocked" /\ mem[rec[c]].completed => recLock[rec[c]] # None
        /\ pc[c] \in {"woken", "leave"} => mem[rec[c]].completed
        /\ pc[c] = "leave" => recLock[rec[c]] = None

\* The words of a completed call are its own from its completion on.
WordsInv ==
    \A c \in Caller :
        InCall(c) /\ mem[rec[c]].completed /\ mem[rec[c]].errorCode = 0 =>
            WordsAreOwn(c)

CalmInv == up /\ ~corrupt

\* No call fails: every send succeeds.
NoFailure == \A c \in Caller : rv[c] = 0

\* The inductive invariant: why a reply reaches its own call and no record is
\* used after it is destroyed, as a statement about every reachable state.
IInv ==
    /\ MutexInv /\ OwnerInv /\ EpochInv /\ QueueInv /\ SubmitInv
    /\ LockInv /\ WaitInv /\ WordsInv /\ CalmInv

-------------------------------------------------------------------------------
\* What holds whatever the environment does: the callers, the handler's mutex
\* and the records stay in step, and a signal is to come for every sleeper whose
\* call is completed.
CoreInv == MutexInv /\ OwnerInv /\ EpochInv /\ NoLostWakeup

-------------------------------------------------------------------------------
(* Sends that fail, and the death of the sandbox.  Their calls leave nodes in *)
(* the queue that hold deleted records, whose addresses are handed out again, *)
(* so that a record may be in the queue twice, or no longer when it is waited *)
(* for.  What keeps replies apart is that each call is answered once.         *)

\* findByEpoch reads deleted records then.  What others leave in their memory
\* is taken to be below every epoch: nothing in the code sees to it, and a word
\* that is an epoch in use sends a reply to memory that is no record.  Errors
\* are looked up under a word that nothing in memory can have.
Lossy ==
    /\ Faults \subseteq {"sendFailure", "sandboxDeath", "errorReply",
                         "unknownReply", "oddLength"}
    /\ \A g \in Garbage : g < FirstEpoch
    /\ "errorReply" \in Faults =>
         HeaderWord < FirstEpoch /\ HeaderWord \notin Garbage

\* Some caller waits for the reply with this epoch.
Expects(c, epoch) ==
    /\ pc[c] \in {"wait", "blocked"}
    /\ mem[rec[c]].epoch = epoch
    /\ ~mem[rec[c]].completed
Expected(epoch) == \E c \in Caller : Expects(c, epoch)

\* The returner r has a reply in hand and has not written it yet.
Answering(r) == rpc[r] \in {"find", "submit"} /\ msg[r].op = "OP_RETURN"

\* No memory but that of a call's record has the epoch of the call.
MemoryInv ==
    /\ currentEpoch >= FirstEpoch
    /\ \A a \in live : mem[a].epoch >= FirstEpoch
    /\ \A a \in Rec \ live :
         /\ \/ mem[a].epoch \in Garbage
            \/ mem[a].epoch >= FirstEpoch /\ mem[a].epoch < currentEpoch
         /\ \A b \in live : mem[b].epoch # mem[a].epoch

\* Every node of the queue holds a record, destroyed or not.
NodeInv == \A i \in DOMAIN queue : nodeRec[queue[i]] \in Rec

\* What is under way is the one answer to a call that is waited for.
FlightInv ==
    /\ \A m \in wire :
         /\ Expected(m.epoch)
         /\ m.op = "OP_ERROR" => "errorReply" \in Faults
         /\ \A n \in wire : m.epoch = n.epoch => m = n
    /\ \A r \in Returner : Answering(r) =>
         /\ Expected(msg[r].epoch)
         /\ \A m \in wire : m.epoch # msg[r].epoch
         /\ \A s \in Returner :
              Answering(s) /\ msg[s].epoch = msg[r].epoch => s = r

\* A returner looks for a reply or for an error, and finds only the record of
\* the call it has the reply to.
FoundInv ==
    \A r \in Returner :
        /\ rpc[r] = "find" =>
             \/ msg[r].op = "OP_RETURN"
             \/ msg[r].op = "OP_ERROR" /\ msg[r].epoch = HeaderWord
                  /\ "errorReply" \in Faults
        /\ rpc[r] = "submit" =>
             /\ msg[r].op = "OP_RETURN"
             /\ nodeRec[it[r]] \in live
             /\ mem[nodeRec[it[r]]].epoch = msg[r].epoch

\* A call that has failed is on its way out, and nobody else goes on before his
\* call is completed.
LeavingInv ==
    \A c \in Caller :
        /\ pc[c] \in {"push", "send"} => ~mem[rec[c]].completed
        /\ InCall(c) /\ rv[c] # 0 => pc[c] = "leave"
        /\ pc[c] \in {"woken", "leave"} /\ rv[c] = 0 => mem[rec[c]].completed
        /\ pc[c] = "leave" => recLock[rec[c]] = None

\* The inductive invariant when sends may fail.
LossInv ==
    /\ CoreInv /\ MemoryInv /\ NodeInv /\ FlightInv /\ FoundInv
    /\ LockInv /\ LeavingInv /\ WordsInv /\ ~corrupt
===============================================================================
