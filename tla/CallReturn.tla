------------------------------ MODULE CallReturn ------------------------------
(***************************************************************************)
(* Remote placement calls of the runner: calculateOsds (imc-test/runner.cc) *)
(* running in many threads, the CallReturnHandler that pairs replies with  *)
(* calls (imc-test/call_return.cc), and the getReturnsThread threads that   *)
(* read the replies from the sandbox.                                       *)
(*                                                                         *)
(* The heap is modelled where the code depends on it: a CallReturnRec and a *)
(* node of the std::list `queue' each live at an address, and addresses are *)
(* reused after they are freed.  submitReturn reads *it after               *)
(* queue.erase(it), and destroyRec frees a record without taking it out of  *)
(* the queue, so both matter.  The memory of a freed record may be given to *)
(* anybody, who may leave there any word of Garbage.  A freed list node     *)
(* keeps its contents until it is a list node again.                        *)
(*                                                                         *)
(* Every critical section of the handler's mutex that only one kind of      *)
(* thread can see half done is one step; createRec is two, so that its      *)
(* mutex is really needed.  The mutex of a record is held across steps.     *)
(***************************************************************************)
EXTENDS Integers, Sequences, SequencesExt

CONSTANTS
    Caller,       \* threads that call calculateOsds
    Returner,     \* threads that run getReturnsThread
    Rec,          \* addresses the allocator gives to CallReturnRec objects
    Node,         \* addresses the allocator gives to nodes of `queue'
    None,         \* no thread, no address
    CallCount,    \* calls one thread makes (TestCallingArgs::callCount)
    FirstEpoch,   \* the first epoch the handler gives out (111)
    MaxOsds,      \* words in the caller's osd_list
    Requested,    \* values of osds_requested
    HeaderWord,   \* the int found where the OP_ERROR branch looks for the epoch
    Garbage,      \* what may be found where a freed record had its epoch, once
                  \* the memory has been used for something else
    Faults        \* what the environment does besides answering every call once

FaultKinds == { "nodeReuse",       \* a list node freed while an iterator to it
                                   \* is still to be read is handed out again
                "spuriousWakeup",  \* pthread_cond_wait returns unsignalled
                "sandboxDeath",    \* the sandbox process exits
                "sendFailure",     \* sendmsg fails though the sandbox is up
                "errorReply",      \* a call is answered by OP_ERROR
                "unknownReply",    \* a call is answered by some other op
                "repeatedReply",   \* a call is answered more than once
                "oddLength" }      \* a reply is shorter or longer than asked

ASSUME CallReturnAssumption ==
    /\ Caller \cap Returner = {}
    /\ None \notin Caller \cup Returner \cup Rec \cup Node
    /\ CallCount \in Nat \ {0}
    /\ FirstEpoch \in Nat \ {0}
    /\ MaxOsds \in Nat \ {0}
    /\ Requested \subseteq 1..MaxOsds
    /\ HeaderWord \in Int
    /\ Garbage \subseteq Int
    /\ 0 \in Garbage   \* memory that has never been used
    /\ Faults \subseteq FaultKinds

\* `errorCode || -1' is a C++ bool stored in an int.
ErrorTruth == 1

VARIABLES
    \* the callers: calculateOsds
    pc,           \* where each caller is
    rec,          \* callReturn, the caller's record
    want,         \* osds_requested
    rv,           \* the return code under construction
    calls,        \* calls each thread has finished
    osdList,      \* the caller's osd_list: each word is the epoch of the reply
                  \* it came from, 0 before any
    \* the handler
    currentEpoch, mutex, queue,
    \* the heap
    nodeRec,      \* the pointer stored in each list node, freed or not
    live,         \* records allocated and not destroyed
    mem,          \* the fields of each record, destroyed or not
    recLock,      \* the owner of each record's mutex
    \* the returners: getReturnsThread and the two submit functions
    rpc, msg, it, target,
    \* the sandbox and the socket to it
    wire, up,
    corrupt       \* a destroyed record was locked or written

callerVars  == <<pc, rec, want, rv, calls, osdList>>
handlerVars == <<currentEpoch, mutex, queue, nodeRec>>
recVars     == <<live, mem, recLock>>
returnVars  == <<rpc, msg, it, target>>
sandboxVars == <<wire, up>>
vars == <<callerVars, handlerVars, recVars, returnVars, sandboxVars, corrupt>>

-------------------------------------------------------------------------------
Message == [op    : {"OP_CALL", "OP_RETURN", "OP_ERROR", "OP_OTHER"},
            epoch : Int,
            len   : Nat]

\* The receive buffer of a returner that is between two messages.
NoMessage == [op |-> "OP_OTHER", epoch |-> 0, len |-> 0]

Record == [epoch     : Int,
           errorCode : {0, ErrorTruth},
           completed : BOOLEAN,
           block     : Caller \cup {None},  \* resultsBlock: whose osd_list it is
           size      : 0..MaxOsds,  \* resultsBlockSize
           provided  : Nat]         \* resultsBlockProvided

InCall(c) == pc[c] \notin {"create", "end"}

Lesser(a, b) == IF a <= b THEN a ELSE b

\* Heap nodes the allocator may hand to queue.push_back.
FreeNodes ==
    LET held == { it[r] : r \in { s \in Returner : rpc[s] = "submit" } }
    IN  Node \ (ToSet(queue) \cup (IF "nodeReuse" \in Faults THEN {} ELSE held))

(* The decisions of the code, each with the forms in which it could go wrong  *)
(* (named <operator>_<fault>); no action uses those.                         *)

\* The handler's mutex can be taken.
HandlerFree_Unlocked == TRUE
HandlerFree == mutex = None

\* The mutex of the record a can be taken.
RecordFree_Unlocked(a) == TRUE
RecordFree(a) == recLock[a] = None

\* findByEpoch: the positions that match; the code takes the first.  Reading
\* the epoch of a destroyed record reads whatever its memory holds.
Matching_Any(epoch) == DOMAIN queue
Matching(epoch) == { i \in DOMAIN queue : mem[nodeRec[queue[i]]].epoch = epoch }

\* queue.erase(it), where it is the position i.
Erase_Nothing(i) == queue
Erase_First(i) == Tail(queue)
Erase(i) == RemoveAt(queue, i)

\* waitForReturn, with the record locked: wait only if not completed.
Awaiting_Always(a) == "blocked"
Awaiting(a) == IF mem[a].completed THEN "leave" ELSE "blocked"

\* The waiters pthread_cond_signal releases.
Woken_Nobody(a) == {}
Woken(a) == { c \in Caller : pc[c] = "blocked" /\ rec[c] = a }

\* The words submitReturn copies into the results block.
Copied_All(a, m) == 1..m.len
Copied(a, m) == 1..Lesser(m.len, mem[a].size)

\* Where calculateOsds goes when sendMessage fails: `goto leave'.
AfterFailedSend_Ignored == "wait"
AfterFailedSend == "leave"

\* testCallingThread's loop over callCount.
AfterCall_OneMore(c) == IF calls[c] = CallCount THEN "end" ELSE "create"
AfterCall(c) == IF calls[c] + 1 = CallCount THEN "end" ELSE "create"

-------------------------------------------------------------------------------
(* calculateOsds, in the thread c.                                           *)

\* createRec: lock the handler, load currentEpoch, construct the record.  The
\* constructor does not initialise resultsBlockProvided.
CreateRec(c) ==
    /\ pc[c] = "create"
    /\ HandlerFree
    /\ mutex' = c
    /\ \E a \in Rec \ live, n \in Requested :
         /\ rec' = [rec EXCEPT ![c] = a]
         /\ want' = [want EXCEPT ![c] = n]
         /\ live' = live \cup {a}
         /\ mem' = [mem EXCEPT ![a] =
                      [epoch |-> currentEpoch, errorCode |-> 0,
                       completed |-> FALSE, block |-> c, size |-> n,
                       provided |-> @.provided]]
         /\ recLock' = [recLock EXCEPT ![a] = None]
    /\ rv' = [rv EXCEPT ![c] = 0]
    /\ pc' = [pc EXCEPT ![c] = "push"]
    /\ UNCHANGED <<calls, osdList, currentEpoch, queue, nodeRec,
                   returnVars, sandboxVars, corrupt>>

\* createRec, second half: store the incremented currentEpoch, append a list
\* node that holds the record's address, unlock the handler.
PushRec(c) ==
    /\ pc[c] = "push"
    /\ \E n \in FreeNodes :
         /\ nodeRec' = [nodeRec EXCEPT ![n] = rec[c]]
         /\ queue' = Append(queue, n)
    /\ currentEpoch' = mem[rec[c]].epoch + 1
    /\ mutex' = None
    /\ pc' = [pc EXCEPT ![c] = "send"]
    /\ UNCHANGED <<rec, want, rv, calls, osdList, recVars, returnVars,
                   sandboxVars, corrupt>>

\* sendMessage of OP_CALL.  It fails when the other end of the socket is gone,
\* or for want of memory; the code then goes to `leave' with a non-zero code.
SendCall(c) ==
    /\ pc[c] = "send"
    /\ \/ /\ up
          /\ wire' = wire \cup {[op |-> "OP_CALL", epoch |-> mem[rec[c]].epoch,
                                 len |-> want[c]]}
          /\ pc' = [pc EXCEPT ![c] = "wait"]
          /\ UNCHANGED rv
       \/ /\ ~up \/ "sendFailure" \in Faults
          /\ rv' = [rv EXCEPT ![c] = 1]
          /\ pc' = [pc EXCEPT ![c] = AfterFailedSend]
          /\ UNCHANGED wire
    /\ UNCHANGED <<rec, want, calls, osdList, handlerVars, recVars, returnVars,
                   up, corrupt>>

\* waitForReturn: lock the record, and wait on its condition (which releases
\* the lock) unless the call has completed.
WaitForReturn(c) ==
    /\ pc[c] = "wait"
    /\ RecordFree(rec[c])
    /\ pc' = [pc EXCEPT ![c] = Awaiting(rec[c])]
    /\ UNCHANGED <<rec, want, rv, calls, osdList, handlerVars, recVars,
                   returnVars, sandboxVars, corrupt>>

\* pthread_cond_wait may return without a signal.
SpuriousWakeup(c) ==
    /\ "spuriousWakeup" \in Faults
    /\ pc[c] = "blocked"
    /\ pc' = [pc EXCEPT ![c] = "woken"]
    /\ UNCHANGED <<rec, want, rv, calls, osdList, handlerVars, recVars,
                   returnVars, sandboxVars, corrupt>>

\* The rest of waitForReturn after a wake-up: pthread_cond_wait takes the lock
\* back and the function unlocks and returns 0.  callCompleted is not looked
\* at again.
Resume(c) ==
    /\ pc[c] = "woken"
    /\ RecordFree(rec[c])
    /\ pc' = [pc EXCEPT ![c] = "leave"]
    /\ UNCHANGED <<rec, want, rv, calls, osdList, handlerVars, recVars,
                   returnVars, sandboxVars, corrupt>>

\* From getErrorCode, which is only logged, to the return: destroyRec deletes
\* the record, whose memory keeps what it held for the time being, and does not
\* touch the queue.
Leave(c) ==
    /\ pc[c] = "leave"
    /\ live' = live \ {rec[c]}
    /\ rec' = [rec EXCEPT ![c] = None]
    /\ want' = [want EXCEPT ![c] = 0]
    /\ calls' = [calls EXCEPT ![c] = @ + 1]
    /\ pc' = [pc EXCEPT ![c] = AfterCall(c)]
    /\ UNCHANGED <<rv, osdList, handlerVars, mem, recLock, returnVars,
                   sandboxVars, corrupt>>

-------------------------------------------------------------------------------
(* getReturnsThread, in the thread r.                                        *)

\* One receiveCoCl2Message and the dispatch on the op.  The OP_RETURN branch
\* reads its parameters behind the headers.  The OP_ERROR branch starts from
\* `buff' instead of `buff_in', so its epoch is a word of the headers.  Any
\* other op is reported and dropped.
Receive(r) ==
    /\ rpc[r] = "recv"
    /\ \E m \in { w \in wire : w.op # "OP_CALL" } :
         /\ wire' = wire \ {m}
         /\ \/ /\ m.op = "OP_RETURN"
               /\ msg' = [msg EXCEPT ![r] = m]
               /\ rpc' = [rpc EXCEPT ![r] = "find"]
            \/ /\ m.op = "OP_ERROR"
               /\ msg' = [msg EXCEPT ![r] = [m EXCEPT !.epoch = HeaderWord]]
               /\ rpc' = [rpc EXCEPT ![r] = "find"]
            \/ /\ m.op = "OP_OTHER"
               /\ UNCHANGED <<msg, rpc>>
    /\ UNCHANGED <<callerVars, handlerVars, recVars, it, target, up, corrupt>>

\* CallReturnHandler::submitReturn / submitError up to the unlock: find the
\* first list node whose record has the epoch and erase it, or report that
\* there is none and go back to receiving.
FindByEpoch(r) ==
    /\ rpc[r] = "find"
    /\ HandlerFree
    /\ \/ /\ Matching(msg[r].epoch) = {}
          /\ rpc' = [rpc EXCEPT ![r] = "recv"]
          /\ msg' = [msg EXCEPT ![r] = NoMessage]
          /\ UNCHANGED <<queue, it>>
       \/ \E i \in Matching(msg[r].epoch) :
            /\ \A j \in Matching(msg[r].epoch) : i <= j
            /\ it' = [it EXCEPT ![r] = queue[i]]
            /\ queue' = Erase(i)
            /\ rpc' = [rpc EXCEPT ![r] = "submit"]
            /\ UNCHANGED msg
    /\ UNCHANGED <<callerVars, currentEpoch, mutex, nodeRec, recVars, target,
                   sandboxVars, corrupt>>

\* What CallReturnRec::submitReturn writes into the record a, and into the
\* osd_list its resultsBlock points at.
CompleteWithReturn(a, m) ==
    /\ mem' = [mem EXCEPT ![a] = [@ EXCEPT !.completed = TRUE,
                                           !.provided = m.len]]
    /\ osdList' = [osdList EXCEPT ![mem[a].block] =
                     [w \in 1..MaxOsds |->
                        IF w \in Copied(a, m) THEN m.epoch ELSE @[w]]]

\* What CallReturnRec::submitError writes.
CompleteWithError(a) ==
    /\ mem' = [mem EXCEPT ![a] = [@ EXCEPT !.completed = TRUE,
                                           !.errorCode = ErrorTruth,
                                           !.provided = 0]]
    /\ UNCHANGED osdList

\* (*it)->submitReturn or (*it)->submitError up to the signal: read the erased
\* node, lock the record found there and fill it in.  Locking a destroyed
\* record is the end of the modelled behaviour.
Submit(r) ==
    LET a == nodeRec[it[r]] IN
    /\ rpc[r] = "submit"
    /\ target' = [target EXCEPT ![r] = a]
    /\ it' = [it EXCEPT ![r] = None]
    /\ \/ /\ a \notin live
          /\ corrupt' = TRUE
          /\ UNCHANGED <<rpc, mem, osdList, recLock>>
       \/ /\ a \in live
          /\ RecordFree(a)
          /\ recLock' = [recLock EXCEPT ![a] = r]
          /\ \/ /\ msg[r].op = "OP_RETURN"
                /\ CompleteWithReturn(a, msg[r])
             \/ /\ msg[r].op = "OP_ERROR"
                /\ CompleteWithError(a)
          /\ rpc' = [rpc EXCEPT ![r] = "signal"]
          /\ UNCHANGED corrupt
    /\ UNCHANGED <<pc, rec, want, rv, calls, handlerVars, live, msg,
                   sandboxVars>>

\* pthread_cond_signal and the unlock that follows it.
Signal(r) ==
    LET a == target[r] IN
    /\ rpc[r] = "signal"
    /\ IF a \in live
       THEN /\ pc' = [c \in Caller |-> IF c \in Woken(a) THEN "woken" ELSE pc[c]]
            /\ recLock' = [recLock EXCEPT ![a] = None]
            /\ rpc' = [rpc EXCEPT ![r] = "recv"]
            /\ msg' = [msg EXCEPT ![r] = NoMessage]
            /\ target' = [target EXCEPT ![r] = None]
            /\ UNCHANGED corrupt
       ELSE /\ corrupt' = TRUE
            /\ UNCHANGED <<pc, recLock, rpc, msg, target>>
    /\ UNCHANGED <<rec, want, rv, calls, osdList, handlerVars, live, mem, it,
                   sandboxVars>>

-------------------------------------------------------------------------------
\* Some thread is given memory that was a record's, and writes to it where the
\* record had its epoch.
ReuseMemory ==
    /\ \E a \in Rec \ live, e \in Garbage : mem' = [mem EXCEPT ![a].epoch = e]
    /\ UNCHANGED <<callerVars, handlerVars, live, recLock, returnVars,
                   sandboxVars, corrupt>>

-------------------------------------------------------------------------------
(* The sandbox, as the runner sees it on the socket.                         *)

\* The sandbox answers a call.  compute_osds fills in as many words as asked.
SandboxReply ==
    /\ up
    /\ \E m \in { w \in wire : w.op = "OP_CALL" } :
         \E op \in {"OP_RETURN"}
                   \cup (IF "errorReply" \in Faults THEN {"OP_ERROR"} ELSE {})
                   \cup (IF "unknownReply" \in Faults THEN {"OP_OTHER"} ELSE {}),
            len \in IF "oddLength" \in Faults THEN 0..(m.len + 1) ELSE {m.len},
            keep \in IF "repeatedReply" \in Faults THEN {{}, {m}} ELSE {{}} :
           wire' = (wire \ {m}) \cup keep
                      \cup {[op |-> op, epoch |-> m.epoch, len |-> len]}
    /\ UNCHANGED <<callerVars, handlerVars, recVars, returnVars, up, corrupt>>

\* The sandbox process exits.  Calls it has not answered are gone; replies it
\* has sent stay readable.  getReturnsThread then gets an error from every
\* further receive, sleeps and retries, which changes nothing.
SandboxDeath ==
    /\ "sandboxDeath" \in Faults
    /\ up
    /\ up' = FALSE
    /\ wire' = { w \in wire : w.op # "OP_CALL" }
    /\ UNCHANGED <<callerVars, handlerVars, recVars, returnVars, corrupt>>

-------------------------------------------------------------------------------
CallerStep(c) ==
    \/ CreateRec(c) \/ PushRec(c) \/ SendCall(c)
    \/ WaitForReturn(c) \/ Resume(c) \/ Leave(c)

ReturnerStep(r) == Receive(r) \/ FindByEpoch(r) \/ Submit(r) \/ Signal(r)

\* Every thread has made its calls and every reply has been read: the
\* returners stay in recvmsg.
Quiet ==
    /\ \A c \in Caller : pc[c] = "end"
    /\ \A r \in Returner : rpc[r] = "recv"
    /\ wire = {}
    /\ UNCHANGED vars

Next ==
    /\ ~corrupt
    /\ \/ \E c \in Caller : CallerStep(c) \/ SpuriousWakeup(c)
       \/ \E r \in Returner : ReturnerStep(r)
       \/ ReuseMemory
       \/ SandboxReply
       \/ SandboxDeath
       \/ Quiet

Init ==
    /\ pc = [c \in Caller |-> "create"]
    /\ rec = [c \in Caller |-> None]
    /\ want = [c \in Caller |-> 0]
    /\ rv = [c \in Caller |-> 0]
    /\ calls = [c \in Caller |-> 0]
    /\ osdList = [c \in Caller |-> [w \in 1..MaxOsds |-> 0]]
    /\ currentEpoch = FirstEpoch
    /\ mutex = None
    /\ queue = <<>>
    /\ nodeRec = [n \in Node |-> None]
    /\ live = {}
    /\ mem = [a \in Rec |-> [epoch |-> 0, errorCode |-> 0,
                             completed |-> FALSE, block |-> None, size |-> 0,
                             provided |-> 0]]
    /\ recLock = [a \in Rec |-> None]
    /\ rpc = [r \in Returner |-> "recv"]
    /\ msg = [r \in Returner |-> NoMessage]
    /\ it = [r \in Returner |-> None]
    /\ target = [r \in Returner |-> None]
    /\ wire = {}
    /\ up = TRUE
    /\ corrupt = FALSE

Spec == Init /\ [][Next]_vars

\* Every thread of the runner keeps running, and the sandbox keeps answering
\* while it is up.
Fairness ==
    /\ \A c \in Caller : WF_vars(~corrupt /\ CallerStep(c))
    /\ \A r \in Returner : WF_vars(~corrupt /\ ReturnerStep(r))
    /\ WF_vars(~corrupt /\ SandboxReply)

FairSpec == Spec /\ Fairness
===============================================================================
