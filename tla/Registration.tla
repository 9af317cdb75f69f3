----------------------------- MODULE Registration -----------------------------
(***************************************************************************)
(* How the runner comes to know the placement algorithms of its sandbox:    *)
(* main and forkWithBoundSocket, the messages thread handleConnection with  *)
(* handleMessage (imc-test/runner.cc), the reception of control data        *)
(* (imc-test/messaging.cc), the map of algorithms (imc-test/alg_info.cc)    *)
(* and the threads that try an algorithm out (imc-test/testing.cc).         *)
(*                                                                         *)
(* A message is what matters of one sendmsg of the sandbox: whether it is   *)
(* legal, whether it registers an algorithm and under which name, and how   *)
(* many descriptors it carries; the first of them is named by the place of  *)
(* the message in the conversation.  A call is that of module CallReturn    *)
(* seen from afar: it looks the algorithm up, sends on its socket, and is   *)
(* answered only if a returns thread listens there.                         *)
(***************************************************************************)
EXTENDS Integers, Sequences

CONSTANTS
    Name,         \* names of algorithms
    Tester,       \* the threads createTestCallingThreads starts (25)
    ShmIds,       \* ids in sharedMemMgr when the first message arrives
    Fds,          \* how many descriptors one message may carry
    MaxMessages   \* bound: messages the sandbox sends

ASSUME RegistrationAssumption ==
    /\ Fds \subseteq Nat
    /\ MaxMessages \in Nat

\* Bytes of a cmsghdr, of a descriptor, and of `int control[CONTROL_LEN]'.
HeaderSize == 16
FdSize == 4
ControlSize == 8 * FdSize

VARIABLES
    child,        \* the sandbox: "none", "running" or "exited"
    aborted,      \* the assertion that failed, "none" while none has
    sent,         \* every message the sandbox has sent, in order
    taken,        \* how many of them the messages thread has received
    step,         \* 0 in recvmsg, otherwise its place in Steps
    controlLen,   \* control_len, passed by reference to every receive
    controlFd,    \* the descriptor at the head of `control', 0 before any
    socket,       \* socket_fd in handleMessage
    returners,    \* sockets that have a getReturnsThread
    algMap,       \* name |-> socket, 0 when it is not there
    underTest,    \* the registration the test threads were started for
    tester,       \* each thread: "none", "started", "calling" or "ended"
    using         \* the socket each thread found for its call, 0 before

threadVars == <<taken, step, controlLen, controlFd, socket>>
testVars == <<underTest, tester, using>>
vars == <<child, aborted, sent, threadVars, returners, algMap, testVars>>

-------------------------------------------------------------------------------
Registrations == [kind : {"register"}, name : Name, fds : Fds]
\* "illegal" is what receiveCoCl2Message refuses, "invalid" what handleMessage
\* does not know.
Others == [kind : {"invalid", "illegal"}, fds : Fds]
Message == Registrations \cup Others

Socket == 1..MaxMessages

Lesser(a, b) == IF a <= b THEN a ELSE b

\* Descriptors the kernel delivers into `room' bytes of control data, and the
\* bytes it reports as used: CMSG_SPACE is aligned to 8.
Delivered(fds, room) ==
    IF room <= HeaderSize THEN 0
    ELSE Lesser(fds, (room - HeaderSize) \div FdSize)

Reported(fds, room) ==
    LET n == Delivered(fds, room) IN
    IF n = 0 THEN 0
    ELSE Lesser(room, HeaderSize + 8 * ((n * FdSize + 7) \div 8))

\* receiveMessage: what control_len is for the next receive.
ControlLeft_Rest(m) == controlLen - Reported(m.fds, controlLen)
ControlLeft_Added(m) == controlLen + Reported(m.fds, controlLen)
ControlLeft(m) == Reported(m.fds, controlLen)

\* CMSG_FIRSTHDR gives a header only when there is room for a whole one.
HasHeader_Always(len) == TRUE
HasHeader(len) == len >= HeaderSize

\* The order in which handleMessage works on a registration.
Steps_AddEarly == <<"shm", "add", "returns", "start", "join">>
Steps_StartEarly == <<"shm", "returns", "start", "add", "join">>
Steps == <<"shm", "returns", "add", "start", "join">>

\* Where a step leads; the last one leads back to recvmsg.
NextStep_NoJoin == IF step + 1 = Len(Steps) THEN 0 ELSE step + 1
NextStep == IF step = Len(Steps) THEN 0 ELSE step + 1

\* pthread_create in createHandleReturnsThread.
Serving_Nobody(s) == returners
Serving(s) == returners \cup {s}

At(s) == aborted = "none" /\ step > 0 /\ Steps[step] = s

\* The message being handled.
Current == sent[taken]

Init ==
    /\ child = "none"
    /\ aborted = "none"
    /\ sent = <<>>
    /\ taken = 0
    /\ step = 0
    /\ controlLen = ControlSize
    /\ controlFd = 0
    /\ socket = 0
    /\ returners = {}
    /\ algMap = [n \in Name |-> 0]
    /\ underTest = 0
    /\ tester = [t \in Tester |-> "none"]
    /\ using = [t \in Tester |-> 0]

-------------------------------------------------------------------------------
(* The runner's main and the sandbox it forks.                               *)

\* forkWithBoundSocket forks while the messages thread already waits in
\* recvmsg; main then joins that thread and does nothing more.
Fork ==
    /\ child = "none"
    /\ child' = "running"
    /\ UNCHANGED <<aborted, sent, threadVars, returners, algMap, testVars>>

SandboxSend ==
    /\ child = "running"
    /\ Len(sent) < MaxMessages
    /\ \E m \in Message : sent' = Append(sent, m)
    /\ UNCHANGED <<child, aborted, threadVars, returners, algMap, testVars>>

SandboxExit ==
    /\ child = "running"
    /\ child' = "exited"
    /\ UNCHANGED <<aborted, sent, threadVars, returners, algMap, testVars>>

-------------------------------------------------------------------------------
(* The messages thread: handleConnection and handleMessage.                  *)

\* One receive, whose control length replaces control_len.  An illegal or
\* invalid message goes no further.  A registration needs a header in the
\* control data (messaging.cc:202), and takes the descriptor the buffer holds.
Receive ==
    /\ aborted = "none"
    /\ step = 0
    /\ taken < Len(sent)
    /\ taken' = taken + 1
    /\ LET m == sent[taken + 1] IN
       /\ controlLen' = ControlLeft(m)
       /\ controlFd' = IF Delivered(m.fds, controlLen) > 0 THEN taken + 1
                       ELSE controlFd
       /\ \/ /\ m.kind # "register"
             /\ UNCHANGED <<aborted, step, socket>>
          \/ /\ m.kind = "register"
             /\ HasHeader(controlLen')
             /\ socket' = controlFd'
             /\ step' = 1
             /\ UNCHANGED aborted
          \/ /\ m.kind = "register"
             /\ ~HasHeader(controlLen')
             /\ aborted' = "control"
             /\ UNCHANGED <<step, socket>>
    /\ UNCHANGED <<child, sent, returners, algMap, testVars>>

Proceed ==
    /\ step' = NextStep
    /\ UNCHANGED <<child, sent, taken, controlLen, controlFd, socket>>

\* sendAlgAllSharedMem answers 1 as soon as one sendMessage answered anything
\* but 0, and a sendmsg that succeeds answers the bytes it sent.
ShareMemory ==
    /\ At("shm")
    /\ aborted' = IF ShmIds = {} THEN "none" ELSE "sharedMem"
    /\ Proceed
    /\ UNCHANGED <<returners, algMap, testVars>>

CreateReturnsThread ==
    /\ At("returns")
    /\ returners' = Serving(socket)
    /\ Proceed
    /\ UNCHANGED <<aborted, algMap, testVars>>

\* A name registered again gets the new socket.
AddAlgorithm ==
    /\ At("add")
    /\ algMap' = [algMap EXCEPT ![Current.name] = socket]
    /\ Proceed
    /\ UNCHANGED <<aborted, returners, testVars>>

StartTesters ==
    /\ At("start")
    /\ underTest' = taken
    /\ tester' = [t \in Tester |-> "started"]
    /\ using' = [t \in Tester |-> 0]
    /\ Proceed
    /\ UNCHANGED <<aborted, returners, algMap>>

\* pthread_join on every one of them.
JoinTesters ==
    /\ At("join")
    /\ \A t \in Tester : tester[t] = "ended"
    /\ Proceed
    /\ UNCHANGED <<aborted, returners, algMap, testVars>>

-------------------------------------------------------------------------------
(* A test thread, and the call it makes.                                     *)

\* getAlgorithm, and the send on the socket it finds.  A call that finds none,
\* or whose send fails because the sandbox has gone, answers an error, and the
\* thread asserts that no call does (testing.cc:101).
TesterCall(t) ==
    /\ aborted = "none"
    /\ tester[t] = "started"
    /\ LET s == algMap[sent[underTest].name] IN
       \/ /\ s = 0 \/ child = "exited"
          /\ aborted' = IF s = 0 THEN "lookup" ELSE "send"
          /\ UNCHANGED <<tester, using>>
       \/ /\ s # 0 /\ child = "running"
          /\ tester' = [tester EXCEPT ![t] = "calling"]
          /\ using' = [using EXCEPT ![t] = s]
          /\ UNCHANGED aborted
    /\ UNCHANGED <<child, sent, threadVars, returners, algMap, underTest>>

\* The answer arrives, through the returns thread of that socket.  It may have
\* been under way when the sandbox exited.
TesterReturn(t) ==
    /\ aborted = "none"
    /\ tester[t] = "calling"
    /\ using[t] \in returners
    /\ tester' = [tester EXCEPT ![t] = "ended"]
    /\ UNCHANGED <<child, aborted, sent, threadVars, returners, algMap, underTest,
                   using>>

-------------------------------------------------------------------------------
Handle ==
    \/ ShareMemory
    \/ CreateReturnsThread
    \/ AddAlgorithm
    \/ StartTesters
    \/ JoinTesters

Next ==
    \/ Fork
    \/ SandboxSend
    \/ SandboxExit
    \/ Receive
    \/ Handle
    \/ \E t \in Tester : TesterCall(t) \/ TesterReturn(t)

Spec == Init /\ [][Next]_vars

\* The runner's threads are scheduled, and a sandbox that runs answers.
\* Nothing makes it send, and nothing keeps it from exiting.
Fairness ==
    /\ WF_vars(Receive)
    /\ WF_vars(Handle)
    /\ \A t \in Tester :
          /\ WF_vars(TesterCall(t))
          /\ WF_vars(child = "running" /\ TesterReturn(t))

FairSpec == Spec /\ Fairness

-------------------------------------------------------------------------------
(* Properties.                                                               *)

TypeOK ==
    /\ child \in {"none", "running", "exited"}
    /\ aborted \in {"none", "control", "sharedMem", "lookup", "send"}
    /\ sent \in Seq(Message) /\ Len(sent) <= MaxMessages
    /\ taken \in 0..Len(sent)
    /\ step \in 0..Len(Steps)
    /\ controlLen \in 0..ControlSize
    /\ controlFd \in 0..taken
    /\ socket \in 0..taken
    /\ returners \subseteq Socket
    /\ algMap \in [Name -> Socket \cup {0}]
    /\ underTest \in 0..taken
    /\ tester \in [Tester -> {"none", "started", "calling", "ended"}]
    /\ using \in [Tester -> Socket \cup {0}]

\* An algorithm a caller can find has a thread that receives its returns: the
\* returns thread is created (runner.cc:358) before addAlgorithm (runner.cc:361),
\* for a first registration and for every one that replaces it.
VisibleIsServed == \A n \in Name : algMap[n] # 0 => algMap[n] \in returners

\* What the map holds for a name is a descriptor of a message that registered
\* that name, never one that an earlier message left in the control buffer
\* (runner.cc:352).
EntryIsItsOwn ==
    \A n \in Name : algMap[n] # 0 =>
        LET m == sent[algMap[n]] IN
        m.kind = "register" /\ m.name = n /\ m.fds > 0

\* As long as every message brings a descriptor, each registration finds a
\* control header, and so the first of its descriptors, however many the
\* messages before it brought: the control length that receiveMessage leaves
\* behind (messaging.cc:46) stays enough for one.
ControlSuffices == aborted = "control" => \E k \in 1..taken : sent[k].fds = 0

\* A registration that carries a descriptor never fails the assertion that its
\* control data has a header (messaging.cc:202), whatever came before it.
ControlAsserted == aborted = "control" => Current.fds = 0

\* The announcement of the shared memory does not fail (runner.cc:356).
SharedMemAnnounced == aborted # "sharedMem"

\* A test thread finds the algorithm it was started for (runner.cc:174-182,
\* testing.cc:101).
CallsFindAlgorithm == aborted # "lookup"

\* No algorithm is replaced under a call that is using it: getAlgorithm hands
\* out a pointer into the map (alg_info.cc:35), and the messages thread replaces
\* nothing before it has joined the callers (testing.cc:153).
CallsUseCurrentSocket ==
    \A t \in Tester : tester[t] = "calling" =>
        algMap[sent[using[t]].name] = using[t]

\* As long as the sandbox runs, each of its messages is received at last, even
\* though the thread that receives them also waits for the tests of every
\* registration (runner.cc:363, testing.cc:152-157).
MessagesTaken ==
    \A k \in 1..MaxMessages :
        Len(sent) >= k ~> taken >= k \/ child = "exited" \/ aborted # "none"
===============================================================================
