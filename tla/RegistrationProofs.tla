-------------------------- MODULE RegistrationProofs --------------------------
(***************************************************************************)
(* Proofs about Registration, for any names, any number of test threads and *)
(* of messages, with any numbers of descriptors.                            *)
(***************************************************************************)
EXTENDS Registration, SequenceTheorems, TLAPS

-------------------------------------------------------------------------------
(* The inductive invariant.                                                  *)

\* What is known while a registration is being handled: its descriptor was
\* received with it, and the steps behind it have been taken.
HandlingInv ==
    step > 0 =>
        /\ taken > 0 /\ socket = taken
        /\ Current.kind = "register" /\ Current.fds > 0
        /\ step > 2 => socket \in returners
        /\ step > 3 => algMap[Current.name] = socket

\* Test threads run only while the messages thread waits to join them.
TestingInv ==
    \A t \in Tester :
        /\ tester[t] \in {"started", "calling"} =>
             step = Len(Steps) /\ underTest = taken
        /\ tester[t] = "calling" => using[t] = socket

\* The map holds descriptors of messages that have been received.
SeenInv == \A n \in Name : algMap[n] <= taken

\* While every message brings a descriptor, there is room for one more.
ControlInv == (\A k \in 1..taken : sent[k].fds > 0) => controlLen >= HeaderSize + 8

IInv ==
    /\ TypeOK
    /\ HandlingInv
    /\ TestingInv
    /\ SeenInv
    /\ ControlInv
    /\ VisibleIsServed
    /\ EntryIsItsOwn
    /\ ControlSuffices
    /\ CallsFindAlgorithm

-------------------------------------------------------------------------------
(* Control data.                                                             *)

\* What recvmsg reports fits the room there was.
LEMMA ReportedType ==
    ASSUME NEW fds \in Nat, NEW room \in 0..ControlSize
    PROVE  /\ Delivered(fds, room) \in Nat
           /\ Reported(fds, room) \in 0..ControlSize
           /\ Reported(fds, room) <= room
  BY DEF Delivered, Reported, Lesser, HeaderSize, FdSize, ControlSize

\* A header is reported only with a descriptor behind it.
LEMMA HeaderHasDescriptor ==
    ASSUME NEW fds \in Nat, NEW room \in 0..ControlSize,
           HasHeader(Reported(fds, room))
    PROVE  Delivered(fds, room) > 0 /\ fds > 0
  BY DEF HasHeader, Delivered, Reported, Lesser, HeaderSize, FdSize, ControlSize

\* Room for one descriptor stays room for one descriptor.
LEMMA RoomStays ==
    ASSUME NEW fds \in Nat, fds > 0,
           NEW room \in 0..ControlSize, room >= HeaderSize + 8
    PROVE  /\ Reported(fds, room) >= HeaderSize + 8
           /\ HasHeader(Reported(fds, room))
  BY DEF HasHeader, Delivered, Reported, Lesser, HeaderSize, FdSize, ControlSize

\* Steps are numbered in the order of handleMessage.
LEMMA StepNames ==
    /\ Len(Steps) = 5
    /\ Steps[1] = "shm" /\ Steps[2] = "returns" /\ Steps[3] = "add"
    /\ Steps[4] = "start" /\ Steps[5] = "join"
  BY DEF Steps

\* Where a step of handleMessage is, and where it leads.
LEMMA StepAt ==
    ASSUME TypeOK
    PROVE  /\ step \in 0..5
           /\ At("shm") => step = 1
           /\ At("returns") => step = 2
           /\ At("add") => step = 3
           /\ At("start") => step = 4
           /\ At("join") => step = 5
           /\ NextStep = IF step = 5 THEN 0 ELSE step + 1
  <1>1. step \in 0..5
    BY StepNames DEF TypeOK
  <1>2. step \in {0, 1, 2, 3, 4, 5}
    BY <1>1
  <1> QED
    BY <1>1, <1>2, StepNames DEF At, NextStep

-------------------------------------------------------------------------------
(* Each step preserves the invariant.                                        *)

LEMMA InvInit == Init => IInv
  <1> SUFFICES ASSUME Init PROVE IInv
    OBVIOUS
  <1>1. Len(sent) = 0 /\ sent \in Seq(Message)
    BY EmptySeq DEF Init
  <1>2. TypeOK
    BY <1>1, RegistrationAssumption, StepNames DEF Init, TypeOK, ControlSize, FdSize
  <1>3. /\ HandlingInv /\ TestingInv /\ SeenInv /\ ControlInv
        /\ VisibleIsServed /\ EntryIsItsOwn
    BY DEF Init, HandlingInv, TestingInv, SeenInv, ControlInv, VisibleIsServed,
           EntryIsItsOwn, HeaderSize, ControlSize, FdSize
  <1>4. ControlSuffices /\ CallsFindAlgorithm
    BY DEF Init, ControlSuffices, CallsFindAlgorithm
  <1> QED
    BY <1>2, <1>3, <1>4 DEF IInv

\* Messages have a kind and a number of descriptors; registrations have a name.
LEMMA MessageType ==
    ASSUME TypeOK, NEW k \in 1..Len(sent)
    PROVE  /\ sent[k] \in Message /\ sent[k].fds \in Nat
           /\ sent[k].kind = "register" => sent[k].name \in Name
  <1>1. sent[k] \in Message
    BY ElementOfSeq DEF TypeOK
  <1> QED
    BY <1>1, RegistrationAssumption DEF Message, Registrations, Others

\* The conversation goes on; what has been said stays.
LEMMA SendInv ==
    ASSUME IInv, SandboxSend
    PROVE  IInv'
  <1>1. PICK m \in Message : sent' = Append(sent, m)
    BY DEF SandboxSend
  <1>2. /\ UNCHANGED <<child, aborted, taken, step, controlLen, controlFd, socket,
                       returners, algMap, underTest, tester, using>>
        /\ Len(sent) < MaxMessages /\ child = "running"
    BY DEF SandboxSend, threadVars, testVars
  <1>3. /\ sent \in Seq(Message) /\ Len(sent) \in Nat /\ taken \in 0..Len(sent)
        /\ sent' \in Seq(Message) /\ Len(sent') = Len(sent) + 1
        /\ \A k \in 1..Len(sent) : sent'[k] = sent[k]
    BY <1>1, AppendProperties, LenProperties DEF IInv, TypeOK
  <1>4. TypeOK'
    BY <1>2, <1>3, RegistrationAssumption DEF IInv, TypeOK
  <1>5. \A k \in 1..taken : sent'[k] = sent[k]
    BY <1>3
  <1>6. /\ HandlingInv' /\ ControlInv' /\ ControlSuffices'
    BY <1>2, <1>3, <1>5
       DEF IInv, HandlingInv, ControlInv, ControlSuffices, Current
  <1>7. TestingInv' /\ SeenInv' /\ VisibleIsServed' /\ CallsFindAlgorithm'
    BY <1>2 DEF IInv, TestingInv, SeenInv, VisibleIsServed, CallsFindAlgorithm
  <1>8. EntryIsItsOwn'
    BY <1>2, <1>3 DEF IInv, EntryIsItsOwn, SeenInv, TypeOK, Socket
  <1> QED
    BY <1>4, <1>6, <1>7, <1>8 DEF IInv
\* A receive between two registrations: the control length it leaves behind is
\* enough for the next descriptor, if this message had one.
LEMMA ReceiveInv ==
    ASSUME IInv, Receive
    PROVE  IInv'
  <1> DEFINE m == sent[taken + 1]
  <1>1. /\ aborted = "none" /\ step = 0 /\ taken < Len(sent)
        /\ taken' = taken + 1
        /\ controlLen' = Reported(m.fds, controlLen)
        /\ controlFd' = IF Delivered(m.fds, controlLen) > 0 THEN taken + 1
                        ELSE controlFd
        /\ UNCHANGED <<child, sent, returners, algMap, underTest, tester, using>>
    BY DEF Receive, ControlLeft, testVars
  <1>2. \/ aborted' = aborted /\ step' = step /\ socket' = socket
        \/ /\ m.kind = "register" /\ HasHeader(controlLen')
           /\ socket' = controlFd' /\ step' = 1 /\ aborted' = aborted
        \/ /\ ~HasHeader(controlLen')
           /\ aborted' = "control" /\ step' = step /\ socket' = socket
    BY DEF Receive
  <1>3. /\ taken \in Nat /\ taken' \in 1..Len(sent) /\ Len(sent) \in Nat
        /\ m \in Message /\ m.fds \in Nat
        /\ controlLen \in 0..ControlSize
    BY <1>1, MessageType, LenProperties DEF IInv, TypeOK
  <1> HIDE DEF m
  <1>5. HandlingInv'
    <2>1. CASE HasHeader(controlLen')
      <3>1. controlFd' = taken' /\ m.fds > 0
        BY <1>1, <1>3, <2>1, HeaderHasDescriptor
      <3>2. sent'[taken'] = m
        BY <1>1 DEF m
      <3> QED
        BY <1>1, <1>2, <1>3, <2>1, <3>1, <3>2 DEF HandlingInv, Current
    <2>2. CASE ~HasHeader(controlLen')
      BY <1>1, <1>2, <2>2 DEF HandlingInv
    <2> QED
      BY <2>1, <2>2
  <1>6. TypeOK'
    <2>0. controlLen' \in 0..ControlSize
      BY <1>1, <1>3, ReportedType
    <2>1. controlFd' \in 0..taken'
      BY <1>1, <1>3 DEF IInv, TypeOK
    <2>2. /\ socket' \in 0..taken' /\ step' \in 0..Len(Steps)
          /\ aborted' \in {"none", "control", "sharedMem", "lookup", "send"}
      BY <1>1, <1>2, <1>3, <2>1, StepNames DEF IInv, TypeOK
    <2> QED
      BY <1>1, <1>3, <2>0, <2>1, <2>2 DEF IInv, TypeOK
  <1>7. TestingInv'
    <2>1. \A t \in Tester : tester[t] \notin {"started", "calling"}
      BY <1>1, StepNames DEF IInv, TestingInv
    <2> QED
      BY <1>1, <2>1 DEF TestingInv
  <1>8. SeenInv'
    BY <1>1, <1>3 DEF IInv, SeenInv, TypeOK, Socket
  <1>9. (\A k \in 1..taken' : sent'[k].fds > 0) =>
            controlLen' >= HeaderSize + 8 /\ HasHeader(controlLen')
    <2> SUFFICES ASSUME \A k \in 1..taken' : sent[k].fds > 0
                 PROVE  controlLen' >= HeaderSize + 8 /\ HasHeader(controlLen')
      BY <1>1
    <2>1. m.fds > 0 /\ \A k \in 1..taken : sent[k].fds > 0
      BY <1>1, <1>3 DEF m
    <2>2. controlLen >= HeaderSize + 8
      BY <2>1 DEF IInv, ControlInv
    <2> QED
      BY <1>1, <1>3, <2>1, <2>2, RoomStays
  <1>10. ControlInv'
    BY <1>9 DEF ControlInv
  <1>11. ControlSuffices'
    <2> SUFFICES ASSUME aborted' = "control"
                 PROVE  \E k \in 1..taken' : sent'[k].fds = 0
      BY DEF ControlSuffices
    <2>1. ~HasHeader(controlLen')
      BY <1>1, <1>2
    <2>2. PICK k \in 1..taken' : ~(sent'[k].fds > 0)
      BY <1>9, <2>1
    <2>3. sent[k].fds \in Nat
      BY <1>3, <2>2, MessageType DEF IInv
    <2> QED
      BY <1>1, <2>2, <2>3
  <1>12. VisibleIsServed' /\ EntryIsItsOwn' /\ CallsFindAlgorithm'
    BY <1>1, <1>2 DEF IInv, VisibleIsServed, EntryIsItsOwn, CallsFindAlgorithm
  <1> QED
    BY <1>5, <1>6, <1>7, <1>8, <1>10, <1>11, <1>12 DEF IInv

\* What a step of handleMessage leaves alone, and where it goes on.
LEMMA Proceeds ==
    ASSUME IInv, Proceed, step > 0
    PROVE  /\ UNCHANGED <<child, sent, taken, controlLen, controlFd, socket>>
           /\ step' = IF step = 5 THEN 0 ELSE step + 1
           /\ step' \in 0..Len(Steps)
           /\ taken \in 1..Len(sent) /\ socket = taken /\ socket \in Socket
           /\ Current.kind = "register" /\ Current.fds > 0 /\ Current.name \in Name
           /\ ControlInv'
  <1>1. /\ UNCHANGED <<child, sent, taken, controlLen, controlFd, socket>>
        /\ step' = NextStep
    BY DEF Proceed
  <1>2. step \in 0..5 /\ step' = IF step = 5 THEN 0 ELSE step + 1
    BY <1>1, StepAt DEF IInv
  <1>3. /\ taken \in 1..Len(sent) /\ socket = taken
        /\ Current.kind = "register" /\ Current.fds > 0
    BY DEF IInv, HandlingInv, TypeOK
  <1>4. socket \in Socket
    BY <1>3, LenProperties, RegistrationAssumption DEF IInv, TypeOK, Socket
  <1>5. Current.name \in Name
    BY <1>3, MessageType DEF IInv, Current
  <1>6. ControlInv'
    BY <1>1 DEF IInv, ControlInv
  <1> QED
    BY <1>1, <1>2, <1>3, <1>4, <1>5, <1>6, StepNames

\* No test thread is at work before the last step.
LEMMA NoTests ==
    ASSUME IInv, step # 5
    PROVE  \A t \in Tester : tester[t] \notin {"started", "calling"}
  BY StepNames DEF IInv, TestingInv

LEMMA ShareMemoryInv ==
    ASSUME IInv, ShareMemory
    PROVE  IInv'
  <1>1. /\ step = 1 /\ step' = 2 /\ aborted' \in {"none", "sharedMem"}
        /\ UNCHANGED <<child, sent, taken, controlLen, controlFd, socket, returners,
                       algMap, underTest, tester, using>>
        /\ ControlInv'
    BY StepAt, Proceeds DEF ShareMemory, IInv, testVars
  <1>2. TypeOK'
    BY <1>1, StepNames DEF IInv, TypeOK
  <1>3. HandlingInv'
    BY <1>1 DEF IInv, HandlingInv, Current
  <1>4. TestingInv'
    BY <1>1, NoTests DEF TestingInv
  <1>5. SeenInv' /\ VisibleIsServed' /\ EntryIsItsOwn'
    BY <1>1 DEF IInv, SeenInv, VisibleIsServed, EntryIsItsOwn
  <1>6. ControlSuffices' /\ CallsFindAlgorithm'
    BY <1>1 DEF ControlSuffices, CallsFindAlgorithm
  <1> QED
    BY <1>1, <1>2, <1>3, <1>4, <1>5, <1>6 DEF IInv

LEMMA CreateReturnsThreadInv ==
    ASSUME IInv, CreateReturnsThread
    PROVE  IInv'
  <1>1. /\ step = 2 /\ step' = 3 /\ returners' = returners \cup {socket}
        /\ socket \in Socket
        /\ UNCHANGED <<child, aborted, sent, taken, controlLen, controlFd, socket,
                       algMap, underTest, tester, using>>
        /\ ControlInv'
    BY StepAt, Proceeds DEF CreateReturnsThread, Serving, IInv, testVars
  <1>2. TypeOK'
    BY <1>1, StepNames DEF IInv, TypeOK
  <1>3. HandlingInv'
    BY <1>1 DEF IInv, HandlingInv, Current
  <1>4. TestingInv'
    BY <1>1, NoTests DEF TestingInv
  <1>5. SeenInv' /\ VisibleIsServed' /\ EntryIsItsOwn'
    BY <1>1 DEF IInv, SeenInv, VisibleIsServed, EntryIsItsOwn
  <1>6. ControlSuffices' /\ CallsFindAlgorithm'
    BY <1>1 DEF IInv, ControlSuffices, CallsFindAlgorithm
  <1> QED
    BY <1>1, <1>2, <1>3, <1>4, <1>5, <1>6 DEF IInv

\* The entry that appears is served already, and is the registration's own.
LEMMA AddAlgorithmInv ==
    ASSUME IInv, AddAlgorithm
    PROVE  IInv'
  <1>1. /\ step = 3 /\ step' = 4
        /\ algMap' = [algMap EXCEPT ![Current.name] = socket]
        /\ socket \in Socket /\ socket = taken /\ taken \in 1..Len(sent)
        /\ Current.kind = "register" /\ Current.fds > 0 /\ Current.name \in Name
        /\ UNCHANGED <<child, aborted, sent, taken, controlLen, controlFd, socket,
                       returners, underTest, tester, using>>
        /\ ControlInv'
    BY StepAt, Proceeds DEF AddAlgorithm, IInv, testVars
  <1>2. socket \in returners
    BY <1>1 DEF IInv, HandlingInv
  <1>3. /\ algMap'[Current.name] = socket
        /\ \A n \in Name \ {Current.name} : algMap'[n] = algMap[n]
    BY <1>1 DEF IInv, TypeOK
  <1>4. TypeOK'
    BY <1>1, StepNames DEF IInv, TypeOK
  <1>5. HandlingInv'
    BY <1>1, <1>2, <1>3 DEF HandlingInv, Current
  <1>6. TestingInv'
    BY <1>1, NoTests DEF TestingInv
  <1>7. SeenInv' /\ VisibleIsServed'
    BY <1>1, <1>2, <1>3 DEF IInv, SeenInv, VisibleIsServed
  <1>8. EntryIsItsOwn'
    BY <1>1, <1>3 DEF IInv, EntryIsItsOwn, Current
  <1>9. ControlSuffices' /\ CallsFindAlgorithm'
    BY <1>1 DEF IInv, ControlSuffices, CallsFindAlgorithm
  <1> QED
    BY <1>1, <1>4, <1>5, <1>6, <1>7, <1>8, <1>9 DEF IInv

LEMMA StartTestersInv ==
    ASSUME IInv, StartTesters
    PROVE  IInv'
  <1>1. /\ step = 4 /\ step' = 5 /\ underTest' = taken
        /\ tester' = [t \in Tester |-> "started"] /\ using' = [t \in Tester |-> 0]
        /\ UNCHANGED <<child, aborted, sent, taken, controlLen, controlFd, socket,
                       returners, algMap>>
        /\ ControlInv'
    BY StepAt, Proceeds DEF StartTesters, IInv
  <1>2. TypeOK'
    BY <1>1, StepNames DEF IInv, TypeOK
  <1>3. HandlingInv'
    BY <1>1 DEF IInv, HandlingInv, Current
  <1>4. TestingInv'
    BY <1>1, StepNames DEF TestingInv
  <1>5. SeenInv' /\ VisibleIsServed' /\ EntryIsItsOwn'
    BY <1>1 DEF IInv, SeenInv, VisibleIsServed, EntryIsItsOwn
  <1>6. ControlSuffices' /\ CallsFindAlgorithm'
    BY <1>1 DEF IInv, ControlSuffices, CallsFindAlgorithm
  <1> QED
    BY <1>1, <1>2, <1>3, <1>4, <1>5, <1>6 DEF IInv

LEMMA JoinTestersInv ==
    ASSUME IInv, JoinTesters
    PROVE  IInv'
  <1>1. /\ step = 5 /\ step' = 0 /\ \A t \in Tester : tester[t] = "ended"
        /\ UNCHANGED <<child, aborted, sent, taken, controlLen, controlFd, socket,
                       returners, algMap, underTest, tester, using>>
        /\ ControlInv'
    BY StepAt, Proceeds DEF JoinTesters, IInv, testVars
  <1>2. TypeOK'
    BY <1>1, StepNames DEF IInv, TypeOK
  <1>3. HandlingInv' /\ TestingInv'
    BY <1>1 DEF HandlingInv, TestingInv
  <1>4. SeenInv' /\ VisibleIsServed' /\ EntryIsItsOwn'
    BY <1>1 DEF IInv, SeenInv, VisibleIsServed, EntryIsItsOwn
  <1>5. ControlSuffices' /\ CallsFindAlgorithm'
    BY <1>1 DEF IInv, ControlSuffices, CallsFindAlgorithm
  <1> QED
    BY <1>1, <1>2, <1>3, <1>4, <1>5 DEF IInv

\* A test thread that calls finds the registration it was started for.
LEMMA TesterCallInv ==
    ASSUME IInv, NEW t \in Tester, TesterCall(t)
    PROVE  IInv'
  <1>1. /\ tester[t] = "started" /\ aborted = "none"
        /\ UNCHANGED <<child, sent, taken, step, controlLen, controlFd, socket,
                       returners, algMap, underTest>>
    BY DEF TesterCall, threadVars
  <1>2. step = 5 /\ underTest = taken
    BY <1>1, StepNames DEF IInv, TestingInv
  <1>3. /\ algMap[sent[underTest].name] = socket
        /\ socket # 0 /\ socket = taken /\ taken \in 1..Len(sent)
    BY <1>2 DEF IInv, HandlingInv, Current, TypeOK
  <1>4. \/ /\ aborted' = "send" /\ UNCHANGED <<tester, using>>
        \/ /\ tester' = [tester EXCEPT ![t] = "calling"]
           /\ using' = [using EXCEPT ![t] = socket] /\ aborted' = aborted
    BY <1>3 DEF TesterCall
  <1>5. socket \in Socket
    BY <1>3, LenProperties, RegistrationAssumption DEF IInv, TypeOK, Socket
  <1>6. TypeOK'
    BY <1>1, <1>4, <1>5 DEF IInv, TypeOK
  <1>7. HandlingInv' /\ SeenInv' /\ ControlInv' /\ VisibleIsServed' /\ EntryIsItsOwn'
    BY <1>1 DEF IInv, HandlingInv, Current, SeenInv, ControlInv, VisibleIsServed,
                EntryIsItsOwn
  <1>8. TestingInv'
    BY <1>1, <1>2, <1>4, StepNames DEF IInv, TestingInv, TypeOK
  <1>9. ControlSuffices' /\ CallsFindAlgorithm'
    BY <1>1, <1>4 DEF IInv, ControlSuffices, CallsFindAlgorithm
  <1> QED
    BY <1>6, <1>7, <1>8, <1>9 DEF IInv

LEMMA TesterReturnInv ==
    ASSUME IInv, NEW t \in Tester, TesterReturn(t)
    PROVE  IInv'
  <1>1. /\ tester' = [tester EXCEPT ![t] = "ended"]
        /\ UNCHANGED <<child, aborted, sent, taken, step, controlLen, controlFd,
                       socket, returners, algMap, underTest, using>>
    BY DEF TesterReturn, threadVars
  <1>2. TypeOK' /\ TestingInv'
    BY <1>1 DEF IInv, TypeOK, TestingInv
  <1>3. HandlingInv' /\ SeenInv' /\ ControlInv' /\ VisibleIsServed' /\ EntryIsItsOwn'
    BY <1>1 DEF IInv, HandlingInv, Current, SeenInv, ControlInv, VisibleIsServed,
                EntryIsItsOwn
  <1>4. ControlSuffices' /\ CallsFindAlgorithm'
    BY <1>1 DEF IInv, ControlSuffices, CallsFindAlgorithm
  <1> QED
    BY <1>2, <1>3, <1>4 DEF IInv

LEMMA NextInv ==
    ASSUME IInv, [Next]_vars
    PROVE  IInv'
  <1>1. CASE Fork \/ SandboxExit \/ UNCHANGED vars
    <2>1. /\ UNCHANGED <<aborted, sent, taken, step, controlLen, controlFd, socket,
                         returners, algMap, underTest, tester, using>>
          /\ child' \in {"none", "running", "exited"}
      BY <1>1 DEF Fork, SandboxExit, vars, threadVars, testVars, IInv, TypeOK
    <2>2. TypeOK'
      BY <2>1 DEF IInv, TypeOK
    <2> QED
      BY <2>1, <2>2
         DEF IInv, HandlingInv, Current, TestingInv, SeenInv, ControlInv,
             VisibleIsServed, EntryIsItsOwn, ControlSuffices, CallsFindAlgorithm
  <1> QED
    BY <1>1, SendInv, ReceiveInv, ShareMemoryInv, CreateReturnsThreadInv,
       AddAlgorithmInv, StartTestersInv, JoinTestersInv, TesterCallInv,
       TesterReturnInv
       DEF Next, Handle

-------------------------------------------------------------------------------
(* Safety.                                                                   *)

\* Registrations, the map, the test threads and the control length stay in step,
\* however many descriptors the messages carry (runner.cc:335-423,
\* messaging.cc:22-50).
THEOREM Inductive == Spec => []IInv
  BY InvInit, NextInv, PTL DEF Spec

\* Every variable keeps its type: in particular no step takes a descriptor of a
\* message that has not been received.
THEOREM TypeCorrect == Spec => []TypeOK
  <1>1. IInv => TypeOK
    BY DEF IInv
  <1> QED
    BY Inductive, <1>1, PTL

\* An algorithm in the map has a returns thread on its socket
\* (runner.cc:358-361).
THEOREM VisibleAreServed == Spec => []VisibleIsServed
  <1>1. IInv => VisibleIsServed
    BY DEF IInv
  <1> QED
    BY Inductive, <1>1, PTL

\* What the map holds for a name is a descriptor that came with a registration of
\* that name (runner.cc:352).
THEOREM EntriesAreOwn == Spec => []EntryIsItsOwn
  <1>1. IInv => EntryIsItsOwn
    BY DEF IInv
  <1> QED
    BY Inductive, <1>1, PTL

\* As long as each message brings descriptors, however many, none is refused for
\* want of control data (messaging.cc:46, 202).
THEOREM ControlIsEnough == Spec => []ControlSuffices
  <1>1. IInv => ControlSuffices
    BY DEF IInv
  <1> QED
    BY Inductive, <1>1, PTL

\* No test thread looks for its algorithm in vain (testing.cc:101).
THEOREM LookupsSucceed == Spec => []CallsFindAlgorithm
  <1>1. IInv => CallsFindAlgorithm
    BY DEF IInv
  <1> QED
    BY Inductive, <1>1, PTL

\* No entry of the map is replaced while a call uses it (testing.cc:153).
THEOREM CallsAreCurrent == Spec => []CallsUseCurrentSocket
  <1>1. IInv => CallsUseCurrentSocket
    <2> SUFFICES ASSUME IInv, NEW t \in Tester, tester[t] = "calling"
                 PROVE  algMap[sent[using[t]].name] = using[t]
      BY DEF CallsUseCurrentSocket
    <2>1. step = 5 /\ using[t] = socket
      BY StepNames DEF IInv, TestingInv
    <2> QED
      BY <2>1 DEF IInv, HandlingInv, Current
  <1> QED
    BY Inductive, <1>1, PTL
===============================================================================
