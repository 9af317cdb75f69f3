--------------------------- MODULE SocketTestsProofs ---------------------------
(***************************************************************************)
(* Proofs about SocketTests, for every number of characters and whatever of  *)
(* exec, the sandbox and the client fails.                                   *)
(***************************************************************************)
EXTENDS SocketTests, SequenceTheorems, TLAPS

\* The last step of the server's and of the client's code.
LastServer == [srpc |-> 2, shm |-> 2, stream |-> 4, dgram |-> 4]
LastClient == [srpc |-> 2, shm |-> 5, stream |-> 3, dgram |-> 2]

TypeInv ==
    /\ test \in Test
    /\ at \in [Proc -> Nat]
    /\ image \in {"unborn", "fork", "sandbox", "client", "server"}
    /\ state \in [Proc -> {"running", "exited", "aborted", "killed"}]
    /\ serverFd \in [Proc -> {None, 0, 1}]
    /\ holds \in [End -> SUBSET Proc]
    /\ shut \subseteq End
    /\ inbox \in [End -> Seq({"char", "dgram", "fd"})]
    /\ got \in Nat

\* Nobody runs past the end of his code.
PlaceInv ==
    /\ at["runner"] <= LastServer[test]
    /\ image \in {"unborn", "fork"} => at["child"] = 0
    /\ image = "server" => at["child"] \in 1..LastServer[test]
    /\ image = "client" => at["child"] \in 1..LastClient[test]

\* The child is there to run the client, or runs it.
ClientToCome == image \in {"unborn", "fork", "client"}

\* A runner whose client is to come has its own end and loses it by nothing but
\* its own doing.
RunnerInv ==
    /\ at["runner"] > 0 => image # "unborn" /\ serverFd["runner"] = 1
    /\ ClientToCome => state["runner"] \in {"running", "exited"}
    /\ ClientToCome /\ state["runner"] = "exited" => at["runner"] > 1

\* Until the runner has written, its client finds neither a character nor the end
\* of the stream and keeps its own end; from then on every character is on the
\* way or read, and the client has read them all when it goes on.
StreamInv ==
    test = "stream" /\ ClientToCome =>
        /\ at["runner"] <= 2 => shut = {} /\ "runner" \in holds[1]
        /\ at["runner"] <= 1 =>
             /\ inbox[0] = <<>> /\ got = 0
             /\ image # "unborn" => "child" \in holds[0]
             /\ image = "client" => at["child"] = 1
        /\ at["runner"] > 1 => Len(inbox[0]) + got = Chars
        /\ image = "client" /\ at["child"] > 1 => inbox[0] = <<>>

IInv == TypeInv /\ PlaceInv /\ RunnerInv /\ StreamInv

-------------------------------------------------------------------------------
(* The steps of the programs.                                                *)

\* Where the steps of the server's code stand.
LEMMA ServerTable ==
    ASSUME TypeInv, PlaceInv, NEW p \in Proc, NEW s, AtServer(p, s)
    PROVE  /\ at[p] \in 1..LastServer[test]
           /\ s = "send" => test \in {"stream", "dgram"} /\ at[p] = 1
           /\ s = "shutdown" => test \in {"stream", "dgram"} /\ at[p] = 2
           /\ s = "close" => test \in {"stream", "dgram"} /\ at[p] = 3
           /\ s = "receive" => test \in {"srpc", "shm"} /\ at[p] = 1
           /\ s = "wait" => at[p] = LastServer[test]
  <1> USE SocketTestsAssumption
  <1>1. at[p] \in 1..LastServer[test]
    BY DEF TypeInv, PlaceInv, AtServer, Serves, Proc, LastServer
  <1>2. s = ServerSteps[test][at[p]] /\ test \in {"srpc", "shm", "stream", "dgram"}
    BY DEF AtServer, TypeInv
  <1>3. CASE test \in {"srpc", "shm"}
    BY <1>1, <1>2, <1>3 DEF ServerSteps, LastServer
  <1>4. CASE test \in {"stream", "dgram"}
    BY <1>1, <1>2, <1>4 DEF ServerSteps, LastServer
  <1> QED
    BY <1>1, <1>2, <1>3, <1>4

\* Where the steps of the client's code stand.
LEMMA ClientTable ==
    ASSUME TypeInv, PlaceInv, NEW s, AtClient(s)
    PROVE  /\ at["child"] \in 1..LastClient[test]
           /\ s = "read" => test = "stream" /\ at["child"] = 1
           /\ s = "close" => test = "stream" /\ at["child"] = 2
           /\ s = "exit" => at["child"] = LastClient[test]
           /\ s \in {"export", "create", "send", "receive"} =>
                test # "stream" /\ at["child"] < LastClient[test]
  <1> USE SocketTestsAssumption
  <1>1. at["child"] \in 1..LastClient[test]
    BY DEF PlaceInv, AtClient
  <1>2. /\ s = ClientSteps[test][at["child"]]
        /\ test \in {"srpc", "shm", "stream", "dgram"}
    BY DEF AtClient, TypeInv
  <1>3. CASE test \in {"srpc", "dgram"}
    BY <1>1, <1>2, <1>3 DEF ClientSteps, LastClient
  <1>4. CASE test = "shm"
    BY <1>1, <1>2, <1>4 DEF ClientSteps, LastClient
  <1>5. CASE test = "stream"
    BY <1>1, <1>2, <1>5 DEF ClientSteps, LastClient
  <1> QED
    BY <1>1, <1>2, <1>3, <1>4, <1>5

\* What a process takes out of an end leaves one less there.
LEMMA TakenOut ==
    ASSUME TypeInv, NEW e \in End, inbox[e] # <<>>
    PROVE  /\ Tail(inbox[e]) \in Seq({"char", "dgram", "fd"})
           /\ Len(Tail(inbox[e])) = Len(inbox[e]) - 1
  BY HeadTailProperties DEF TypeInv

\* Init satisfies the invariant.
LEMMA InitInv == Init => IInv
  <1> SUFFICES ASSUME Init PROVE IInv
    OBVIOUS
  <1> USE SocketTestsAssumption
  <1>1. TypeInv
    BY EmptySeq DEF Init, TypeInv, Proc, End, None
  <1>2. PlaceInv
    BY <1>1 DEF Init, PlaceInv, Proc, LastServer, TypeInv
  <1>3. RunnerInv /\ StreamInv
    BY DEF Init, RunnerInv, StreamInv, Proc, End, ClientToCome
  <1> QED
    BY <1>1, <1>2, <1>3 DEF IInv
-------------------------------------------------------------------------------
(* Every step preserves the invariant.                                       *)

\* setUpFork, in both processes, and what may come of execvp.
LEMMA SetUpStep ==
    ASSUME IInv,
           Fork \/ RunnerSetUp \/ ChildSetUp \/ Exec \/ ExecInVain \/ ExecFailure
    PROVE  IInv'
  <1> USE SocketTestsAssumption DEF IInv
  <1>1. TypeInv'
    <2>1. CASE Fork
      BY <2>1 DEF TypeInv, Fork
    <2>2. CASE RunnerSetUp
      BY <2>2 DEF TypeInv, RunnerSetUp, RunnerHolds, Proceed, Proc, End
    <2>3. CASE ChildSetUp
      BY <2>3 DEF TypeInv, ChildSetUp, End
    <2>4. CASE Exec
      BY <2>4 DEF TypeInv, Exec, Proceed, Proc, socketVars
    <2>5. CASE ExecInVain
      BY <2>5 DEF TypeInv, ExecInVain, Ends, Proc, End
    <2>6. CASE ExecFailure
      BY <2>6 DEF TypeInv, ExecFailure, Proceed, Proc, socketVars
    <2> QED
      BY <2>1, <2>2, <2>3, <2>4, <2>5, <2>6
  <1>2. /\ test' = test /\ test \in {"srpc", "shm", "stream", "dgram"}
        /\ at["runner"] \in Nat /\ at["child"] \in Nat
        /\ UNCHANGED <<shut, inbox, got>>
    BY DEF TypeInv, Fork, RunnerSetUp, ChildSetUp, Exec, ExecInVain, ExecFailure,
           socketVars, Proc
  <1>3. CASE Fork
    <2>1. /\ image = "unborn" /\ image' = "fork"
          /\ UNCHANGED <<at, state, serverFd>>
          /\ holds'[0] = Proc /\ holds'[1] = Proc
      BY <1>3 DEF Fork, End
    <2>2. PlaceInv' /\ RunnerInv'
      BY <1>2, <2>1 DEF PlaceInv, RunnerInv, ClientToCome
    <2>3. StreamInv'
      BY <1>2, <2>1 DEF StreamInv, ClientToCome, Proc
    <2> QED
      BY <1>1, <2>2, <2>3
  <1>4. CASE RunnerSetUp
    <2>1. /\ image # "unborn" /\ at["runner"] = 0
          /\ at'["runner"] = 1 /\ at'["child"] = at["child"]
          /\ serverFd'["runner"] = 1
          /\ UNCHANGED <<image, state>>
          /\ holds'[1] = holds[1]
          /\ "child" \in holds[0] => "child" \in holds'[0]
      BY <1>4 DEF RunnerSetUp, RunnerHolds, Proceed, TypeInv, Proc, End
    <2>2. PlaceInv' /\ RunnerInv'
      BY <1>2, <2>1 DEF PlaceInv, RunnerInv, ClientToCome, LastServer
    <2>3. StreamInv'
      BY <1>2, <2>1 DEF StreamInv, ClientToCome
    <2> QED
      BY <1>1, <2>2, <2>3
  <1>5. CASE ChildSetUp
    <2>1. /\ UNCHANGED <<at, state, serverFd, image>>
          /\ holds'[0] = holds[0]
          /\ "runner" \in holds[1] => "runner" \in holds'[1]
      BY <1>5 DEF ChildSetUp, TypeInv, End
    <2>2. PlaceInv' /\ RunnerInv'
      BY <1>2, <2>1 DEF PlaceInv, RunnerInv, ClientToCome
    <2>3. StreamInv'
      BY <1>2, <2>1 DEF StreamInv, ClientToCome
    <2> QED
      BY <1>1, <2>2, <2>3
  <1>6. CASE Exec
    <2>1. /\ image = "fork" /\ image' = "client"
          /\ at'["runner"] = at["runner"] /\ at'["child"] = at["child"] + 1
          /\ UNCHANGED <<state, serverFd, holds>>
      BY <1>6 DEF Exec, Proceed, TypeInv, Proc, socketVars
    <2>2. at'["child"] = 1
      BY <1>2, <2>1 DEF PlaceInv
    <2>3. PlaceInv' /\ RunnerInv'
      BY <1>2, <2>1, <2>2 DEF PlaceInv, RunnerInv, ClientToCome, LastClient
    <2>4. StreamInv'
      BY <1>2, <2>1, <2>2 DEF StreamInv, ClientToCome
    <2> QED
      BY <1>1, <2>3, <2>4
  <1>7. CASE ExecInVain
    <2>1. image' = "sandbox" /\ UNCHANGED <<at, serverFd>>
      BY <1>7 DEF ExecInVain
    <2> QED
      BY <1>1, <1>2, <2>1, <1>7
         DEF PlaceInv, RunnerInv, StreamInv, ClientToCome
  <1>8. CASE ExecFailure
    <2>1. /\ image = "fork" /\ image' = "server"
          /\ at'["runner"] = at["runner"] /\ at'["child"] = at["child"] + 1
          /\ serverFd'["runner"] = serverFd["runner"]
      BY <1>8 DEF ExecFailure, Proceed, TypeInv, Proc, socketVars
    <2>2. PlaceInv'
      BY <1>2, <2>1 DEF PlaceInv, LastServer
    <2> QED
      BY <1>1, <1>2, <2>1, <2>2 DEF RunnerInv, StreamInv, ClientToCome
  <1> QED
    BY <1>3, <1>4, <1>5, <1>6, <1>7, <1>8

\* The server's code, wherever it runs, keeps every variable in its type and
\* stays inside the code.
LEMMA ServerType ==
    ASSUME IInv, NEW p \in Proc, ServerStep(p)
    PROVE  TypeInv' /\ PlaceInv'
  <1> USE SocketTestsAssumption DEF IInv
  <1>1. UNCHANGED <<test, image, serverFd>>
    BY DEF ServerStep, ServerSend, ServerShutdown, ServerClose, ServerReceive,
           ServerWait
  <1>2. /\ \/ UNCHANGED at
           \/ at' = [at EXCEPT ![p] = @ + 1] /\ at[p] + 1 <= LastServer[test]
        /\ Serves(p)
    <2>1. ASSUME NEW s \in {"send", "shutdown", "close", "receive"}, AtServer(p, s)
          PROVE  at[p] + 1 <= LastServer[test] /\ Serves(p)
      BY <2>1, ServerTable DEF AtServer, LastServer
    <2>2. CASE UNCHANGED at
      BY <2>2 DEF ServerStep, ServerSend, ServerShutdown, ServerClose,
                  ServerReceive, ServerWait, AtServer
    <2>3. CASE ~UNCHANGED at
      <3>1. Proceed(p) /\ \E s \in {"send", "shutdown", "close", "receive"} :
              AtServer(p, s)
        BY <2>3 DEF ServerStep, ServerSend, ServerShutdown, ServerClose,
                    ServerReceive, ServerWait
      <3> QED
        BY <2>1, <3>1 DEF Proceed
    <2> QED
      BY <2>2, <2>3
  <1>3. PlaceInv'
    BY <1>1, <1>2 DEF PlaceInv, TypeInv, Serves, Proc
  <1>4. /\ state' \in [Proc -> {"running", "exited", "aborted", "killed"}]
        /\ holds' \in [End -> SUBSET Proc]
    <2>1. \/ state' = state
          \/ \E how \in {"exited", "aborted", "killed"} : Ends(p, how)
      BY DEF ServerStep, ServerSend, ServerShutdown, ServerClose, ServerReceive,
             ServerWait, Ends
    <2>2. \/ holds' = holds
          \/ holds' = [e \in End |-> holds[e] \ {p}]
          \/ holds' = [holds EXCEPT ![serverFd[p]] = @ \ {p}]
      BY DEF ServerStep, ServerSend, ServerShutdown, ServerClose, ServerReceive,
             ServerWait, Ends
    <2>3. state' \in [Proc -> {"running", "exited", "aborted", "killed"}]
      BY <2>1 DEF Ends, TypeInv
    <2>4. holds' \in [End -> SUBSET Proc]
      BY <2>2 DEF TypeInv
    <2> QED
      BY <2>3, <2>4
  <1>5. got' = got /\ at' \in [Proc -> Nat] /\ shut' \subseteq End
    <2>1. /\ got' = got
          /\ \/ shut' = shut
             \/ shut' = shut \cup ShutBy(serverFd[p]) /\ serverFd[p] # None
      BY DEF ServerStep, ServerSend, ServerShutdown, ServerClose, ServerReceive,
             ServerWait
    <2>2. shut' \subseteq End
      BY <2>1 DEF ShutBy, TypeInv, End
    <2>3. at' \in [Proc -> Nat]
      BY <1>2 DEF TypeInv
    <2> QED
      BY <2>1, <2>2, <2>3
  <1>6. inbox' \in [End -> Seq({"char", "dgram", "fd"})]
    <2>1. ASSUME NEW e \in End, NEW q \in Seq({"char", "dgram", "fd"}),
                 inbox' = [inbox EXCEPT ![e] = @ \o q]
          PROVE  inbox' \in [End -> Seq({"char", "dgram", "fd"})]
      BY <2>1, ConcatProperties DEF TypeInv
    <2>2. CASE ServerSend(p)
      <3>1. /\ [i \in 1..Chars |-> "char"] \in Seq({"char", "dgram", "fd"})
            /\ <<"dgram">> \in Seq({"char", "dgram", "fd"})
        OBVIOUS
      <3>2. Peer(serverFd[p]) \in End \/ serverFd[p] = None
        BY DEF TypeInv, Peer, End, None
      <3> QED
        BY <2>1, <2>2, <3>1, <3>2 DEF ServerSend, TypeInv
    <2>3. CASE ServerReceive(p)
      <3>1. serverFd[p] \in End \/ serverFd[p] = None
        BY DEF TypeInv, End
      <3>2. CASE UNCHANGED inbox
        BY <3>2 DEF TypeInv
      <3>3. CASE ~UNCHANGED inbox
        <4>1. /\ serverFd[p] \in End /\ inbox[serverFd[p]] # <<>>
              /\ inbox' = [inbox EXCEPT ![serverFd[p]] = Tail(@)]
          BY <2>3, <3>1, <3>3 DEF ServerReceive
        <4> QED
          BY <4>1, TakenOut DEF TypeInv
      <3> QED
        BY <3>2, <3>3
    <2> QED
      BY <2>2, <2>3 DEF ServerStep, ServerShutdown, ServerClose, ServerWait, TypeInv
  <1> QED
    BY <1>1, <1>3, <1>4, <1>5, <1>6 DEF TypeInv
\* The runner does not write to a client that is gone while one is to come, and
\* no step of its but the shutdown and the close ends the stream.
LEMMA RunnerStepInv ==
    ASSUME IInv, ServerStep("runner")
    PROVE  RunnerInv' /\ StreamInv'
  <1> USE SocketTestsAssumption DEF IInv
  <1>1. /\ test' = test /\ image' = image /\ serverFd' = serverFd
        /\ at["runner"] > 0 /\ at["runner"] \in Nat /\ at["child"] \in Nat
    BY DEF ServerStep, ServerSend, ServerShutdown, ServerClose, ServerReceive,
           ServerWait, AtServer, TypeInv, Proc
  <1>2. serverFd["runner"] = 1 /\ image # "unborn"
    BY <1>1 DEF RunnerInv
  <1>3. CASE ServerSend("runner")
    <2>1. test \in {"stream", "dgram"} /\ at["runner"] = 1
      BY <1>3, ServerTable DEF ServerSend, Proc
    <2>2. CASE test = "dgram"
      <3>1. state' = state /\ at'["runner"] = 2
        BY <1>3, <2>1, <2>2 DEF ServerSend, Proceed, TypeInv, Proc
      <3> QED
        BY <1>1, <1>2, <2>2, <3>1 DEF RunnerInv, StreamInv, ClientToCome
    <2>3. CASE test = "stream" /\ ~ClientToCome
      <3>1. at'["runner"] > 0
        <4>1. UNCHANGED at \/ Proceed("runner")
          BY <1>3 DEF ServerSend
        <4> QED
          BY <2>1, <4>1 DEF Proceed, TypeInv, Proc
      <3> QED
        BY <1>1, <1>2, <2>3, <3>1 DEF RunnerInv, StreamInv, ClientToCome
    <2>4. CASE test = "stream" /\ ClientToCome
      <3>1. Sendable(1) /\ inbox[0] = <<>> /\ got = 0
        BY <1>2, <2>1, <2>4 DEF StreamInv, Sendable, Peer
      <3>2. /\ inbox' = [inbox EXCEPT ![0] = @ \o [i \in 1..Chars |-> "char"]]
            /\ at'["runner"] = 2 /\ at'["child"] = at["child"]
            /\ UNCHANGED <<state, holds, shut, got>>
        BY <1>2, <1>3, <2>1, <2>4, <3>1
           DEF ServerSend, Proceed, Peer, None, TypeInv, Proc
      <3>3. Len(inbox'[0]) = Chars
        <4>1. [i \in 1..Chars |-> "char"] \in Seq({"char"})
              /\ Len([i \in 1..Chars |-> "char"]) = Chars
          OBVIOUS
        <4>2. inbox'[0] = <<>> \o [i \in 1..Chars |-> "char"]
          BY <3>1, <3>2 DEF TypeInv, End
        <4> QED
          BY <4>1, <4>2
      <3>4. RunnerInv'
        BY <1>1, <1>2, <3>2 DEF RunnerInv, ClientToCome
      <3>5. StreamInv'
        BY <1>1, <1>2, <2>1, <2>4, <3>1, <3>2, <3>3 DEF StreamInv, ClientToCome
      <3> QED
        BY <3>4, <3>5
    <2> QED
      BY <2>1, <2>2, <2>3, <2>4
  <1>4. CASE ServerShutdown("runner")
    <2>1. test \in {"stream", "dgram"} /\ at["runner"] = 2
      BY <1>4, ServerTable DEF ServerShutdown, Proc
    <2>2. at'["runner"] = 3 /\ at'["child"] = at["child"]
          /\ UNCHANGED <<state, holds, inbox, got>>
      BY <1>2, <1>4, <2>1 DEF ServerShutdown, Proceed, None, TypeInv, Proc
    <2> QED
      BY <1>1, <1>2, <2>1, <2>2 DEF RunnerInv, StreamInv, ClientToCome
  <1>5. CASE ServerClose("runner")
    <2>1. test \in {"stream", "dgram"} /\ at["runner"] = 3
      BY <1>5, ServerTable DEF ServerClose, Proc
    <2>2. at'["runner"] = 4 /\ at'["child"] = at["child"]
          /\ UNCHANGED <<state, inbox, got>>
      BY <1>5, <2>1 DEF ServerClose, Proceed, TypeInv, Proc
    <2> QED
      BY <1>1, <1>2, <2>1, <2>2 DEF RunnerInv, StreamInv, ClientToCome
  <1>6. CASE ServerReceive("runner")
    <2>1. test # "stream" /\ at["runner"] = 1
      BY <1>6, ServerTable DEF ServerReceive, Proc
    <2>2. at'["runner"] = 2 /\ state' = state
      BY <1>6, <2>1 DEF ServerReceive, Proceed, TypeInv, Proc
    <2> QED
      BY <1>1, <1>2, <2>1, <2>2 DEF RunnerInv, StreamInv, ClientToCome
  <1>7. CASE ServerWait("runner")
    <2>1. at["runner"] = LastServer[test] /\ LastServer[test] > 1
          /\ (test = "stream" => LastServer[test] = 4)
      BY <1>7, ServerTable DEF ServerWait, Proc, LastServer, TypeInv
    <2>2. state'["runner"] = "exited" /\ UNCHANGED <<at, inbox, got>>
      BY <1>7 DEF ServerWait, Ends, TypeInv, Proc
    <2> QED
      BY <1>1, <1>2, <2>1, <2>2 DEF RunnerInv, StreamInv, ClientToCome
  <1> QED
    BY <1>3, <1>4, <1>5, <1>6, <1>7 DEF ServerStep

\* A child that failed to exec runs no client.
LEMMA ServingChildInv ==
    ASSUME IInv, ServerStep("child")
    PROVE  RunnerInv' /\ StreamInv'
  <1> USE SocketTestsAssumption DEF IInv
  <1>1. image = "server" /\ image' = image /\ serverFd' = serverFd
    BY DEF ServerStep, ServerSend, ServerShutdown, ServerClose, ServerReceive,
           ServerWait, AtServer, Serves
  <1>2. at'["runner"] = at["runner"]
    BY DEF ServerStep, ServerSend, ServerShutdown, ServerClose, ServerReceive,
           ServerWait, Proceed, TypeInv, Proc
  <1> QED
    BY <1>1, <1>2 DEF RunnerInv, StreamInv, ClientToCome

\* The client's steps: it reads on until the stream ends, and the stream does not
\* end before the runner has written.
LEMMA ClientStepInv ==
    ASSUME IInv,
           \/ ClientSend \/ ClientCreate \/ ClientGivesUp
           \/ ClientReceive \/ ClientRead \/ ClientClose \/ ClientExit
    PROVE  IInv'
  <1> USE SocketTestsAssumption DEF IInv
  <1>1. /\ image = "client" /\ at["runner"] \in Nat /\ at["child"] \in Nat
        /\ UNCHANGED <<test, image, serverFd, shut>>
    BY DEF ClientSend, ClientCreate, ClientGivesUp, ClientReceive, ClientRead,
           ClientClose, ClientExit, AtClient, socketVars, TypeInv, Proc
  <1>2. CASE ClientRead
    <2>1. test = "stream" /\ at["child"] = 1
      BY <1>2, ClientTable DEF ClientRead
    <2>2. UNCHANGED <<state, holds>>
      BY <1>2 DEF ClientRead
    <2>3. CASE inbox[0] # <<>>
      <3>1. /\ inbox' = [inbox EXCEPT ![0] = Tail(@)] /\ got' = got + 1
            /\ UNCHANGED at
        BY <1>2, <2>3 DEF ClientRead, AtEof, ReadsOn
      <3>2. /\ inbox'[0] = Tail(inbox[0])
            /\ Tail(inbox[0]) \in Seq({"char", "dgram", "fd"})
            /\ Len(Tail(inbox[0])) = Len(inbox[0]) - 1
            /\ Len(inbox[0]) \in Nat
        BY <2>3, <3>1, TakenOut, LenProperties DEF TypeInv, End
      <3>3. TypeInv'
        BY <1>1, <2>2, <3>1, <3>2 DEF TypeInv, End
      <3>4. PlaceInv' /\ RunnerInv'
        BY <1>1, <2>2, <3>1 DEF PlaceInv, RunnerInv, ClientToCome
      <3>5. StreamInv'
        <4>1. at["runner"] > 1 /\ Len(inbox[0]) + got = Chars
          BY <1>1, <2>1, <2>3 DEF StreamInv, ClientToCome
        <4>2. Len(inbox'[0]) + got' = Chars
          <5> DEFINE left == Len(inbox[0])
                     now == Len(inbox'[0])
          <5>1. /\ left \in Nat /\ now = left - 1 /\ got' = got + 1
                /\ got \in Nat /\ left + got = Chars
            BY <3>1, <3>2, <4>1 DEF TypeInv
          <5> HIDE DEF left, now
          <5>2. now + got' = Chars
            BY <5>1
          <5> QED
            BY <5>2 DEF now
        <4> QED
          BY <1>1, <2>1, <2>2, <3>1, <4>1, <4>2 DEF StreamInv, ClientToCome
      <3> QED
        BY <3>3, <3>4, <3>5
    <2>4. CASE inbox[0] = <<>>
      <3>1. AtEof(0) /\ Proceed("child") /\ UNCHANGED <<inbox, got>>
        BY <1>2, <2>4 DEF ClientRead
      <3>2. at["runner"] > 2
        BY <1>1, <2>1, <3>1 DEF AtEof, Peer, StreamInv, ClientToCome
      <3>3. at'["child"] = 2 /\ at'["runner"] = at["runner"] /\ at' \in [Proc -> Nat]
        BY <2>1, <3>1 DEF Proceed, TypeInv, Proc
      <3>4. TypeInv'
        BY <1>1, <2>2, <3>1, <3>3 DEF TypeInv
      <3>5. PlaceInv' /\ RunnerInv'
        BY <1>1, <2>1, <2>2, <3>3 DEF PlaceInv, RunnerInv, ClientToCome, LastClient
      <3>6. StreamInv'
        BY <1>1, <2>1, <2>2, <2>4, <3>1, <3>2, <3>3 DEF StreamInv, ClientToCome
      <3> QED
        BY <3>4, <3>5, <3>6
    <2> QED
      BY <2>3, <2>4
  <1>3. CASE ClientClose
    <2>1. test = "stream" /\ at["child"] = 2
      BY <1>3, ClientTable DEF ClientClose
    <2>2. /\ UNCHANGED <<state, inbox, got>> /\ holds'[1] = holds[1]
          /\ holds' \in [End -> SUBSET Proc] /\ at' \in [Proc -> Nat]
          /\ at'["child"] = 3 /\ at'["runner"] = at["runner"]
      BY <1>3, <2>1 DEF ClientClose, Proceed, TypeInv, Proc, End
    <2>3. TypeInv' /\ PlaceInv' /\ RunnerInv'
      BY <1>1, <2>1, <2>2 DEF TypeInv, PlaceInv, RunnerInv, ClientToCome, LastClient
    <2>4. StreamInv'
      BY <1>1, <2>1, <2>2 DEF StreamInv, ClientToCome
    <2> QED
      BY <2>3, <2>4
  <1>4. CASE ClientExit
    <2>1. /\ UNCHANGED <<at, inbox, got>>
          /\ state'["runner"] = state["runner"]
          /\ "runner" \in holds[1] => "runner" \in holds'[1]
          /\ state' \in [Proc -> {"running", "exited", "aborted", "killed"}]
          /\ holds' \in [End -> SUBSET Proc]
      BY <1>4 DEF ClientExit, Ends, TypeInv, Proc, End
    <2>2. test = "stream" => at["child"] = 3
      BY <1>4, ClientTable DEF ClientExit, LastClient
    <2>3. TypeInv' /\ PlaceInv' /\ RunnerInv'
      BY <1>1, <2>1 DEF TypeInv, PlaceInv, RunnerInv, ClientToCome
    <2>4. StreamInv'
      BY <1>1, <2>1, <2>2 DEF StreamInv, ClientToCome
    <2> QED
      BY <2>3, <2>4
  <1>5. CASE ClientSend \/ ClientCreate \/ ClientGivesUp \/ ClientReceive
    <2>1. test # "stream" /\ at["child"] < LastClient[test]
      BY <1>5, ClientTable DEF ClientSend, ClientCreate, ClientGivesUp, ClientReceive
    <2>2. UNCHANGED at \/ at' = [at EXCEPT !["child"] = @ + 1]
      BY <1>5 DEF ClientSend, ClientCreate, ClientGivesUp, ClientReceive, Proceed
    <2>3. UNCHANGED <<state, holds>> \/ Ends("child", "exited")
      BY <1>5 DEF ClientSend, ClientCreate, ClientGivesUp, ClientReceive, socketVars
    <2>4. /\ state' \in [Proc -> {"running", "exited", "aborted", "killed"}]
          /\ holds' \in [End -> SUBSET Proc]
          /\ state'["runner"] = state["runner"]
      BY <2>3 DEF Ends, TypeInv, Proc
    <2>5. /\ at' \in [Proc -> Nat] /\ at'["runner"] = at["runner"]
          /\ at'["child"] \in {at["child"], at["child"] + 1}
      BY <2>2 DEF TypeInv, Proc
    <2>6. inbox' \in [End -> Seq({"char", "dgram", "fd"})] /\ got' \in Nat
      <3>1. CASE ClientSend
        <4>1. Append(inbox[1], "fd") \in Seq({"char", "dgram", "fd"})
          BY AppendProperties DEF TypeInv, End
        <4> QED
          BY <3>1, <4>1 DEF ClientSend, TypeInv
      <3>2. CASE ClientReceive
        <4>1. 0 \in End
          BY DEF End
        <4>2. \/ UNCHANGED <<inbox, got>>
              \/ /\ inbox[0] # <<>> /\ got' = got + 1
                 /\ inbox' = [inbox EXCEPT ![0] = Tail(@)]
          BY <3>2 DEF ClientReceive
        <4>3. inbox[0] # <<>> => Tail(inbox[0]) \in Seq({"char", "dgram", "fd"})
          BY <4>1, TakenOut
        <4>4. got' \in Nat
          BY <4>2 DEF TypeInv
        <4>5. inbox' \in [End -> Seq({"char", "dgram", "fd"})]
          BY <4>1, <4>2, <4>3 DEF TypeInv
        <4> QED
          BY <4>4, <4>5
      <3>3. CASE ClientCreate \/ ClientGivesUp
        BY <3>3 DEF ClientCreate, ClientGivesUp, socketVars, TypeInv
      <3> QED
        BY <1>5, <3>1, <3>2, <3>3
    <2>7. TypeInv'
      BY <1>1, <2>4, <2>5, <2>6 DEF TypeInv
    <2>8. LastClient[test] \in Nat
      BY DEF LastClient, TypeInv
    <2>9. PlaceInv' /\ RunnerInv' /\ StreamInv'
      BY <1>1, <2>1, <2>4, <2>5, <2>8 DEF PlaceInv, RunnerInv, StreamInv, ClientToCome
    <2> QED
      BY <2>7, <2>9
  <1> QED
    BY <1>2, <1>3, <1>4, <1>5

\* The invariant holds in every state the experiments reach.
THEOREM Inductive == Spec => []IInv
  <1>1. IInv /\ [Next]_vars => IInv'
    <2> SUFFICES ASSUME IInv, [Next]_vars PROVE IInv'
      OBVIOUS
    <2>1. ASSUME NEW p \in Proc, ServerStep(p) PROVE IInv'
      BY <2>1, ServerType, RunnerStepInv, ServingChildInv DEF IInv, Proc
    <2>2. CASE UNCHANGED vars
      BY <2>2 DEF vars, socketVars, IInv, TypeInv, PlaceInv, RunnerInv, StreamInv,
                  ClientToCome
    <2> QED
      BY <2>1, <2>2, SetUpStep, ClientStepInv DEF Next, RunnerStep, ChildStep, Proc
  <1> QED
    BY <1>1, InitInv, PTL DEF Spec

-------------------------------------------------------------------------------
(* The properties.                                                           *)

\* The client reads the whole message though the runner shuts the socket down and
\* closes it right after writing, whatever the length (runner.cc:285-297).
THEOREM NothingLost == Spec => []WholeMessageRead
  <1>1. IInv => WholeMessageRead
    <2> SUFFICES ASSUME IInv, test = "stream", NEW s \in {"close", "exit"}, AtClient(s)
                 PROVE  got = Chars
      BY DEF WholeMessageRead
    <2>1. at["child"] > 1 /\ image = "client"
      BY ClientTable DEF IInv, AtClient, LastClient
    <2>2. inbox[0] = <<>> /\ at["runner"] > 1
      BY <2>1 DEF IInv, StreamInv, ClientToCome, TypeInv, Proc
    <2> QED
      BY <2>1, <2>2 DEF IInv, StreamInv, ClientToCome, TypeInv
  <1> QED
    BY <1>1, Inductive, PTL

\* No write kills the runner and no assertion on its calls stops it when the
\* client runs (runner.cc:117-140, 285-297).
THEOREM RunnerIsSafe == Spec => []RunnerSurvives
  <1>1. IInv => RunnerSurvives
    BY DEF IInv, RunnerInv, ClientToCome, RunnerSurvives
  <1> QED
    BY <1>1, Inductive, PTL
===============================================================================
