------------------------------ MODULE SocketTests ------------------------------
(***************************************************************************)
(* The programs at the top of the repository, each an experiment with one   *)
(* socket: runner.cc makes a socket pair, forks, and executes a sandbox that *)
(* runs message_test_client.cc or internal_nacl_client.cc on the other end.  *)
(* Which experiment is compiled in is `test':                               *)
(*   "srpc"    the sandbox sends the socket it listens on;                   *)
(*   "shm"     the client sends a memory object and waits for answers;       *)
(*   "stream"  the runner sends characters and shuts the socket down;        *)
(*   "dgram"   the runner sends one datagram.                                *)
(*                                                                         *)
(* Ends are those of AF_UNIX pairs: 0 is the client's, 1 the runner's.  An   *)
(* end is open as long as some process holds it.  A child whose execvp fails *)
(* returns from setUpFork as if it were the runner, with a descriptor nobody  *)
(* set.                                                                     *)
(***************************************************************************)
EXTENDS Integers, Sequences

CONSTANTS
    Test,       \* the experiments
    Chars,      \* characters of "Hello world!\n"
    ExecFails,  \* the execvp of the sandbox may fail
    LoadFails   \* the sandbox may exit without running the client

ASSUME SocketTestsAssumption ==
    /\ Test \subseteq {"srpc", "shm", "stream", "dgram"}
    /\ Chars \in Nat \ {0}
    /\ {ExecFails, LoadFails} \subseteq BOOLEAN

Proc == {"runner", "child"}
End == {0, 1}
None == -1
Peer(e) == 1 - e

VARIABLES
    test,      \* the experiment
    at,        \* where each process is in the code it runs
    image,     \* what runs in the child: "unborn", "fork", "sandbox" without a
               \* client, "client" or "server"
    state,     \* of each process: "running", "exited", "aborted" or "killed"
    serverFd,  \* the end each process takes for server_fd
    holds,     \* the processes that hold each end
    shut,      \* ends whose connection has been shut down
    inbox,     \* what each end has still to receive
    got        \* what the client has received

socketVars == <<holds, shut, inbox>>
vars == <<test, at, image, state, serverFd, socketVars, got>>

-------------------------------------------------------------------------------
\* What the server does, and what the client does, from first to last.
ServerSteps_Early ==
    [srpc   |-> <<"receive", "wait">>,
     shm    |-> <<"receive", "wait">>,
     stream |-> <<"shutdown", "send", "close", "wait">>,
     dgram  |-> <<"shutdown", "send", "close", "wait">>]
ServerSteps ==
    [srpc   |-> <<"receive", "wait">>,
     shm    |-> <<"receive", "wait">>,
     stream |-> <<"send", "shutdown", "close", "wait">>,
     dgram  |-> <<"send", "shutdown", "close", "wait">>]

ClientSteps ==
    [srpc   |-> <<"export", "exit">>,
     shm    |-> <<"create", "send", "receive", "receive", "exit">>,
     stream |-> <<"read", "close", "exit">>,
     dgram  |-> <<"receive", "exit">>]

Connected == test # "dgram"

\* The processes that run the server's code, and where they are in it.
Serves(p) == p = "runner" \/ image = "server"
AtServer(p, s) ==
    /\ state[p] = "running" /\ Serves(p)
    /\ at[p] > 0 /\ ServerSteps[test][at[p]] = s
AtClient(s) ==
    /\ state["child"] = "running" /\ image = "client"
    /\ ClientSteps[test][at["child"]] = s

Proceed(p) == at' = [at EXCEPT ![p] = @ + 1]

\* Process p ends, and with it its hold on the ends.
Ends(p, how) ==
    /\ state' = [state EXCEPT ![p] = how]
    /\ holds' = [e \in End |-> holds[e] \ {p}]

\* A send on e arrives.
Sendable(e) ==
    /\ holds[Peer(e)] # {}
    /\ e \notin shut

\* A receive on e finds the end of the stream.  A datagram socket has none.
AtEof(e) ==
    /\ inbox[e] = <<>>
    /\ Connected
    /\ e \in shut \/ holds[Peer(e)] = {}

\* shutdown with SHUT_RDWR reaches the peer of a connected socket.
ShutBy(e) == IF Connected THEN End ELSE {e}

\* setUpFork in the runner: close(fds[0]).
RunnerHolds_Both == holds
RunnerHolds == [holds EXCEPT ![0] = @ \ {"runner"}]

\* readAllChars goes on after a character that is no NUL; none is.
ReadsOn_Once == FALSE
ReadsOn == TRUE

Init ==
    /\ test \in Test
    /\ at = [p \in Proc |-> 0]
    /\ image = "unborn"
    /\ state = [p \in Proc |-> "running"]
    /\ serverFd = [p \in Proc |-> None]
    /\ holds = [e \in End |-> {"runner"}]
    /\ shut = {}
    /\ inbox = [e \in End |-> <<>>]
    /\ got = 0

-------------------------------------------------------------------------------
(* setUpFork.                                                                *)

Fork ==
    /\ image = "unborn"
    /\ image' = "fork"
    /\ holds' = [e \in End |-> Proc]
    /\ UNCHANGED <<test, at, state, serverFd, shut, inbox, got>>

\* The runner closes the client's end and goes on to its test with the other.
RunnerSetUp ==
    /\ image # "unborn"
    /\ at["runner"] = 0
    /\ holds' = RunnerHolds
    /\ serverFd' = [serverFd EXCEPT !["runner"] = 1]
    /\ Proceed("runner")
    /\ UNCHANGED <<test, image, state, shut, inbox, got>>

\* The child closes the runner's end.
ChildSetUp ==
    /\ image = "fork"
    /\ "child" \in holds[1]
    /\ holds' = [holds EXCEPT ![1] = @ \ {"child"}]
    /\ UNCHANGED <<test, at, image, state, serverFd, shut, inbox, got>>

\* execvp, up to the first step of the client.
Exec ==
    /\ image = "fork"
    /\ "child" \notin holds[1]
    /\ image' = "client"
    /\ Proceed("child")
    /\ UNCHANGED <<test, state, serverFd, socketVars, got>>

\* The sandbox comes up, but not the client.
ExecInVain ==
    /\ LoadFails
    /\ image = "fork"
    /\ "child" \notin holds[1]
    /\ image' = "sandbox"
    /\ Ends("child", "exited")
    /\ UNCHANGED <<test, at, serverFd, shut, inbox, got>>

\* execvp returns, and so does setUpFork.  server_fd is -1 in the "srpc" test
\* and not initialised in the others, where it may name the end the child has.
ExecFailure ==
    /\ ExecFails
    /\ image = "fork"
    /\ "child" \notin holds[1]
    /\ image' = "server"
    /\ \E e \in IF test = "srpc" THEN {None} ELSE {None, 0} :
         serverFd' = [serverFd EXCEPT !["child"] = e]
    /\ Proceed("child")
    /\ UNCHANGED <<test, state, socketVars, got>>

-------------------------------------------------------------------------------
(* The server's code, in the runner or in a child that failed to exec.       *)

\* write of all the characters, which an assertion checks and which is the end
\* of a process that has no reader; or sendDgram, which goes on in any case.
ServerSend(p) ==
    LET e == serverFd[p] IN
    /\ AtServer(p, "send")
    /\ \/ /\ e # None /\ Sendable(e)
          /\ inbox' = [inbox EXCEPT ![Peer(e)] =
                         @ \o IF test = "stream" THEN [i \in 1..Chars |-> "char"]
                              ELSE <<"dgram">>]
          /\ Proceed(p)
          /\ UNCHANGED <<state, holds>>
       \/ /\ test = "stream" /\ (e # None => ~Sendable(e))
          /\ Ends(p, IF e = None THEN "aborted" ELSE "killed")
          /\ UNCHANGED <<at, inbox>>
       \/ /\ test = "dgram" /\ (e # None => ~Sendable(e))
          /\ Proceed(p)
          /\ UNCHANGED <<state, holds, inbox>>
    /\ UNCHANGED <<test, image, serverFd, shut, got>>

ServerShutdown(p) ==
    LET e == serverFd[p] IN
    /\ AtServer(p, "shutdown")
    /\ \/ /\ e # None
          /\ shut' = shut \cup ShutBy(e)
          /\ Proceed(p)
          /\ UNCHANGED <<state, holds>>
       \/ /\ e = None
          /\ Ends(p, "aborted")
          /\ UNCHANGED <<at, shut>>
    /\ UNCHANGED <<test, image, serverFd, inbox, got>>

ServerClose(p) ==
    /\ AtServer(p, "close")
    /\ holds' = [holds EXCEPT ![serverFd[p]] = @ \ {p}]
    /\ Proceed(p)
    /\ UNCHANGED <<test, image, state, serverFd, shut, inbox, got>>

\* One recvmsg, whatever comes of it: setUpSrpc and sharedMemoryTest.
ServerReceive(p) ==
    LET e == serverFd[p] IN
    /\ AtServer(p, "receive")
    /\ \/ /\ e # None /\ inbox[e] # <<>>
          /\ inbox' = [inbox EXCEPT ![e] = Tail(@)]
       \/ /\ e # None => AtEof(e)
          /\ UNCHANGED inbox
    /\ Proceed(p)
    /\ UNCHANGED <<test, image, state, serverFd, holds, shut, got>>

\* waitpid and the end of main.  The child has no child to wait for.
ServerWait(p) ==
    /\ AtServer(p, "wait")
    /\ p = "runner" => state["child"] # "running"
    /\ Ends(p, "exited")
    /\ UNCHANGED <<test, at, image, serverFd, shut, inbox, got>>

-------------------------------------------------------------------------------
(* The client, and the sandbox around it.                                    *)

\* sel_ldr -X sends the address it listens on; the shared memory test sends the
\* object it made, by a send_message without a return: the test may go on or give
\* up, and neither tells whether anything was sent.
ClientSend ==
    /\ AtClient("export") \/ AtClient("send")
    /\ \/ /\ Sendable(0)
          /\ inbox' = [inbox EXCEPT ![1] = Append(@, "fd")]
       \/ /\ AtClient("send")
          /\ UNCHANGED inbox
    /\ \/ /\ Proceed("child")
          /\ UNCHANGED <<state, holds>>
       \/ /\ AtClient("send")
          /\ Ends("child", "exited")
          /\ UNCHANGED at
    /\ UNCHANGED <<test, image, serverFd, shut, got>>

ClientCreate ==
    /\ AtClient("create")
    /\ Proceed("child")
    /\ UNCHANGED <<test, image, state, serverFd, socketVars, got>>

\* There is no memory object.
ClientGivesUp ==
    /\ AtClient("create")
    /\ Ends("child", "exited")
    /\ UNCHANGED <<test, at, image, serverFd, shut, inbox, got>>

\* receive_message, whose result goes unused but for a message.
ClientReceive ==
    /\ AtClient("receive")
    /\ \/ /\ inbox[0] # <<>>
          /\ inbox' = [inbox EXCEPT ![0] = Tail(@)]
          /\ got' = got + 1
       \/ /\ AtEof(0)
          /\ UNCHANGED <<inbox, got>>
    /\ Proceed("child")
    /\ UNCHANGED <<test, image, state, serverFd, holds, shut>>

\* One turn of the loop of readAllChars.
ClientRead ==
    /\ AtClient("read")
    /\ \/ /\ inbox[0] # <<>>
          /\ inbox' = [inbox EXCEPT ![0] = Tail(@)]
          /\ got' = got + 1
          /\ IF ReadsOn THEN UNCHANGED at ELSE Proceed("child")
       \/ /\ AtEof(0)
          /\ Proceed("child")
          /\ UNCHANGED <<inbox, got>>
    /\ UNCHANGED <<test, image, state, serverFd, holds, shut>>

ClientClose ==
    /\ AtClient("close")
    /\ holds' = [holds EXCEPT ![0] = @ \ {"child"}]
    /\ Proceed("child")
    /\ UNCHANGED <<test, image, state, serverFd, shut, inbox, got>>

ClientExit ==
    /\ AtClient("exit")
    /\ Ends("child", "exited")
    /\ UNCHANGED <<test, at, image, serverFd, shut, inbox, got>>

-------------------------------------------------------------------------------
ServerStep(p) ==
    \/ ServerSend(p) \/ ServerShutdown(p) \/ ServerClose(p)
    \/ ServerReceive(p) \/ ServerWait(p)

RunnerStep == Fork \/ RunnerSetUp \/ ServerStep("runner")

ChildStep ==
    \/ ChildSetUp \/ Exec \/ ExecInVain \/ ExecFailure
    \/ ClientSend \/ ClientCreate \/ ClientGivesUp
    \/ ClientReceive \/ ClientRead \/ ClientClose \/ ClientExit
    \/ ServerStep("child")

Next == RunnerStep \/ ChildStep

Spec == Init /\ [][Next]_vars

\* Both processes are scheduled.
FairSpec == Spec /\ WF_vars(RunnerStep) /\ WF_vars(ChildStep)

-------------------------------------------------------------------------------
(* Properties.                                                               *)

\* The client reads every character before it sees the end of the stream, though
\* the runner shuts the socket down and closes it right after writing, maybe
\* before the sandbox has even been started (runner.cc:292-297).
WholeMessageRead ==
    test = "stream" /\ (AtClient("close") \/ AtClient("exit")) => got = Chars

\* The runner is killed by its own write, or stopped by an assertion on one of
\* its calls, only if the client never came to run: a client that runs keeps its
\* end open until the runner is done with it.
RunnerSurvives == state["runner"] \in {"killed", "aborted"} => image # "client"

\* Each process waits for the other.
Receiving == AtClient("receive") \/ AtServer("child", "receive")
Stuck == Receiving /\ (AtServer("runner", "receive") \/ AtServer("runner", "wait"))

\* The runner gets to the end of the child and ends itself, if the sandbox fails
\* too: it sees the end of the stream, since no copy of the other end is left
\* open.  Only the "shm" test can get stuck instead: the runner receives one
\* message and sends none (runner.cc:268-283), the client waits for two
\* (internal_nacl_client.cc:290-295), and the runner keeps its end open.
TestsEnd ==
    \/ <>(\A p \in Proc : state[p] # "running")
    \/ test = "shm" /\ <>[]Stuck
===============================================================================
