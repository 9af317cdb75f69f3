# Verification of the CoCl2 runner

The repository builds `imc-test/runner`, a process that starts a placement
algorithm inside a Native Client sandbox and calls it over a socket. Many
threads of the runner call the algorithm at once. What can go wrong is in the
meeting of those threads: a reply must reach the call it answers, nothing may be
used after it is deleted, nobody may sleep through the end of his call, and an
algorithm that can be found must be one that can be called. Around them are a
manager of shared memory, the framing of the messages on the sockets, and, at the
top of the repository, four experiments with sockets that came before.

This directory holds TLA+ modules of that program, the configurations with which
TLC checks them, and proofs that TLAPS checks.

    tlc -workers 2 -config CallReturn_calls.cfg MCCallReturn.tla
    tlapm CallReturnProofs.tla
    tlapm CallReturnOnceProofs.tla
    tlapm CallReturnLossProofs.tla
    tlapm CallReturnSafetyProofs.tla
    tlapm RegistrationProofs.tla
    tlapm SharedMemProofs.tla
    tlapm MessagingProofs.tla
    tlapm SocketTestsProofs.tla

## 1. Inventory of the system

All paths are under `src/`; "T" marks what runs in a thread of its own.

| part | state | operations | meets |
|---|---|---|---|
| placement calls, `imc-test/runner.cc:167-223` (T: every caller) | locals of `calculateOsds`, the caller's `osd_list` | `calculateOsds` | algorithm map, handler, socket |
| `CallReturnHandler`, `imc-test/call_return.*` | `queue`, `currentEpoch`, `mutex` | `createRec`, `destroyRec`, `submitReturn`, `submitError`, `findByEpoch` | callers and returns threads |
| `CallReturnRec`, same files | epoch, error code, completed, results block, mutex, condition | `waitForReturn`, `submitReturn`, `submitError` | one caller, one returner |
| returns threads, `runner.cc:226-304` (T: one per registration) | receive buffer | `getReturnsThread`, `createHandleReturnsThread` | placement socket, handler |
| messages thread, `runner.cc:335-423` (T) | receive buffers, `control_len` | `handleConnection`, `handleMessage`, `createMessagesThread` | bootstrap socket, everything a registration sets up |
| algorithm map, `imc-test/alg_info.*` | `algMap`, `algMapLock` | `addAlgorithm`, `getAlgorithm` | messages thread writes, callers read |
| shared memory, `imc-test/shared_mem_mgr.*` | map of objects, segments, lock | `create`, `destroy`, `get`, iteration | main, messages thread (`sendAlgAllSharedMem`, `runner.cc:307-332`) |
| messaging, `imc-test/messaging.*` | none (buffers of the callers) | `receiveMessage`, `receiveNaClMessage`, `receiveCoCl2Message`, `sendMessage`, `getFdFromControl` | every socket |
| main, `runner.cc:426-563` | command line, child pid | `forkWithBoundSocket`, join, `waitpid` | messages thread, sandbox process |
| test harness, `imc-test/testing.cc` (T: 25 per registration) | arguments of a thread | `createTestCallingThreads`, `testCallingThread`, `testConnectionThread`, `testSharedMemObj` | messages thread starts and joins them |
| sandbox client, `imc-test/imc_test_client.cc` | none | `compute_osds`, `main` | the CoCl2 runtime |
| CoCl2 runtime (headers `irt_cocl2.h`, `cocl2_bridge.h`) | not in the repository | replies, registration | seen through the two sockets |
| earlier experiments `runner.cc`, `message_test_client.cc`, `internal_nacl_client.cc` | a socket pair, a child | `setUpFork`, `srpcTest`, `sharedMemoryTest`, `streamTest`, `dgramTest` | each other, over the pair; nothing above |
| `imc-test/runner-old.cc` | - | - | not built |

What is hard here:

* **Interleaving.** Caller, returner and handler share a record that the caller
  deletes the moment it sees the call completed (`call_return.cc:117`), a list
  node that is read after it was erased and the mutex released
  (`call_return.cc:129-133`), and a flag and a condition variable
  (`call_return.cc:41-43`, `54-64`).
* **Failure.** A send that fails leaves the record in the queue
  (`runner.cc:201-205`); there is no timeout on a wait (`runner.cc:207`); an
  error reply takes its epoch from the wrong place (`runner.cc:266`).
* **Ordering.** Replies come in any order on several sockets; a registration
  must set up shared memory, returns thread, map entry and tests in that order
  (`runner.cc:355-363`); the thread that does so then waits for the tests.
* **Stale state.** A receive buffer serves for every message of its thread, so a
  message that ends early is followed by words of an earlier one
  (`messaging.cc:64-76`, `93-105`); a map node is read after it was erased
  (`shared_mem_mgr.cc:93-94`).
* **What outlives the process.** Segments of shared memory keep their names when
  the process stops, and names are made of pids, which come round
  (`shared_mem_mgr.cc:17-25`).
* **Long sequences.** `control_len` shrinks with every message
  (`messaging.cc:46`), so whether a message can be handled depends on all
  earlier ones.

`PROJECT.json` lists each hazard at its line, with the properties aimed at it.

What makes each part correct:

* calls: every call is answered at most once, with the reply to that very call,
  written only into its own block, and returns only then; with a live sandbox
  it does return;
* handler and records: nothing deleted is locked, written or signalled; the queue holds exactly the
  calls that are to be completed; epochs of running calls differ; no signal is
  lost;
* registration: an algorithm that is visible has a thread that reads its
  returns, and its own descriptor; no entry is replaced under a running call;
  every message is got to; no assertion of the program fails;
* shared memory: an id names one segment, alive from create to destroy, as large as
  was asked for and zero at first, whatever an earlier process left;
* messaging: what is sent is what is received, or an error, and never words of
  another message;
* experiments: what is written is read, and both processes come to an end.

## 2. Modules

| module | what it is |
|---|---|
| `PlacementCalls` | abstract: a placement call is a function call that runs elsewhere |
| `CallReturn` | detailed: callers, handler, records, heap, returners, sandbox |
| `CallReturnProps` | its properties, and its refinement mapping to `PlacementCalls` |
| `CallReturnInv` | the inductive invariants |
| `CallReturnProofs` | proofs: types, what no fault breaks, the invariant while sends succeed |
| `CallReturnOnceProofs` | proofs: what that invariant lacks for `PendingOnce` |
| `CallReturnLossProofs` | proofs: the invariant while sends fail |
| `CallReturnSafetyProofs` | proofs: the safety of calls and the refinement, in either case |
| `MCCallReturn` | symmetry, for TLC |
| `Registration` | messages thread, algorithm map, control data, test threads, with properties |
| `RegistrationProofs` | its inductive invariant, theorems and proofs |
| `MCRegistration` | symmetry, for TLC |
| `SharedMem` | the shared memory manager and the segments in the kernel |
| `SharedMemProps` | its properties and its inductive invariant |
| `SharedMemProofs` | theorems and proofs |
| `MCSharedMem` | symmetry, for TLC |
| `Messaging` | headers, parts and the receive buffer, with properties |
| `MessagingProofs` | theorems and proofs |
| `SocketTests` | the four experiments at the top of the repository, with properties |
| `SocketTestsProofs` | its inductive invariant, theorems and proofs |

### CallReturn

One caller goes through `CreateRec`, `PushRec` (the two halves of `createRec`,
split between loading and storing `currentEpoch`, so that the handler's mutex has
something to protect), `SendCall`, `WaitForReturn`, `Resume` after a wake-up, and
`Leave` (everything from `getErrorCode` to the return, with the delete). `pc`
says which is next; "blocked" and "woken" are the two sides of
`pthread_cond_wait`. One returner goes through `Receive` (one message, and the
dispatch on the operation), `FindByEpoch` (the critical section of the handler's
`submitReturn` and `submitError`), `Submit` (read the erased node, lock the
record, fill it in) and `Signal` (signal and unlock). `SandboxReply` and
`SandboxDeath` are the other side of the socket; `wire` holds calls and replies in
no order, because each returner has its own socket and the runtime may work on
several calls at once.

The heap is explicit, since the program's behaviour depends on it. `Rec` and
`Node` are addresses. `live` says which records are allocated; `mem` keeps the
fields of a deleted record until the address is handed out again, or until
`ReuseMemory`, at any time and any number of times, puts a word of `Garbage` where
it had its epoch. A freed list node keeps its contents until it is reused, which
happens under an iterator only with the fault `nodeReuse`. To lock, write or signal
a deleted record sets `corrupt`, and the model stops there: from that point the
program has no meaning. To read the epoch of one (`call_return.cc:172`, after a failed
send has left it in the queue) yields whatever the memory holds, and no property
says that it does not happen while sends fail. `Garbage` may have any words: in
`repeats` an epoch in use is among them. While sends fail it matters which: with a
later epoch in it, a deleted record that is still queued is taken for a call, and TLC
finds `NoWriteToDestroyed` violated. So `calls` is checked, and `Lossy` is stated,
with words that are no epochs, such as 0 or what is below `FirstEpoch`.

A word of `osd_list` is modelled by the epoch of the reply it came from: the
numbers themselves do not matter, whose they are does.

`Faults` selects what the environment may do beyond answering each call once.
Each name is commented in the module. They are separate because the code
tolerates some and not others, and the runs say which.

`callCount`, addresses and the words of a list are constants of any size.
Epochs are unbounded: the harness makes 250 calls per registration, so the wrap
of an `int` is not reached.

In the harness a caller whose call fails stops the whole program with an
assertion (`testing.cc:101`). `CallReturn` lets it go on to its next call: that is
what `calculateOsds` allows any caller to do, and it includes the harness's
behaviours up to the assertion.

### PlacementCalls

A call has a ticket, is `Begin`-ned, then `Answer`-ed or `Fail`-ed, then
`Return`-s. The refinement mapping (end of `CallReturnProps`): the ticket is the
epoch of the caller's record; a call is answered from the moment its record is
completed, failed from the moment its send failed; the next ticket is
`currentEpoch`, one more while a `createRec` is half done. All the steps of
returners and sandbox but `Submit` are stutters.

### Registration

`sent` is the conversation on the bootstrap socket, `taken` how much of it has
been received. `Receive` is one turn of `handleConnection` up to the call of
`handleMessage`'s first effect: it computes the new `control_len` from the old one
the way `recvmsg` does (`Delivered`, `Reported`: a header of 16 bytes, descriptors
of 4, space rounded up to 8), keeps the first descriptor that is in the control
buffer, and fails the assertion of `getFdFromControl` when there is no header.
Then `Steps` lists what `handleMessage` does: announce the shared memory, create
the returns thread, add the map entry, start the tests, join them. A call of a
test thread is reduced to lookup and answer. A failed assertion is recorded in
`aborted` and stops the threads; the sandbox may go on. Messages of a test
thread's other calls (10 per thread) add nothing here, so it makes one.

Main is `Fork` only: what follows its `pthread_join` is not reachable, since
`handleConnection` never returns.

The passing runs of `Registration` take `ShmIds = {}`: with the two objects that
main creates, the first registration ends the program (run `shared_memory`), and
there is nothing more to check. What the runs show is what holds of the rest
of the code once that assertion tests what it means to.

### SharedMem

`create` is four steps, because only the last of them is under the lock:
`StartCreate`, `Open` (the name and `shm_open`), `MapSegment` (`ftruncate`, `mmap`,
the object is complete) and `Insert`. `Get` is the lookup. After either, `Use` is
what the user does with the address. `destroy` is `FindAndErase` and `ReadErased`
(one critical section, split between the erase and the read of the erased node) and
`Delete`, the destructor, again outside of the lock.

`names` and `seg` are the kernel's: which segment a name leads to, how long a
segment is and whether anything has been written to it. They outlive `Restart`,
which is the end of the process at any point and a new one with its pid. Names
contain the pid and the id (`shared_mem_mgr.cc:17-20`); here one pid is looked at, and
`NameOf` says that ids have names of their own.

As in `CallReturn` the heap is explicit, for the same reason. `destroy` reads a map
node after erasing it (lines 93-94), as `submitReturn` does, but before it unlocks. The
lock keeps `Insert` from taking the node in between, but not any other allocation of
another thread, such as that of the name in a constructor (lines 17-20 and 78, outside
of the lock): `Allocate` is such an allocation, and leaves anything in the node.

`Misuse` names what users may do that the manager has no answer to. In the run it
is empty. With `"share"` (two threads at work on one id) TLC finds `MapIsBacked`,
`UseIsSafe` and `AssertionsHold` violated, with `"recreate"` (create of an id that is in
the map) `MapIsBacked`, with `"nodeReuse"` (memory allocated while another thread is
between lines 93 and 94) `AssertionsHold` and `IInv`. None of the three can happen in
this repository, where main alone makes and destroys objects, before it starts any other
thread, and no id that is in the map (`runner.cc:475-478`, `testing.cc:256-305`); so the
run is of a more general use than that, but not of every use. No text of the repository says more of the manager than
that it has a lock, so these are preconditions and not findings.

### Messaging

A packet is a sequence of words: two for the NaCl header, two for the CoCl2 header, one
for each part. A call of `sendMessage` is `StartSend` (the headers), `TakePart` (one turn
of the loop over the variable arguments, lines 135-151) and `FinishSend` (a NULL, or a part
too many, and `sendmsg`). `SandboxSend` is anything the other end may put on the socket
(other protocols, any announced length of descriptor data, a payload that ends before a
header does), `SandboxClose` the end of the stream. `ReceiveCoCl2Message` is one call of
`receiveCoCl2Message` with the buffer its thread keeps using: `Overlaid` leaves behind
the packet what was there. `OnlyOwnWords` compares what is accepted with `Framed` and
`PayloadOf`, which read the packet by itself.

Lengths and offsets are ints, words are unsigned and as wide, and `Narrow` is the
conversion: `bytes_to_skip` (line 73) is the sum of a `size_t` and of a word of the packet,
and wraps from some announced length on. The CoCl2 header is then looked for anywhere,
also outside of the buffer, where `WordsAt` finds what it likes; a difference that
no int holds may pass for negative or not. All this is in the model, but `OnlyOwnWords`
claims nothing of it: its first line is `LengthFits`, which says of the announced length
in the buffer that it fits an int with the header.

`sendAlgSharedMem` forgets the NULL that ends the parts (`runner.cc:314`), so the
loop goes on through whatever the stack holds: a call may find any number of parts, also
more than there is room for. What a stray pointer makes `sendmsg` do
is not modelled beyond that the packet may be refused.

### SocketTests

`test` is the experiment that was compiled in. `ServerSteps` and `ClientSteps` list what
the two programs do in each; every step is an action. `holds` says which processes have
which end of the pair open, `inbox` what has arrived, `shut` what has been shut down.
A failed `execvp` makes the child return from `setUpFork` (`runner.cc:201`) and run the
server's steps with a descriptor that nobody has set (-1 in the srpc experiment): it may
name the one end the child has; any other value behaves like an invalid one.

The descriptor number the sandbox is told is fixed (`"5:3"`, `runner.cc:62`), which is
right if the socket pair gets 3 and 4; this is assumed. The client of the shared
memory experiment is that of `internal_nacl_client.cc`, which is the same as the one
`message_test_client.cc` has disabled (line 239); `build.sh` compiles neither at this
commit. Its `send_message` has no return statement, so what the client does next does not
depend on whether it sent.

## 3. Runs

States are distinct states; no run takes much more than two minutes.

| run | module, instance | checks |
|---|---|---|
| `calls` | CallReturn, 2 callers x 2 calls, 2 returners, 2 record and 4 node addresses, replies of 0 to 2 words for 1 asked, sends may fail, freed memory is overwritten with 0; 606,003 states; deadlock checked | `LossInv` `OwnReply` `NoWriteToDestroyed` `WritesWithinBlock` `ImplementsCalls` |
| `repeats` | 2 callers x 1 call, 2 returners, calls answered repeatedly, with errors and unknown operations, freed memory is overwritten with 0 or an epoch; 859,145 states | `IInv` `OwnReply` `NoWriteToDestroyed` `QueueHoldsLiveRecords` `PendingOnce` `CompletedOnce` |
| `faults` | as `repeats`, with node reuse, spurious wake-ups, failed sends, sandbox death, errors, unknown operations, fairness; 348,418 states | `TypeOK` `CoreInv` `EpochsDistinct` `NoLostWakeup` `CallsAfterDeathReturn` |
| `live` | 2 callers x 2 calls, 1 returner, fairness; 171,077 states; deadlock checked | `AllCallsReturn` `ImplementsFairCalls` |
| `registrations` | Registration, 3 messages with 0, 1 or 4 descriptors, 2 names, 2 testers, fairness; 53,167 states | `TypeOK` `VisibleIsServed` `EntryIsItsOwn` `ControlSuffices` `CallsFindAlgorithm` `CallsUseCurrentSocket` `MessagesTaken` |
| `segments` | SharedMem, 2 threads, 2 ids, 2 sizes, 2 objects, 3 nodes, 3 segments, allocations, restarts; 87,683 states | `IInv` `MapIsBacked` `UseIsSafe` `FreshIsZero` `AssertionsHold` |
| `framing` | Messaging, any parts with room for 2, up to 4 words behind the NaCl header, announced lengths 1 and one that does not fit, a buffer of 6, 1 packet under way; 4,397,520 states | `OnlyOwnWords` `PartsArrive` `IovecFits` |
| `experiments` | SocketTests, all four, 3 characters, exec and sandbox may fail, fairness; 238 states | `WholeMessageRead` `RunnerSurvives` `TestsEnd` |
| `node_reuse` | CallReturn with `nodeReuse` | `OwnReply` is violated |
| `error_reply` | CallReturn, one caller, error replies, fairness | `AllCallsReturn` is violated |
| `control_length` | Registration, 2 messages with 0 or 1 descriptor | `ControlAsserted` is violated |
| `shared_memory` | Registration, objects 3 and 17 | `SharedMemAnnounced` is violated |

Why these bounds are enough to matter: two callers and two returners are what it
takes to pair a reply with the wrong call, to complete a call twice, to delete a
record another thread holds and to reuse its address; two calls per thread make
epochs and addresses come round; four list nodes leave one free while two
iterators and a queue of two hold the others. Two messages are enough to damage
`control_len`, three to do so after a good one; four descriptors fit the first
receive (32 bytes of control data) and no longer fit a second one.

Two threads and two ids let a create, a use and a destroy run beside each other; of
nodes and segments there is one more than can be in use, so an address that has just
been freed may or may not be the next one. In `framing` every interesting length occurs on
both sides: packets that end in the first header, in the second, at the end of the
buffer and behind it, and one part more than there is room for. What a packet leaves
behind is seen by the next, so one under way at a time is enough; the buffer starts
full of words that could be taken for a NaCl header. An int reaches 299 there, so that 298
announced words are the first that do not fit; 0 is announced by what `sendMessage` makes
without a CoCl2 header, whose parts may look like one. In `experiments` only the
number of characters is bounded.

`CHECK_DEADLOCK FALSE` stands where the system really stops: in `faults` and
`error_reply` a caller may wait for ever once the sandbox is gone or its error
reply was not recognised (so too in `repeats`, which has error replies);
in `node_reuse` the wrong record is completed; in all runs of
`Registration` the sandbox stops sending or an assertion has failed; in `framing` the
other end may have been closed and a capped queue read; in `experiments` both processes
end, and `TestsEnd` says when they do not. In `calls` and `live` TLC looks for
deadlocks: every state has a step, and when all calls are made and all replies read
that step is `Quiet`. In `segments` a process can always be restarted, so that TLC finds
no deadlock says little there.

`HeaderWord` is the `int` the OP_ERROR branch takes for an epoch
(`runner.cc:266`): a word of the runtime's header, which is not in the
repository. In most runs it is a value that is no epoch; in `repeats` and `faults`
it is 111, the first epoch, so that the code behind the branch runs at all.

Symmetry of threads, addresses and ids is used in runs without temporal properties
only; `ImplementsCalls` in `calls` is checked step by step, and its mapping permutes
with the threads.

### Fairness

`CallReturn!Fairness`: each caller and each returner keeps being scheduled (they
are threads of their own, and no thread holds a mutex across anything that can
block but for the step it is in), and the sandbox answers what it has received
(`getReturnsThread` and the runtime loop for ever). A step of a thread
that waits for a mutex is enabled again and again rather than continuously only if
others keep taking it; weak fairness was enough for the runs, because each
thread makes finitely many calls. Faults are never fair.
`Registration!Fairness`: the messages thread and the test threads are scheduled,
and a call is answered as long as the sandbox runs, which is what `live` checks
of `CallReturn`. Nothing obliges the sandbox to send or keeps it from exiting.
`SocketTests!FairSpec`: both processes are scheduled; a process that waits has no step,
so fairness obliges it to nothing. `SharedMem` and `Messaging` have no fairness and
no liveness property.

## 4. What is proved

### Calls

Four modules, for every number of threads, addresses, calls and words. The column
"environment" is the hypothesis on `Faults`:

| theorem | property | environment |
|---|---|---|
| `TypeCorrect` | `TypeOK` | any |
| `CoreHolds` | `CoreInv` | any |
| `WakeupsArrive` | `NoLostWakeup` | any |
| `EpochsAreUnique` | `EpochsDistinct` | any |
| `RepliesAreOwn` | `OwnReply` | `Benign` or `Lossy` |
| `RecordsOutliveWrites` | `NoWriteToDestroyed` | `Benign` or `Lossy` |
| `CompletesOnce` | `CompletedOnce` | `Benign` or `Lossy` |
| `WritesAreOwn` | `WritesWithinBlock` | `Benign` or `Lossy` |
| `Implementation` | `ImplementsCalls`: Spec implements `PlacementCalls` | `Benign` or `Lossy` |
| `Inductive` | `IInv` | `Benign` |
| `QueueIsLive` | `QueueHoldsLiveRecords` | `Benign` |
| `AnsweredByOne` | `PendingOnce` | `Benign` |
| `LossHolds` | `LossInv` | `Lossy` |

* `Benign`: every send succeeds. The sandbox may answer a call with an error, with
  an unknown operation, with any number of words, any number of times or not at all.
* `Lossy`: sends fail and the sandbox dies at any time. It may answer with an error, an
  unknown operation or any number of words, but no call twice. Where errors are among
  the answers, `HeaderWord` must be no value that memory can have as an epoch, because
  a lookup under it would find a deleted record and lock it. For the same reason all
  words of `Garbage` are below `FirstEpoch`: whoever reuses the memory of a deleted
  record is taken not to write a later epoch where it had its own. `RecordsOutliveWrites`
  is about locks, writes and signals: `findByEpoch` does read deleted records here.

Node reuse and spurious wake-ups are in neither, since they break the properties (run
`node_reuse`; for spurious wake-ups see the hazards). Nor is a repeated reply together
with a failed send: the failed call's node stays in the queue and comes to hold a later
call of the same record, which two replies then complete twice. `QueueHoldsLiveRecords`
and `PendingOnce` are false once a send has failed, for the same reason.

The only other assumption is `CallReturnAssumption` on the constants, which TLC
evaluates in every run. Neither `Rec`, `Node` nor the sets of threads need be finite.

*Under any fault.* `CoreInv` says that the mutex is held by who is half way through
`createRec` (`MutexInv`), that live records and running calls correspond one to one
(`OwnerInv`), that every live record's epoch is below `currentEpoch`, or equal to it for
the record being made, and no two are equal (`EpochInv`), and that a sleeper with a
completed record has a signal to come (`NoLostWakeup`). It is inductive as it stands:
what a returner writes may be wrong, but it writes no epoch and no owner.

*While sends succeed.* None of the other safety properties is inductive. That a returner
may lock the record it took from the queue depends on its owner not having left;
that depends on the owner waiting until the record is completed; that on nobody
else completing it; that on the queue holding each record once and on epochs
being distinct; and that on `createRec` being one critical section. `IInv` says
these things together. Besides `MutexInv`, `OwnerInv` and `EpochInv` it has

* `QueueInv`, `SubmitInv`: a queued record is live, not completed, and there
  once; a record taken out is held by one returner, who has a reply with its epoch;
* `LockInv`, `WaitInv`: a record is locked exactly between completion and signal,
  a sleeper with a completed record has it locked, and so a signal to come;
  nobody passes the wait before completion or leaves while the record is locked;
* `WordsInv`: the words of a completed call are its own.

`PendingOnce` and the writes need two facts more, which `OnceInv` adds. `PendInv`:
a record that is pushed and not completed is in the queue or with a returner, so that
nobody is forgotten. `AskedInv`: a reply on the socket or in the hands of a returner has
the epoch of a call that has been sent, so that none is written before its caller
waits. `AskedInv` leaves error replies out: their epoch is a word of a header
(`runner.cc:266`) and may be that of a call not sent yet; but they write no words.

*While sends fail.* `QueueInv` and `SubmitInv` are lost: a failed call deletes its record
and leaves the node in the queue, the address is handed out again, and a record can be
in the queue twice, or be queued before it is pushed. What keeps replies apart
then is that there is one for each call, and `LossInv` says so:

* `FlightInv`: every answer, on the socket or in the hands of a returner, is the only one
  with its epoch, and some caller waits for it;
* `MemoryInv`: no memory but that of a call's own record has the epoch of the call, so a
  stale node leads `findByEpoch` to a wrong record never, and to the right one at worst
  through a wrong node;
* `FoundInv`: what has been found is therefore the live record of the call whose reply
  is in hand; errors find nothing;
* `LeavingInv`: a call that failed is on its way out, and every other one leaves only
  when it is completed.

*From the invariants to the properties.* `CallInv` is what both give: a returner about to
submit has the open record of the call its reply is for, whose send has not
failed (`AnswerInv`), and a call leaves failed or completed, never both (`OutcomeInv`).
The safety properties and the refinement follow from `CallInv` alone, so each is
proved once. `CompletesOnce` and `WritesAreOwn` are about steps and use the invariant
before them (`LockStep`, `WriteStep`). `Implementation` shows that each action maps to
one of `PlacementCalls` (`MapCreateRec`, `MapSubmit`, `MapFail`, `MapLeave`) or changes
nothing the mapping sees (`MapKept`).

### Registration

`RegistrationProofs`, for any names, any number of test threads and any sequence of
messages with any numbers of descriptors:

| theorem | property |
|---|---|
| `TypeCorrect` | `TypeOK`, the range of `control_len` included |
| `VisibleAreServed` | `VisibleIsServed` |
| `EntriesAreOwn` | `EntryIsItsOwn` |
| `ControlIsEnough` | `ControlSuffices` |
| `LookupsSucceed` | `CallsFindAlgorithm` |
| `CallsAreCurrent` | `CallsUseCurrentSocket` |

There is no hypothesis but `RegistrationAssumption`.

*The argument.* That an entry has a returns thread depends on where `handleMessage` is
when it adds the entry, and that a lookup succeeds on where it is when the test threads
run. `HandlingInv` says, for each step, what the earlier steps have done for the message
in hand. `TestingInv`: test threads run only while the messages thread waits to join
them, so that no later registration replaces the entry under a call. `SeenInv`: the
map holds descriptors of messages that have been received. `ControlInv`: as long as
every message has brought a descriptor, `control_len` has room for one more header and
descriptor, which `RoomStays` shows of the arithmetic of `recvmsg`. That it is false
otherwise is the finding `control_length`.

### Experiments

`SocketTestsProofs`, for every number of characters, any of the four experiments and
whatever of exec, sandbox and client fails:

| theorem | property |
|---|---|
| `NothingLost` | `WholeMessageRead` |
| `RunnerIsSafe` | `RunnerSurvives` |

*The argument.* `PlaceInv` says where in its program each process can be. `RunnerInv`: while
the client is still to come or runs, the runner has its own end of the pair and loses it
by nothing but its own doing. `StreamInv`: before the runner has written, the client finds
neither a character nor the end of the stream, so it waits; afterwards the
characters under way and those read are together `Chars`; and the client goes on only
with nothing under way. The sum makes an induction over the message unnecessary.

### Shared memory

`SharedMemProofs`, for every number of threads, ids, sizes, objects, nodes and segments,
and with the process restarted at any point:

| theorem | statement |
|---|---|
| `TypeCorrect` | `Spec => []TypeOK`, for any `Misuse` |
| `Inductive` | `Misuse = {} => (Spec => []IInv)` |
| `EntriesAreBacked` | `MapIsBacked` |
| `UsersAreSafe` | `UseIsSafe` |
| `FreshIsZeroed` | `FreshIsZero` |
| `NoAssertionFails` | `AssertionsHold` |

The assumptions are `SharedMemAssumption` and, for all but the first, `Misuse = {}`: one
thread at a time for an id, no create of an id that is in the map, no allocation while a
`destroy` is between lines 93 and 94. With a misuse the properties fail (section 2).

*The argument.* Most of an operation runs outside of the lock, so it must be shown that
nobody else is at the same id, name, segment, object or node. `IInv` pairs them one to
one: names lead to segments of their own and entries are nodes of their own
(`Injective`), a thread that is at work has an id of its own (`OneUser`), and
`CreateInv` and `DestroyInv` say, for each point of an operation, what is whole and what
is already out of the map. `destroy` reads its node while it is still what it was
because between erase and read the lock is held (`LockInv`), so no `Insert` takes the node,
and by hypothesis nobody else does. The names of an earlier process are not excluded but opened with `O_TRUNC`,
which is what `FreshIsZero` needs of `Open`.

### Messaging

`MessagingProofs`, for every size of packets, buffer, vector and int, any words, and any
queue on the socket:

| theorem | statement |
|---|---|
| `MessagesAreOwn` | `OnlyOwnWords`, of announced lengths that fit an int |
| `VectorSuffices` | `IovecFits` |
| `SentIsReceived` | `PartsArrive` |

The only assumption is `MessagingAssumption`: the buffer holds the headers and is smaller
than an int's range by one of them, and what is on the wire are words. `OnlyOwnWords`
needs no induction beyond types (`PacketInv`): whatever is in the buffer before, one
`receiveCoCl2Message` accepts a packet if and only if the packet alone is framed,
because each check that reads stale words is one whose failure or success the length
decides (`ReceiveOwnWords`); and nothing wraps as long as the announced length fits
(`NothingWraps`). `VectorSuffices` is the invariant of the loop, `LoopInv`: the count, the
entries filled and the words collected keep step with the parts found, so that the check
of the count bounds the entries whether or not there is a CoCl2 header. `PartsArrive` adds
that what the loop has collected when it ends are the parts there was room for
(`LoopTakesKept`), that the packet stays so on the socket (`MadeInv`) and in the buffer
(`FrontInv`), and that such a packet is framed (`PayloadOfPacket`).

### Only model-checked

* Liveness: `AllCallsReturn`, `ImplementsFairCalls`, `CallsAfterDeathReturn`,
  `MessagesTaken`, `TestsEnd`. Fairness and ENABLED are beyond the prover.
* That the four findings are reachable.

Outside of both `Benign` and `Lossy`, that is under node reuse, spurious wake-ups, or
failed sends with repeated replies, only the four theorems for any environment hold; the
rest of the safety properties of calls is neither claimed nor checked there.

## 5. Findings

* `node_reuse` - `call_return.cc:133` and `157` read a list node after erasing it
  and after unlocking. Between the two, `push_back` in another thread may be
  given that node, and the reply goes to the other call.
* `error_reply` - `runner.cc:266` parses an OP_ERROR message from `buff` instead of
  `buff_in`, so its epoch is a word of the header and its caller waits for ever.
* `control_length` - `messaging.cc:46` writes the received control length back
  through a reference to the variable `handleConnection` uses for the buffer's
  size; after a message without descriptors no later registration can be accepted.
* `shared_memory` - `runner.cc:329` counts a successful send (a positive number of
  bytes) as failure, so `runner.cc:356` stops the runner at the first registration.

## 6. Not modelled, and why

* The text of command lines, logging, printing, timing and random numbers: no
  property is about them.
* Receive errors of `getReturnsThread`: it sleeps and retries, and changes nothing.
* `RETURN_IF_ERROR` paths on mutex and condition calls: those calls do not fail
  on default mutexes used as here.
* `testConnectionThread` is never started, `runner-old.cc` is not built.
* Functions of the earlier experiments that none of them calls (`exchangeMessages`,
  `serverReadAllChars`, `doTransaction`, `recvDgram`, `recvDgram2`,
  `destructiveCheckFds`), and what their messages contain.
* The destructor of `SharedMemMgr`, which erases inside its loop: the one manager is a
  global of a program that leaves main only by `exit(1)` before anything is shared or
  by the end that is not reachable.
* Access to shared memory from inside the sandbox, and the iteration over the map
  without the lock (`runner.cc:325`) beside a writer: main has made the objects before
  the messages thread starts, and nobody makes others.
* An operation read from a payload too short to hold it (`runner.cc:254`, `339`): the
  runtime that frames replies is not in the repository.
* What main does after its join: not reachable. That the child is therefore never
  reaped is listed as a hazard.

## 7. Plan

Done: 1. `CallReturn`, its properties, invariant and proofs; 2. `PlacementCalls` and
the refinement; 3. `Registration`; 4. `SharedMem` and its proofs; 5. `Messaging` and its
proofs; 6. `SocketTests`; 7. `RegistrationProofs`; 8. the proofs of `CallReturn` extended
to failed sends and to any fault; 9. `SocketTestsProofs`.

Next:

10. `Runner`: `Registration` with its calls refined from "a call" to
    `PlacementCalls`, several sockets, several returns threads. The twelve runs the
    project has each answer a question of their own; this one would take the place of
    `registrations`.
