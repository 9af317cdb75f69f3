---------------------------- MODULE PlacementCalls ----------------------------
(***************************************************************************)
(* What the runner promises the threads that place objects: calculateOsds   *)
(* (imc-test/runner.cc) behaves as a function call that runs in the         *)
(* sandbox.  Each call has a ticket nobody else has, is answered or fails   *)
(* at most once, returns only then, and the only answer written into the    *)
(* caller's osd_list is the answer to its own ticket, in one step, and no   *)
(* longer than the caller asked for.                                        *)
(*                                                                         *)
(* There are no threads that read replies here, no records, no locks and no *)
(* messages: CallReturn implements this module.                             *)
(***************************************************************************)
EXTENDS Integers

CONSTANTS
    Caller,       \* threads that call calculateOsds
    CallCount,    \* calls one thread makes
    FirstTicket,  \* the first ticket handed out
    MaxOsds,      \* words in the caller's osd_list
    Requested     \* how many words a caller may ask for

VARIABLES
    state,        \* "idle", "asking", "answered" or "failed"
    ticket,       \* the ticket of the running call
    asked,        \* the words the running call asks for
    next,         \* the next ticket
    done,         \* calls each caller has finished
    osdList       \* each word is the ticket of the answer it came from

vars == <<state, ticket, asked, next, done, osdList>>

Begin(c) ==
    /\ state[c] = "idle"
    /\ done[c] < CallCount
    /\ state' = [state EXCEPT ![c] = "asking"]
    /\ ticket' = [ticket EXCEPT ![c] = next]
    /\ next' = next + 1
    /\ \E n \in Requested : asked' = [asked EXCEPT ![c] = n]
    /\ UNCHANGED <<done, osdList>>

Answer(c) ==
    /\ state[c] = "asking"
    /\ state' = [state EXCEPT ![c] = "answered"]
    /\ \E n \in 0..asked[c] :
         osdList' = [osdList EXCEPT ![c] =
                       [w \in 1..MaxOsds |-> IF w <= n THEN ticket[c] ELSE @[w]]]
    /\ UNCHANGED <<ticket, asked, next, done>>

Fail(c) ==
    /\ state[c] = "asking"
    /\ state' = [state EXCEPT ![c] = "failed"]
    /\ UNCHANGED <<ticket, asked, next, done, osdList>>

Return(c) ==
    /\ state[c] \in {"answered", "failed"}
    /\ state' = [state EXCEPT ![c] = "idle"]
    /\ ticket' = [ticket EXCEPT ![c] = 0]
    /\ asked' = [asked EXCEPT ![c] = 0]
    /\ done' = [done EXCEPT ![c] = @ + 1]
    /\ UNCHANGED <<next, osdList>>

Init ==
    /\ state = [c \in Caller |-> "idle"]
    /\ ticket = [c \in Caller |-> 0]
    /\ asked = [c \in Caller |-> 0]
    /\ next = FirstTicket
    /\ done = [c \in Caller |-> 0]
    /\ osdList = [c \in Caller |-> [w \in 1..MaxOsds |-> 0]]

CallStep(c) == Begin(c) \/ Answer(c) \/ Fail(c) \/ Return(c)

Next == \E c \in Caller : CallStep(c)

Spec == Init /\ [][Next]_vars

\* A call that is made is answered or fails, and returns, and the caller
\* makes its next one.
FairSpec == Spec /\ \A c \in Caller : WF_vars(CallStep(c))
===============================================================================
