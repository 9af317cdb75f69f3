------------------------------ MODULE SharedMem ------------------------------
(***************************************************************************)
(* The shared memory manager (imc-test/shared_mem_mgr.cc): a map from ids   *)
(* to objects under a lock, and the POSIX segments behind the objects, which *)
(* outlive the process.  A segment is found by a name, made of the pid and   *)
(* the id; opening, sizing and unlinking it are done without the lock.       *)
(*                                                                         *)
(* The heap is explicit where the code depends on it: destroy reads the map  *)
(* node it has just erased, and the lock does not keep other threads from    *)
(* allocating memory, as every constructor does.  A process that stops, at an assertion or at     *)
(* exit(1) in main, unlinks nothing; a later one with the same pid finds its *)
(* names.                                                                   *)
(***************************************************************************)
EXTENDS Integers, FiniteSets

CONSTANTS
    Thread,     \* users of the manager
    Id,         \* mem ids
    Size,       \* sizes that are asked for
    Obj,        \* addresses of SharedMemObj objects
    Node,       \* addresses of nodes of the std::map
    Seg,        \* segments the kernel can provide
    None,       \* no address, no segment, no thread
    Misuse      \* what users do that the manager does not look after

MisuseKinds == { "recreate",  \* create of an id that is in the map
                 "share",     \* two threads at work on one id
                 "nodeReuse" }  \* memory is allocated, by a create or anything
                              \* else, before destroy has read what it erased

ASSUME SharedMemAssumption ==
    /\ Size \subseteq Nat \ {0}
    /\ None \notin Thread \cup Id \cup Obj \cup Node \cup Seg
    /\ Misuse \subseteq MisuseKinds

VARIABLES
    pc,         \* where each thread is
    arg,        \* the id it works on
    size,       \* the size it asked for
    fd,         \* the segment its shm_open returned
    it,         \* destroy's iterator: a node
    obj,        \* the object it is making, deleting or using
    lock,       \* the writer that holds the rwlock across steps
    map,        \* id |-> node
    nodeObj,    \* the pointer in each node, erased or not
    live,       \* objects constructed and not deleted
    field,      \* the fields of each object
    names,      \* id |-> the segment its name leads to, in the kernel
    seg,        \* size of each segment, and whether it has been written to
    aborted     \* an assertion of the destructor failed

userVars == <<pc, arg, size, fd, it, obj>>
mgrVars == <<lock, map, nodeObj>>
objVars == <<live, field>>
kernelVars == <<names, seg>>
vars == <<userVars, mgrVars, objVars, kernelVars, aborted>>

-------------------------------------------------------------------------------
Fields == [id : Id \cup {None}, seg : Seg \cup {None}, size : Size \cup {0}]

Idle(t) == pc[t] = "idle"

\* Segments with a name or a mapping are in use.
FreeSegs == Seg \ ({ names[i] : i \in Id } \cup { field[o].seg : o \in live }
                   \cup { fd[t] : t \in Thread })

FreeNodes == Node \ { map[i] : i \in Id }

(* Decisions of the code, each with forms in which it could go wrong.         *)

\* The rwlock can be taken.
LockFree_Unlocked == TRUE
LockFree == lock = None

\* The name the object with this id is found under: "/cohort_<pid>_<id>".
NameOf_PidOnly(i) == CHOOSE j \in Id : TRUE
NameOf(i) == i

\* shm_open of a name that leads to s already: O_TRUNC.
Reopened_Kept(s) == seg[s]
Reopened(s) == [size |-> 0, written |-> FALSE]

\* What shm_unlink leaves of the names.
Unlinked(i) == [names EXCEPT ![NameOf(i)] = None]

\* An id may be worked on by one thread at a time.
MayUse(t, i) ==
    "share" \in Misuse \/ \A u \in Thread : ~Idle(u) => arg[u] # i

\* The operation of t returns.
Finish(t) ==
    /\ pc' = [pc EXCEPT ![t] = "idle"]
    /\ arg' = [arg EXCEPT ![t] = None]
    /\ size' = [size EXCEPT ![t] = 0]
    /\ obj' = [obj EXCEPT ![t] = None]

InitProcess ==
    /\ pc = [t \in Thread |-> "idle"]
    /\ arg = [t \in Thread |-> None]
    /\ size = [t \in Thread |-> 0]
    /\ fd = [t \in Thread |-> None]
    /\ it = [t \in Thread |-> None]
    /\ obj = [t \in Thread |-> None]
    /\ lock = None
    /\ map = [i \in Id |-> None]
    /\ nodeObj = [n \in Node |-> None]
    /\ live = {}
    /\ field = [o \in Obj |-> [id |-> None, seg |-> None, size |-> 0]]
    /\ aborted = FALSE

Init ==
    /\ InitProcess
    /\ names = [i \in Id |-> None]
    /\ seg = [s \in Seg |-> [size |-> 0, written |-> FALSE]]

-------------------------------------------------------------------------------
(* create, by the thread t.                                                  *)

StartCreate(t) ==
    /\ Idle(t)
    /\ \E i \in Id, n \in Size :
         /\ MayUse(t, i)
         /\ map[i] = None \/ "recreate" \in Misuse
         /\ arg' = [arg EXCEPT ![t] = i]
         /\ size' = [size EXCEPT ![t] = n]
    /\ pc' = [pc EXCEPT ![t] = "open"]
    /\ UNCHANGED <<fd, it, obj, mgrVars, objVars, kernelVars, aborted>>

\* shm_open with O_CREAT and O_TRUNC.
Open(t) ==
    LET name == NameOf(arg[t]) IN
    /\ pc[t] = "open"
    /\ \E s \in IF names[name] = None THEN FreeSegs ELSE {names[name]} :
         /\ fd' = [fd EXCEPT ![t] = s]
         /\ seg' = [seg EXCEPT ![s] =
                      IF names[name] = None THEN [size |-> 0, written |-> FALSE]
                      ELSE Reopened(s)]
         /\ names' = [names EXCEPT ![name] = s]
    /\ pc' = [pc EXCEPT ![t] = "map"]
    /\ UNCHANGED <<arg, size, it, obj, mgrVars, objVars, aborted>>

\* ftruncate and mmap: the object is complete.
MapSegment(t) ==
    /\ pc[t] = "map"
    /\ seg' = [seg EXCEPT ![fd[t]].size = size[t]]
    /\ \E o \in Obj \ live :
         /\ live' = live \cup {o}
         /\ field' = [field EXCEPT ![o] = [id |-> arg[t], seg |-> fd[t],
                                           size |-> size[t]]]
         /\ obj' = [obj EXCEPT ![t] = o]
    /\ fd' = [fd EXCEPT ![t] = None]
    /\ pc' = [pc EXCEPT ![t] = "insert"]
    /\ UNCHANGED <<arg, size, it, mgrVars, names, aborted>>

\* map[id] = obj, under the lock: in the node of the id, or in a new one.  The
\* user goes on with the object create returns.
Insert(t) ==
    LET i == arg[t] IN
    /\ pc[t] = "insert"
    /\ LockFree
    /\ \E n \in IF map[i] = None THEN FreeNodes ELSE {map[i]} :
         /\ map' = [map EXCEPT ![i] = n]
         /\ nodeObj' = [nodeObj EXCEPT ![n] = obj[t]]
    /\ pc' = [pc EXCEPT ![t] = "use"]
    /\ UNCHANGED <<arg, size, fd, it, obj, lock, objVars, kernelVars, aborted>>

-------------------------------------------------------------------------------
(* get, and the use of an object.                                            *)

\* The lookup, under the read lock.  NULL is nothing to go on with.
Get(t) ==
    /\ Idle(t)
    /\ LockFree
    /\ \E i \in Id :
         /\ MayUse(t, i)
         /\ map[i] # None
         /\ arg' = [arg EXCEPT ![t] = i]
         /\ obj' = [obj EXCEPT ![t] = nodeObj[map[i]]]
    /\ pc' = [pc EXCEPT ![t] = "use"]
    /\ UNCHANGED <<size, fd, it, mgrVars, objVars, kernelVars, aborted>>

\* The user fills the memory through the address of the object.
Use(t) ==
    /\ pc[t] = "use"
    /\ seg' = [seg EXCEPT ![field[obj[t]].seg].written = TRUE]
    /\ Finish(t)
    /\ UNCHANGED <<fd, it, mgrVars, objVars, names, aborted>>

-------------------------------------------------------------------------------
(* destroy, by the thread t.                                                 *)

\* Lock, find and erase.  An id that is not there ends it with -1.
FindAndErase(t) ==
    /\ Idle(t)
    /\ LockFree
    /\ \E i \in Id :
         /\ MayUse(t, i)
         /\ map[i] # None
         /\ arg' = [arg EXCEPT ![t] = i]
         /\ it' = [it EXCEPT ![t] = map[i]]
         /\ map' = [map EXCEPT ![i] = None]
    /\ lock' = t
    /\ pc' = [pc EXCEPT ![t] = "read"]
    /\ UNCHANGED <<size, fd, obj, nodeObj, objVars, kernelVars, aborted>>

\* obj = it->second, with the node erased and the lock still held; unlock.
\* What is found there is deleted unless it is NULL.
ReadErased(t) ==
    /\ pc[t] = "read"
    /\ IF nodeObj[it[t]] # None
       THEN /\ obj' = [obj EXCEPT ![t] = nodeObj[it[t]]]
            /\ pc' = [pc EXCEPT ![t] = "delete"]
            /\ UNCHANGED <<arg, size>>
       ELSE Finish(t)
    /\ it' = [it EXCEPT ![t] = None]
    /\ lock' = None
    /\ UNCHANGED <<fd, map, nodeObj, objVars, kernelVars, aborted>>

\* The destructor: munmap, close, shm_unlink, and an assertion on each.  What is
\* no object is taken to fail one of them.
Delete(t) ==
    LET o == obj[t] IN
    /\ pc[t] = "delete"
    /\ live' = live \ {o}
    /\ names' = Unlinked(field[o].id)
    /\ aborted' = (o \notin live \/ names[NameOf(field[o].id)] = None)
    /\ Finish(t)
    /\ UNCHANGED <<fd, it, mgrVars, field, seg>>

-------------------------------------------------------------------------------
\* The constructor's stringstream and name, or whatever else some thread puts on
\* the heap, take the place of a node that was erased, and write there.
Allocate ==
    /\ "nodeReuse" \in Misuse \/ \A t \in Thread : pc[t] # "read"
    /\ \E n \in FreeNodes, o \in Obj \cup {None} :
         nodeObj' = [nodeObj EXCEPT ![n] = o]
    /\ UNCHANGED <<userVars, lock, map, objVars, kernelVars, aborted>>

\* The process ends, wherever it is, and another one is given its pid.  What
\* it had mapped is gone; the names and what is in the segments stay.
Restart ==
    /\ pc' = [t \in Thread |-> "idle"]
    /\ arg' = [t \in Thread |-> None]
    /\ size' = [t \in Thread |-> 0]
    /\ fd' = [t \in Thread |-> None]
    /\ it' = [t \in Thread |-> None]
    /\ obj' = [t \in Thread |-> None]
    /\ lock' = None
    /\ map' = [i \in Id |-> None]
    /\ nodeObj' = [n \in Node |-> None]
    /\ live' = {}
    /\ field' = [o \in Obj |-> [id |-> None, seg |-> None, size |-> 0]]
    /\ aborted' = FALSE
    /\ UNCHANGED kernelVars

ThreadStep(t) ==
    \/ StartCreate(t) \/ Open(t) \/ MapSegment(t) \/ Insert(t)
    \/ Get(t) \/ Use(t)
    \/ FindAndErase(t) \/ ReadErased(t) \/ Delete(t)

Next ==
    \/ ~aborted /\ \E t \in Thread : ThreadStep(t)
    \/ ~aborted /\ Allocate
    \/ Restart

Spec == Init /\ [][Next]_vars
===============================================================================
