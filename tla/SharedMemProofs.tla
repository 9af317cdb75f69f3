---------------------------- MODULE SharedMemProofs ----------------------------
(***************************************************************************)
(* Proofs about SharedMem, for any number of threads, ids, sizes, objects,  *)
(* nodes and segments.                                                      *)
(***************************************************************************)
EXTENDS SharedMemProps, TLAPS

-------------------------------------------------------------------------------
(* Types.                                                                    *)

\* Types alone are not inductive: a thread that is at work has an id, and one
\* that is about to read an erased node has a node.
TypeInv ==
    /\ TypeOK
    /\ \A t \in Thread : ~Idle(t) => arg[t] \in Id
    /\ \A t \in Thread : pc[t] = "read" => it[t] \in Node

\* ftruncate of an empty segment.
LEMMA Grown ==
    ASSUME NEW n, NEW s, s = [size |-> 0, written |-> FALSE],
           NEW longer, longer = [s EXCEPT !.size = n]
    PROVE  longer = [size |-> n, written |-> FALSE]
  OBVIOUS

LEMMA TypeInit == Init => TypeInv
  <1> SUFFICES ASSUME Init PROVE TypeInv
    OBVIOUS
  <1>1. /\ pc \in [Thread -> {"idle"}] /\ arg \in [Thread -> {None}]
        /\ size \in [Thread -> {0}] /\ fd \in [Thread -> {None}]
        /\ it \in [Thread -> {None}] /\ obj \in [Thread -> {None}]
    BY DEF Init, InitProcess
  <1>2. /\ map \in [Id -> Node \cup {None}] /\ nodeObj \in [Node -> Obj \cup {None}]
        /\ lock = None /\ live = {} /\ aborted = FALSE
    BY DEF Init, InitProcess
  <1>3. field \in [Obj -> Fields] /\ names \in [Id -> Seg \cup {None}]
    BY DEF Init, InitProcess, Fields
  <1>4. seg \in [Seg -> [size : Size \cup {0}, written : BOOLEAN]]
    BY DEF Init
  <1>5. TypeOK
    BY <1>1, <1>2, <1>3, <1>4 DEF TypeOK
  <1> QED
    BY <1>1, <1>5 DEF TypeInv, Idle

LEMMA TypeStep ==
    ASSUME TypeInv, [Next]_vars
    PROVE  TypeInv'
  <1> USE SharedMemAssumption DEF TypeInv, TypeOK, Idle
  <1>1. ASSUME NEW t \in Thread, StartCreate(t) PROVE TypeInv'
    BY <1>1 DEF StartCreate, mgrVars, objVars, kernelVars
  <1>2. ASSUME NEW t \in Thread, Open(t) PROVE TypeInv'
    BY <1>2 DEF Open, NameOf, FreeSegs, Reopened, mgrVars, objVars
  <1>3. ASSUME NEW t \in Thread, MapSegment(t) PROVE TypeInv'
    <2>1. seg' \in [Seg -> [size : Size \cup {0}, written : BOOLEAN]]
      BY <1>3 DEF MapSegment
    <2>2. live' \subseteq Obj /\ field' \in [Obj -> Fields]
      BY <1>3 DEF MapSegment, Fields
    <2> QED
      BY <1>3, <2>1, <2>2 DEF MapSegment, mgrVars
  <1>4. ASSUME NEW t \in Thread, Insert(t) PROVE TypeInv'
    BY <1>4 DEF Insert, FreeNodes, objVars, kernelVars
  <1>5. ASSUME NEW t \in Thread, Get(t) PROVE TypeInv'
    BY <1>5 DEF Get, mgrVars, objVars, kernelVars
  <1>6. ASSUME NEW t \in Thread, Use(t) PROVE TypeInv'
    <2>1. seg' \in [Seg -> [size : Size \cup {0}, written : BOOLEAN]]
      BY <1>6 DEF Use
    <2> QED
      BY <1>6, <2>1 DEF Use, Finish, mgrVars, objVars
  <1>7. ASSUME NEW t \in Thread, FindAndErase(t) PROVE TypeInv'
    BY <1>7 DEF FindAndErase, objVars, kernelVars
  <1>8. ASSUME NEW t \in Thread, ReadErased(t) PROVE TypeInv'
    BY <1>8 DEF ReadErased, Finish, objVars, kernelVars
  <1>9. ASSUME NEW t \in Thread, Delete(t) PROVE TypeInv'
    BY <1>9 DEF Delete, Finish, Unlinked, mgrVars
  <1>10. CASE Restart
    BY <1>10 DEF Restart, kernelVars, Fields
  <1>11. CASE UNCHANGED vars
    BY <1>11 DEF vars, userVars, mgrVars, objVars, kernelVars
  <1>12. CASE Allocate
    BY <1>12 DEF Allocate, FreeNodes, userVars, objVars, kernelVars
  <1> QED
    BY <1>1, <1>2, <1>3, <1>4, <1>5, <1>6, <1>7, <1>8, <1>9, <1>10, <1>11, <1>12
    DEF Next, ThreadStep

\* Every variable keeps its type, whatever users do with the manager
\* (shared_mem_mgr.cc:13-119).
THEOREM TypeCorrect == Spec => []TypeOK
  <1>1. TypeInv => TypeOK
    BY DEF TypeInv
  <1> QED
    BY TypeInit, TypeStep, <1>1, PTL DEF Spec

-------------------------------------------------------------------------------
(* The inductive invariant.  Each lemma is about one action.                 *)

LEMMA TypesOfInv == IInv => TypeInv
  BY DEF IInv, TypeInv, OneUser, DestroyInv

LEMMA InvInit == Init => IInv
  <1> SUFFICES ASSUME Init PROVE IInv
    OBVIOUS
  <1>1. TypeOK
    BY TypeInit DEF TypeInv
  <1>2. /\ Injective(names) /\ Injective(map)
        /\ OneUser /\ LockInv
    BY SharedMemAssumption
    DEF Init, InitProcess, Injective, OneUser, LockInv, Idle
  <1>3. \A t \in Thread : CreateInv(t) /\ DestroyInv(t)
    BY DEF Init, InitProcess, CreateInv, DestroyInv
  <1>4. MapIsBacked /\ FreshIsZero /\ AssertionsHold
    BY DEF Init, InitProcess, MapIsBacked, FreshIsZero, AssertionsHold
  <1> QED
    BY <1>1, <1>2, <1>3, <1>4 DEF IInv

\* create begins: nothing but the thread's own state changes.
LEMMA StartCreateInv ==
    ASSUME Misuse = {}, IInv, NEW t \in Thread, StartCreate(t)
    PROVE  IInv'
  <1> USE DEF IInv
  <1>1. TypeOK /\ TypeOK'
    BY TypesOfInv, TypeStep DEF TypeInv, Next, ThreadStep, AssertionsHold
  <1>2. Injective(names)' /\ Injective(map)'
    BY DEF StartCreate, mgrVars, kernelVars
  <1>3. OneUser' /\ LockInv'
    BY DEF StartCreate, Idle, MayUse, mgrVars, OneUser, LockInv, TypeOK
  <1>4. ASSUME NEW u \in Thread PROVE CreateInv(u)'
    BY DEF StartCreate, mgrVars, objVars, kernelVars, CreateInv, Whole, TypeOK
  <1>5. ASSUME NEW u \in Thread PROVE DestroyInv(u)'
    BY DEF StartCreate, mgrVars, objVars, kernelVars, DestroyInv, Whole, TypeOK
  <1>6. MapIsBacked'
    BY DEF StartCreate, mgrVars, objVars, kernelVars, Whole, MapIsBacked
  <1>7. FreshIsZero'
    BY DEF StartCreate, objVars, kernelVars, FreshIsZero, TypeOK
  <1>8. AssertionsHold'
    BY DEF StartCreate, AssertionsHold
  <1> QED
    BY <1>1, <1>2, <1>3, <1>4, <1>5, <1>6, <1>7, <1>8

\* A segment is opened: the name was free or led to a segment nobody has an
\* object for, and it is empty from now on.
LEMMA OpenInv ==
    ASSUME Misuse = {}, IInv, NEW t \in Thread, Open(t)
    PROVE  IInv'
  <1> USE DEF IInv
  <1>1. TypeOK /\ TypeOK'
    BY TypesOfInv, TypeStep DEF TypeInv, Next, ThreadStep, AssertionsHold
  <1>2. Injective(names)' /\ Injective(map)'
    BY DEF Open, FreeSegs, mgrVars, Injective
  <1>3. OneUser' /\ LockInv'
    BY DEF Open, mgrVars, OneUser, LockInv, Idle
  <1>4. ASSUME NEW u \in Thread PROVE CreateInv(u)'
    BY DEF Open, NameOf, FreeSegs, Reopened, mgrVars, objVars, CreateInv, Whole,
           OneUser, Injective, Idle, TypeOK
  <1>5. ASSUME NEW u \in Thread PROVE DestroyInv(u)'
    BY DEF Open, NameOf, FreeSegs, mgrVars, objVars, DestroyInv, Whole, OneUser,
           Injective, Idle
  <1>6. MapIsBacked'
    BY <1>1
    DEF Open, NameOf, FreeSegs, mgrVars, objVars, CreateInv, Whole, Injective,
        MapIsBacked, TypeOK
  <1>7. FreshIsZero'
    BY DEF Open, NameOf, FreeSegs, objVars, CreateInv, Whole, OneUser, Injective, Idle,
           FreshIsZero
  <1>8. AssertionsHold'
    BY DEF Open, AssertionsHold
  <1> QED
    BY <1>1, <1>2, <1>3, <1>4, <1>5, <1>6, <1>7, <1>8

\* The segment gets its size, and its object exists.
LEMMA MapSegmentInv ==
    ASSUME Misuse = {}, IInv, NEW t \in Thread, MapSegment(t)
    PROVE  IInv'
  <1> USE DEF IInv
  <1>1. TypeOK /\ TypeOK'
    BY TypesOfInv, TypeStep DEF TypeInv, Next, ThreadStep, AssertionsHold
  <1>2. Injective(names)' /\ Injective(map)'
    BY DEF MapSegment, mgrVars
  <1>3. OneUser' /\ LockInv'
    BY DEF MapSegment, mgrVars, OneUser, LockInv, Idle
  <1>4. ASSUME NEW u \in Thread PROVE CreateInv(u)'
    BY SharedMemAssumption
    DEF MapSegment, mgrVars, CreateInv, Whole, OneUser, Injective, Idle, TypeOK
  <1>5. ASSUME NEW u \in Thread PROVE DestroyInv(u)'
    BY DEF MapSegment, mgrVars, CreateInv, DestroyInv, Whole, OneUser, Injective, Idle
  <1>6. MapIsBacked'
    BY DEF MapSegment, mgrVars, CreateInv, Whole, OneUser, Injective, MapIsBacked, Idle
  <1>7. FreshIsZero'
    <2> SUFFICES ASSUME NEW u \in Thread, pc'[u] = "insert"
                 PROVE  seg'[field'[obj'[u]].seg]
                          = [size |-> size'[u], written |-> FALSE]
      BY DEF FreshIsZero
    <2>1. CASE u = t
      <3>1. PICK o \in Obj \ live :
              /\ field' = [field EXCEPT ![o] = [id |-> arg[t], seg |-> fd[t],
                                               size |-> size[t]]]
              /\ obj' = [obj EXCEPT ![t] = o]
        BY DEF MapSegment
      <3>2. field'[obj'[u]].seg = fd[t]
        BY <2>1, <3>1 DEF TypeOK
      <3>3. /\ fd[t] \in Seg
            /\ seg[fd[t]] = [size |-> 0, written |-> FALSE]
        BY DEF MapSegment, CreateInv
      <3>4. seg'[fd[t]] = [size |-> size[t], written |-> FALSE]
        <4>1. seg' = [seg EXCEPT ![fd[t]].size = size[t]]
          BY DEF MapSegment
        <4>2. seg'[fd[t]] = [seg[fd[t]] EXCEPT !.size = size[t]]
          BY <3>3, <4>1 DEF TypeOK
        <4> QED
          BY <3>3, <4>2, Grown
      <3> QED
        BY <2>1, <3>2, <3>4 DEF MapSegment
    <2>2. CASE u # t
      BY SharedMemAssumption, <2>2 DEF MapSegment, CreateInv, Whole, FreshIsZero
    <2> QED
      BY <2>1, <2>2
  <1>8. AssertionsHold'
    BY DEF MapSegment, AssertionsHold
  <1> QED
    BY <1>1, <1>2, <1>3, <1>4, <1>5, <1>6, <1>7, <1>8

\* The object goes into the map; nobody is between an erase and the read of the
\* erased node, because the lock is free.
LEMMA InsertInv ==
    ASSUME Misuse = {}, IInv, NEW t \in Thread, Insert(t)
    PROVE  IInv'
  <1> USE DEF IInv
  <1>1. TypeOK /\ TypeOK'
    BY TypesOfInv, TypeStep DEF TypeInv, Next, ThreadStep, AssertionsHold
  <1>2. Injective(names)' /\ Injective(map)'
    BY DEF Insert, FreeNodes, kernelVars, Injective
  <1>3. OneUser' /\ LockInv'
    BY DEF Insert, OneUser, LockInv, Idle
  <1>4. ASSUME NEW u \in Thread PROVE CreateInv(u)'
    <2>1. CASE u = t
      BY <2>1 DEF Insert, CreateInv, TypeOK
    <2>2. CASE u # t
      BY <2>2 DEF Insert, objVars, kernelVars, CreateInv, Whole, OneUser, Idle
    <2> QED
      BY <2>1, <2>2
  <1>5. ASSUME NEW u \in Thread PROVE DestroyInv(u)'
    BY SharedMemAssumption
    DEF Insert, LockFree, FreeNodes, objVars, kernelVars, DestroyInv, Whole, OneUser,
        LockInv, MapIsBacked, Idle, TypeOK
  <1>6. MapIsBacked'
    BY DEF Insert, FreeNodes, objVars, kernelVars, CreateInv, Whole, MapIsBacked,
           TypeOK
  <1>7. FreshIsZero'
    BY DEF Insert, objVars, kernelVars, FreshIsZero
  <1>8. AssertionsHold'
    BY DEF Insert, AssertionsHold
  <1> QED
    BY <1>1, <1>2, <1>3, <1>4, <1>5, <1>6, <1>7, <1>8

\* A lookup returns an object that is whole.
LEMMA GetInv ==
    ASSUME Misuse = {}, IInv, NEW t \in Thread, Get(t)
    PROVE  IInv'
  <1> USE DEF IInv
  <1>1. TypeOK /\ TypeOK'
    BY TypesOfInv, TypeStep DEF TypeInv, Next, ThreadStep, AssertionsHold
  <1>2. Injective(names)' /\ Injective(map)'
    BY DEF Get, mgrVars, kernelVars
  <1>3. OneUser' /\ LockInv'
    BY DEF Get, Idle, MayUse, mgrVars, OneUser, LockInv, TypeOK
  <1>4. ASSUME NEW u \in Thread PROVE CreateInv(u)'
    BY DEF Get, mgrVars, objVars, kernelVars, CreateInv, Whole, TypeOK
  <1>5. ASSUME NEW u \in Thread PROVE DestroyInv(u)'
    BY DEF Get, mgrVars, objVars, kernelVars, DestroyInv, Whole, TypeOK
  <1>6. MapIsBacked'
    BY DEF Get, mgrVars, objVars, kernelVars, Whole, MapIsBacked
  <1>7. FreshIsZero'
    BY DEF Get, objVars, kernelVars, FreshIsZero, TypeOK
  <1>8. AssertionsHold'
    BY DEF Get, AssertionsHold
  <1> QED
    BY <1>1, <1>2, <1>3, <1>4, <1>5, <1>6, <1>7, <1>8

\* The user writes to the segment of its own object, and no other.
LEMMA UseInv ==
    ASSUME Misuse = {}, IInv, NEW t \in Thread, Use(t)
    PROVE  IInv'
  <1> USE DEF IInv
  <1>1. TypeOK /\ TypeOK'
    BY TypesOfInv, TypeStep DEF TypeInv, Next, ThreadStep, AssertionsHold
  <1>2. Injective(names)' /\ Injective(map)'
    BY DEF Use, mgrVars
  <1>3. OneUser' /\ LockInv'
    BY DEF Use, Finish, mgrVars, OneUser, LockInv, TypeOK, Idle
  <1>4. ASSUME NEW u \in Thread PROVE CreateInv(u)'
    BY DEF Use, Finish, mgrVars, objVars, CreateInv, DestroyInv, Whole, OneUser,
           Injective, MapIsBacked, Idle
  <1>5. ASSUME NEW u \in Thread PROVE DestroyInv(u)'
    BY DEF Use, Finish, mgrVars, objVars, DestroyInv, Whole, TypeOK
  <1>6. MapIsBacked'
    BY DEF Use, mgrVars, objVars, Whole, MapIsBacked
  <1>7. FreshIsZero'
    BY DEF Use, Finish, objVars, CreateInv, DestroyInv, Whole, OneUser, Injective,
           MapIsBacked, Idle, FreshIsZero, TypeOK
  <1>8. AssertionsHold'
    BY DEF Use, AssertionsHold
  <1> QED
    BY <1>1, <1>2, <1>3, <1>4, <1>5, <1>6, <1>7, <1>8

\* The entry leaves the map, and the lock keeps its node.
LEMMA FindAndEraseInv ==
    ASSUME Misuse = {}, IInv, NEW t \in Thread, FindAndErase(t)
    PROVE  IInv'
  <1> USE DEF IInv
  <1>1. TypeOK /\ TypeOK'
    BY TypesOfInv, TypeStep DEF TypeInv, Next, ThreadStep, AssertionsHold
  <1>2. Injective(names)' /\ Injective(map)'
    BY DEF FindAndErase, kernelVars, Injective
  <1>3. OneUser' /\ LockInv'
    BY SharedMemAssumption
    DEF FindAndErase, Idle, LockFree, MayUse, OneUser, LockInv, TypeOK
  <1>4. ASSUME NEW u \in Thread PROVE CreateInv(u)'
    BY DEF FindAndErase, objVars, kernelVars, CreateInv, Whole, TypeOK
  <1>5. ASSUME NEW u \in Thread PROVE DestroyInv(u)'
    BY SharedMemAssumption
    DEF FindAndErase, Idle, MayUse, objVars, kernelVars, DestroyInv, Whole, MapIsBacked,
        TypeOK
  <1>6. MapIsBacked'
    BY DEF FindAndErase, objVars, kernelVars, Whole, MapIsBacked
  <1>7. FreshIsZero'
    BY DEF FindAndErase, objVars, kernelVars, FreshIsZero
  <1>8. AssertionsHold'
    BY DEF FindAndErase, AssertionsHold
  <1> QED
    BY <1>1, <1>2, <1>3, <1>4, <1>5, <1>6, <1>7, <1>8

\* The node still holds the object that was in the map.
LEMMA ReadErasedInv ==
    ASSUME Misuse = {}, IInv, NEW t \in Thread, ReadErased(t)
    PROVE  IInv'
  <1> USE DEF IInv
  <1>1. TypeOK /\ TypeOK'
    BY TypesOfInv, TypeStep DEF TypeInv, Next, ThreadStep, AssertionsHold
  <1>2. /\ pc[t] = "read" /\ lock' = None
        /\ obj' = [obj EXCEPT ![t] = nodeObj[it[t]]]
        /\ pc' = [pc EXCEPT ![t] = "delete"]
        /\ it' = [it EXCEPT ![t] = None]
        /\ UNCHANGED <<arg, size, fd, map, nodeObj, objVars, kernelVars, aborted>>
    <2>1. nodeObj[it[t]] # None
      BY SharedMemAssumption DEF ReadErased, DestroyInv, Whole, TypeOK
    <2> QED
      BY <2>1 DEF ReadErased
  <1>3. Injective(names)' /\ Injective(map)'
    BY <1>2 DEF kernelVars
  <1>4. OneUser' /\ LockInv'
    BY <1>2, SharedMemAssumption DEF OneUser, LockInv, TypeOK, Idle
  <1>5. ASSUME NEW u \in Thread PROVE CreateInv(u)'
    BY <1>2 DEF objVars, kernelVars, CreateInv, Whole, TypeOK
  <1>6. ASSUME NEW u \in Thread PROVE DestroyInv(u)'
    BY <1>2 DEF objVars, kernelVars, DestroyInv, Whole, TypeOK
  <1>7. MapIsBacked' /\ FreshIsZero' /\ AssertionsHold'
    BY <1>2
    DEF objVars, kernelVars, Whole, MapIsBacked, FreshIsZero, AssertionsHold, TypeOK
  <1> QED
    BY <1>1, <1>3, <1>4, <1>5, <1>6, <1>7

\* The object and its name go, and no other object has that name.
LEMMA DeleteInv ==
    ASSUME Misuse = {}, IInv, NEW t \in Thread, Delete(t)
    PROVE  IInv'
  <1> USE DEF IInv
  <1>1. TypeOK /\ TypeOK'
    BY TypesOfInv, TypeStep DEF TypeInv, Next, ThreadStep, AssertionsHold
  <1>2. Injective(names)' /\ Injective(map)'
    BY DEF Delete, Unlinked, mgrVars, Injective
  <1>3. OneUser' /\ LockInv'
    BY DEF Delete, Finish, mgrVars, OneUser, LockInv, TypeOK, Idle
  <1>4. ASSUME NEW u \in Thread PROVE CreateInv(u)'
    BY DEF Delete, Finish, Unlinked, NameOf, mgrVars, CreateInv, DestroyInv, Whole,
           OneUser, Idle
  <1>5. ASSUME NEW u \in Thread PROVE DestroyInv(u)'
    BY DEF Delete, Finish, Unlinked, NameOf, mgrVars, DestroyInv, Whole, OneUser, Idle,
           TypeOK
  <1>6. MapIsBacked'
    BY DEF Delete, Unlinked, NameOf, mgrVars, DestroyInv, Whole, MapIsBacked
  <1>7. FreshIsZero'
    BY DEF Delete, Finish, FreshIsZero
  <1>8. AssertionsHold'
    BY DEF Delete, NameOf, AssertionsHold, DestroyInv, Whole
  <1> QED
    BY <1>1, <1>2, <1>3, <1>4, <1>5, <1>6, <1>7, <1>8

\* Nobody holds an iterator to the memory that is handed out.
LEMMA AllocateInv ==
    ASSUME Misuse = {}, IInv, Allocate
    PROVE  IInv'
  <1> USE DEF IInv
  <1>1. TypeOK /\ TypeOK'
    BY TypesOfInv, TypeStep DEF TypeInv, Next, AssertionsHold
  <1>2. /\ \A u \in Thread : pc[u] # "read"
        /\ \A i \in Id : map[i] # None => nodeObj'[map[i]] = nodeObj[map[i]]
        /\ UNCHANGED <<userVars, lock, map, objVars, kernelVars, aborted>>
    BY DEF Allocate, FreeNodes, TypeOK
  <1>3. /\ Injective(names)' /\ Injective(map)'
        /\ OneUser' /\ LockInv'
    BY <1>2 DEF userVars, kernelVars, Injective, OneUser, LockInv, Idle
  <1>4. ASSUME NEW u \in Thread PROVE CreateInv(u)' /\ DestroyInv(u)'
    BY <1>2
    DEF userVars, objVars, kernelVars, CreateInv, DestroyInv, Whole, OneUser, Idle
  <1>5. MapIsBacked' /\ FreshIsZero' /\ AssertionsHold'
    BY <1>2
    DEF userVars, objVars, kernelVars, MapIsBacked, Whole, FreshIsZero,
        AssertionsHold
  <1> QED
    BY <1>1, <1>3, <1>4, <1>5

\* Nothing of a process is left but names and segments.
LEMMA RestartInv ==
    ASSUME IInv, Restart
    PROVE  IInv'
  <1> USE DEF IInv
  <1>1. TypeOK'
    BY TypesOfInv, TypeStep DEF TypeInv, Next
  <1>2. /\ Injective(names)' /\ Injective(map)'
        /\ OneUser' /\ LockInv'
    BY <1>1, SharedMemAssumption
    DEF Restart, kernelVars, Injective, OneUser, LockInv, Idle
  <1>3. ASSUME NEW u \in Thread PROVE CreateInv(u)' /\ DestroyInv(u)'
    BY DEF Restart, CreateInv, DestroyInv
  <1>4. MapIsBacked' /\ FreshIsZero' /\ AssertionsHold'
    BY DEF Restart, MapIsBacked, FreshIsZero, AssertionsHold
  <1> QED
    BY <1>1, <1>2, <1>3, <1>4

LEMMA StutterInv ==
    ASSUME IInv, UNCHANGED vars
    PROVE  IInv'
  BY DEF IInv, vars, userVars, mgrVars, objVars, kernelVars, TypeOK, Injective,
         OneUser, LockInv, CreateInv, DestroyInv, Whole, Idle, MapIsBacked,
         FreshIsZero, AssertionsHold

LEMMA InvStep ==
    ASSUME Misuse = {}, IInv, [Next]_vars
    PROVE  IInv'
  <1>1. CASE \E t \in Thread : ThreadStep(t)
    BY <1>1, StartCreateInv, OpenInv, MapSegmentInv, InsertInv, GetInv, UseInv,
       FindAndEraseInv, ReadErasedInv, DeleteInv
    DEF ThreadStep
  <1>2. CASE Restart
    BY <1>2, RestartInv
  <1>3. CASE UNCHANGED vars
    BY <1>3, StutterInv
  <1> QED
    BY <1>1, <1>2, <1>3, AllocateInv DEF Next

\* Ids, entries, objects, names and segments stay in step, for users that work
\* with one thread on an id, create an id once and allocate nothing while a
\* destroy is about to read the node it erased (shared_mem_mgr.cc:77-119).
THEOREM Inductive == Misuse = {} => (Spec => []IInv)
  <1> SUFFICES ASSUME Misuse = {} PROVE Spec => []IInv
    OBVIOUS
  <1>1. IInv /\ [Next]_vars => IInv'
    BY InvStep
  <1> QED
    BY InvInit, <1>1, PTL DEF Spec

-------------------------------------------------------------------------------
(* The properties.                                                           *)

LEMMA InvImplies ==
    ASSUME IInv
    PROVE  MapIsBacked /\ UseIsSafe /\ FreshIsZero /\ AssertionsHold
  <1>1. ASSUME NEW t \in Thread, pc[t] = "use" PROVE Whole(obj[t], arg[t])
    BY <1>1 DEF IInv, OneUser, Idle, DestroyInv, MapIsBacked
  <1> QED
    BY <1>1 DEF IInv, UseIsSafe

\* What is in the map is alive, under its own id, on a segment of its size that
\* its name leads to (shared_mem_mgr.cc:77-105).
THEOREM EntriesAreBacked == Misuse = {} => (Spec => []MapIsBacked)
  BY Inductive, InvImplies, PTL

\* Who works with what create or get returned works with a live object of the id
\* it asked for, on a segment as long as the object says (shared_mem_mgr.cc:108-119).
THEOREM UsersAreSafe == Misuse = {} => (Spec => []UseIsSafe)
  BY Inductive, InvImplies, PTL

\* A new object is zeroed and of the size that was asked for, whatever an earlier
\* process with the pid has left under its name (shared_mem_mgr.cc:22-29).
THEOREM FreshIsZeroed == Misuse = {} => (Spec => []FreshIsZero)
  BY Inductive, InvImplies, PTL

\* No assertion of the destructor fails (shared_mem_mgr.cc:45-51).
THEOREM NoAssertionFails == Misuse = {} => (Spec => []AssertionsHold)
  BY Inductive, InvImplies, PTL
===============================================================================
