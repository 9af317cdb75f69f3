---------------------------- MODULE SharedMemProps ----------------------------
(* What the shared memory manager must guarantee.                            *)
EXTENDS SharedMem

TypeOK ==
    /\ pc \in [Thread -> {"idle", "open", "map", "insert", "use", "read", "delete"}]
    /\ arg \in [Thread -> Id \cup {None}]
    /\ size \in [Thread -> Size \cup {0}]
    /\ fd \in [Thread -> Seg \cup {None}]
    /\ it \in [Thread -> Node \cup {None}]
    /\ obj \in [Thread -> Obj \cup {None}]
    /\ lock \in Thread \cup {None}
    /\ map \in [Id -> Node \cup {None}]
    /\ nodeObj \in [Node -> Obj \cup {None}]
    /\ live \subseteq Obj
    /\ field \in [Obj -> Fields]
    /\ names \in [Id -> Seg \cup {None}]
    /\ seg \in [Seg -> [size : Size \cup {0}, written : BOOLEAN]]
    /\ aborted \in BOOLEAN

\* The object o is whole: alive, for the id i, on the segment that the name of
\* i leads to, which is as long as the object says.
Whole(o, i) ==
    /\ o \in live
    /\ field[o].id = i
    /\ names[i] = field[o].seg
    /\ names[i] # None
    /\ seg[names[i]].size = field[o].size

-------------------------------------------------------------------------------
\* What is in the map can be used and announced to a sandbox: each entry is
\* whole, though segments are opened, sized and unlinked outside of the lock
\* (shared_mem_mgr.cc:77-83, 86-105).
MapIsBacked == \A i \in Id : map[i] # None => Whole(nodeObj[map[i]], i)

\* Memory that a user of create or get writes to is mapped and long enough
\* until the user is done with it (testing.cc:267-278, 296-302).
UseIsSafe == \A t \in Thread : pc[t] = "use" => Whole(obj[t], arg[t])

\* A new object has the size that was asked for and holds zeros, even if a
\* process that had this pid before left a segment of the same name.
FreshIsZero ==
    \A t \in Thread :
        pc[t] = "insert" =>
            seg[field[obj[t]].seg] = [size |-> size[t], written |-> FALSE]

\* No assertion of the destructor fails (shared_mem_mgr.cc:45, 48, 51): each
\* name is unlinked once, by the object it belongs to.
AssertionsHold == ~aborted

-------------------------------------------------------------------------------
(* The inductive invariant, for users that misuse nothing.                   *)

\* Names lead to segments of their own, entries are nodes of their own.
Injective(f) == \A i, j \in Id : f[i] = f[j] /\ f[i] # None => i = j

\* No two threads work on one id.
OneUser ==
    /\ \A t \in Thread : ~Idle(t) => arg[t] \in Id
    /\ \A t, u \in Thread : ~Idle(t) /\ ~Idle(u) /\ arg[t] = arg[u] => t = u

LockInv == \A t \in Thread : pc[t] = "read" <=> lock = t

\* Where a create is, by its pc.
CreateInv(t) ==
    /\ pc[t] \in {"open", "map", "insert"} =>
          map[arg[t]] = None /\ size[t] \in Size
    /\ pc[t] = "map" =>
          /\ fd[t] \in Seg /\ fd[t] = names[arg[t]]
          /\ seg[fd[t]] = [size |-> 0, written |-> FALSE]
    /\ pc[t] = "insert" => Whole(obj[t], arg[t]) /\ field[obj[t]].size = size[t]

\* Where a use or a destroy is.
DestroyInv(t) ==
    /\ pc[t] = "use" => map[arg[t]] # None /\ obj[t] = nodeObj[map[arg[t]]]
    /\ pc[t] = "read" =>
          /\ map[arg[t]] = None
          /\ it[t] \in Node /\ \A i \in Id : map[i] # it[t]
          /\ Whole(nodeObj[it[t]], arg[t])
    /\ pc[t] = "delete" => map[arg[t]] = None /\ Whole(obj[t], arg[t])

\* Ids, names, entries, objects and the threads at work on them correspond:
\* what each thread will do next to an object, no other can disturb.
IInv ==
    /\ TypeOK
    /\ Injective(names) /\ Injective(map)
    /\ OneUser
    /\ LockInv
    /\ \A t \in Thread : CreateInv(t) /\ DestroyInv(t)
    /\ MapIsBacked
    /\ FreshIsZero
    /\ AssertionsHold
===============================================================================
