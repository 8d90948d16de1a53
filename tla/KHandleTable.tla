----------------------------- MODULE KHandleTable -----------------------------
(* The handle table of a process, and the reference counts of the objects in it    *)
(* (KAutoObject).  Threads create objects and give them handles, at once (Add) or   *)
(* in two steps (Reserve, then Register or Unreserve), look up one handle or        *)
(* several, close handles, and finalize the table.  What is done under the spin     *)
(* lock is one step, except that Open and Close are loops around a compare-and-     *)
(* swap: the count is read in one step and swapped in another.                      *)
EXTENDS Integers, Sequences, FiniteSets, FiniteSetsExt, Functions

CONSTANTS Threads, NoThread, Objects, Null,
          TableSize,     \* the size given to Initialize
          MaxLinearId,   \* 0x7FFF in the code
          MaxHandles     \* the number of handles a lookup may ask for

ASSUME TableAssumption ==
    /\ NoThread \notin Threads /\ Null \notin Objects
    /\ IsFiniteSet(Objects) /\ Objects \subseteq Nat
    /\ TableSize \in Nat \ {0} /\ MaxLinearId \in Nat \ {0} /\ MaxHandles \in Nat

VARIABLES
    table,    \* the members of KHandleTable
    lock,     \* the thread that holds m_lock between two steps
    refs,     \* m_ref_count of each object
    free,     \* the objects that are not allocated
    pc,       \* where a thread is
    held,     \* the references a thread owns, in the order it closes them
    todo,     \* the handles it still has to look up
    reserved, \* the handle it has reserved
    seen,     \* the count it has read last, until it is used
    fin,      \* the index Finalize has come to
    granted,  \* which object each handle stands for
    issued    \* the handles given out last, MaxLinearId of them at most

threadVars == <<pc, held, todo, reserved, seen, fin>>
ghostVars  == <<granted, issued>>
vars == <<table, lock, refs, free, threadVars, ghostVars>>

MinLinearId == 1
Indices == 0..TableSize - 1
Handles == [index : Indices, id : MinLinearId..MaxLinearId]
NoHandle == [index |-> 0, id |-> 0]

\* An entry holds a linear identifier or, while it is free, the next free index: the
\* two share their storage.
Tables == [objects : [Indices -> Objects \cup {Null}], info : [Indices -> (-1..MaxLinearId) \cup Indices],
           free_head_index : -1..TableSize - 1, table_size : {0, TableSize},
           next_linear_id : MinLinearId..MaxLinearId, count : 0..TableSize]

TypeOK ==
    /\ table \in Tables
    /\ lock \in Threads \cup {NoThread}
    /\ refs \in [Objects -> Nat] /\ free \subseteq Objects
    /\ pc \in [Threads -> {"idle", "reserved", "created", "lookup", "openForTable", "open",
                           "using", "closing", "close", "destroy"}]
    /\ held \in [Threads -> Seq(Objects)]
    /\ todo \in [Threads -> Seq(Handles)]
    /\ reserved \in [Threads -> Handles \cup {NoHandle}]
    /\ seen \in [Threads -> Nat]
    /\ fin \in [Threads -> 0..TableSize]
    /\ granted \in [Handles -> Objects \cup {Null}]
    /\ issued \in Seq(Handles)

Init ==
    /\ table = [objects |-> [i \in Indices |-> Null], info |-> [i \in Indices |-> i - 1],
                free_head_index |-> TableSize - 1, table_size |-> TableSize,
                next_linear_id |-> MinLinearId, count |-> 0]
    /\ lock = NoThread
    /\ refs = [o \in Objects |-> 0] /\ free = Objects
    /\ pc = [t \in Threads |-> "idle"]
    /\ held = [t \in Threads |-> <<>>] /\ todo = [t \in Threads |-> <<>>]
    /\ reserved = [t \in Threads |-> NoHandle]
    /\ seen = [t \in Threads |-> 0] /\ fin = [t \in Threads |-> TableSize]
    /\ granted = [h \in Handles |-> Null] /\ issued = <<>>

-----------------------------------------------------------------------------
(* The table.                                                                *)

AllocateEntry(T) ==
    [T EXCEPT !.free_head_index = T.info[@], !.count = @ + 1]

\* Mutant: the entry does not point to the rest of the list.
FreeEntryUnlinked(T, i) ==
    [T EXCEPT !.objects[i] = Null, !.free_head_index = i, !.count = @ - 1]
FreeEntry(T, i) ==
    [T EXCEPT !.objects[i] = Null, !.info[i] = T.free_head_index,
              !.free_head_index = i, !.count = @ - 1]

AllocateLinearId(T) ==
    [T EXCEPT !.next_linear_id = IF @ + 1 > MaxLinearId THEN MinLinearId ELSE @ + 1]

\* The handle that the next allocation makes, and the table after it.
NextHandle(T) == [index |-> T.free_head_index, id |-> T.next_linear_id]
Allocate(T)   == AllocateLinearId(AllocateEntry(T))

SetEntry(T, h, o) == [T EXCEPT !.info[h.index] = h.id, !.objects[h.index] = o]

\* Mutant: whatever the entry holds now.
IsValidIndex(T, h) == h.index < T.table_size /\ T.objects[h.index] # Null
IsValidHandle(T, h) ==
    /\ h.index < T.table_size
    /\ T.objects[h.index] # Null
    /\ T.info[h.index] = h.id

GetObjectImpl(T, h) == IF IsValidHandle(T, h) THEN T.objects[h.index] ELSE Null

HasRoom == table.count < table.table_size

Issue(h) ==
    LET all == Append(issued, h) IN
    issued' = IF Len(all) > MaxLinearId THEN Tail(all) ELSE all

-----------------------------------------------------------------------------
(* References.                                                               *)

\* A thread begins to close what it holds; a thread with nothing to close is done.
ThenClose(t, s) ==
    /\ held' = [held EXCEPT ![t] = s]
    /\ pc' = [pc EXCEPT ![t] = IF s = <<>> /\ fin[t] = TableSize THEN "idle" ELSE "closing"]

\* KAutoObject::Open: the count is read ...
LoadForOpen(t, o, then) ==
    /\ seen' = [seen EXCEPT ![t] = refs[o]]
    /\ pc' = [pc EXCEPT ![t] = then]

\* ... and swapped, unless it has changed.  A count of zero is left alone; the callers
\* do not look at the result.
\* Mutant: it is stored.
OpenStore(t, o) ==
    refs' = IF seen[t] = 0 THEN refs ELSE [refs EXCEPT ![o] = seen[t] + 1]
OpenSwap(t, o) ==
    /\ seen[t] \in {0, refs[o]}
    /\ refs' = IF seen[t] = 0 THEN refs ELSE [refs EXCEPT ![o] = seen[t] + 1]

\* The swap failed: what was found is the count to try next.
Reload(t, o) ==
    /\ seen[t] \notin {0, refs[o]}
    /\ seen' = [seen EXCEPT ![t] = refs[o]]

\* KAutoObject::Close, of the first reference the thread holds.
CloseLoad(t) ==
    /\ pc[t] = "closing" /\ held[t] # <<>>
    /\ seen' = [seen EXCEPT ![t] = refs[Head(held[t])]]
    /\ IF seen'[t] = 0
       THEN ThenClose(t, Tail(held[t]))
       ELSE pc' = [pc EXCEPT ![t] = "close"] /\ UNCHANGED held
    /\ UNCHANGED <<table, lock, refs, free, todo, reserved, fin, ghostVars>>

CloseSwap(t) ==
    LET o == Head(held[t]) IN
    /\ pc[t] = "close" /\ refs[o] = seen[t]
    /\ refs' = [refs EXCEPT ![o] = @ - 1]
    /\ IF seen[t] = 1
       THEN pc' = [pc EXCEPT ![t] = "destroy"] /\ UNCHANGED held
       ELSE ThenClose(t, Tail(held[t]))
    /\ seen' = [seen EXCEPT ![t] = 0]
    /\ UNCHANGED <<table, lock, free, todo, reserved, fin, ghostVars>>

CloseRetry(t) ==
    /\ pc[t] = "close" /\ Reload(t, Head(held[t]))
    /\ IF seen'[t] = 0
       THEN ThenClose(t, Tail(held[t]))
       ELSE UNCHANGED <<pc, held>>
    /\ UNCHANGED <<table, lock, refs, free, todo, reserved, fin, ghostVars>>

\* Destroy: the object goes back to where it was allocated.
Destroy(t) ==
    /\ pc[t] = "destroy"
    /\ free' = free \cup {Head(held[t])}
    /\ ThenClose(t, Tail(held[t]))
    /\ UNCHANGED <<table, lock, refs, todo, reserved, seen, fin, ghostVars>>

-----------------------------------------------------------------------------
(* Handles.                                                                  *)

\* A thread creates an object, with the handle it has reserved or before Add.  Which
\* free object it gets makes no difference.
Create(t) ==
    /\ pc[t] \in {"idle", "reserved"} /\ free # {}
    /\ refs' = [refs EXCEPT ![Min(free)] = 1]
    /\ free' = free \ {Min(free)}
    /\ held' = [held EXCEPT ![t] = <<Min(free)>>]
    /\ pc' = [pc EXCEPT ![t] = "created"]
    /\ UNCHANGED <<table, lock, todo, reserved, seen, fin, ghostVars>>

\* Add; the caller closes its own reference afterwards.
Add(t) ==
    LET h == NextHandle(table)
        o == held[t][1]
    IN
    /\ pc[t] = "created" /\ reserved[t] = NoHandle /\ lock = NoThread
    /\ IF HasRoom
       THEN /\ table' = SetEntry(Allocate(table), h, o)
            /\ granted' = [granted EXCEPT ![h] = o]
            /\ Issue(h)
            /\ lock' = t
            /\ LoadForOpen(t, o, "openForTable")
            /\ UNCHANGED held
       ELSE ThenClose(t, held[t]) /\ UNCHANGED <<table, lock, seen, ghostVars>>
    /\ UNCHANGED <<refs, free, todo, reserved, fin>>

Reserve(t) ==
    /\ pc[t] = "idle" /\ lock = NoThread /\ HasRoom
    /\ reserved' = [reserved EXCEPT ![t] = NextHandle(table)]
    /\ Issue(NextHandle(table))
    /\ table' = Allocate(table)
    /\ pc' = [pc EXCEPT ![t] = "reserved"]
    /\ UNCHANGED <<lock, refs, free, held, todo, seen, fin, granted>>

\* The creation failed.
Unreserve(t) ==
    LET i == reserved[t].index IN
    /\ pc[t] = "reserved" /\ lock = NoThread
    /\ table' = IF i < table.table_size THEN FreeEntry(table, i) ELSE table
    /\ reserved' = [reserved EXCEPT ![t] = NoHandle]
    /\ pc' = [pc EXCEPT ![t] = "idle"]
    /\ UNCHANGED <<lock, refs, free, held, todo, seen, fin, ghostVars>>

Register(t) ==
    LET h == reserved[t]
        o == held[t][1]
    IN
    /\ pc[t] = "created" /\ h # NoHandle /\ lock = NoThread
    /\ reserved' = [reserved EXCEPT ![t] = NoHandle]
    /\ IF h.index < table.table_size
       THEN /\ table' = SetEntry(table, h, o)
            /\ granted' = [granted EXCEPT ![h] = o]
            /\ lock' = t
            /\ LoadForOpen(t, o, "openForTable")
            /\ UNCHANGED held
       ELSE ThenClose(t, held[t]) /\ UNCHANGED <<table, lock, seen, granted>>
    /\ UNCHANGED <<refs, free, todo, fin, issued>>

\* The Open of Add and Register, which ends with the lock.
OpenedForTable(t) ==
    /\ pc[t] = "openForTable"
    /\ OpenSwap(t, held[t][1])
    /\ lock' = NoThread
    /\ ThenClose(t, held[t])
    /\ seen' = [seen EXCEPT ![t] = 0]
    /\ UNCHANGED <<table, free, todo, reserved, fin, ghostVars>>

\* GetObject, with one handle, and GetMultipleObjects; GetObjectByIndex is the lookup
\* of the handle that is at the index.
GetObjects(t, handles) ==
    /\ pc[t] = "idle" /\ lock = NoThread
    /\ lock' = t
    /\ todo' = [todo EXCEPT ![t] = handles]
    /\ pc' = [pc EXCEPT ![t] = "lookup"]
    /\ UNCHANGED <<table, refs, free, held, reserved, seen, fin, ghostVars>>

Lookup(t) ==
    /\ pc[t] = "lookup" /\ todo[t] # <<>>
    /\ LET o == GetObjectImpl(table, Head(todo[t])) IN
       IF o # Null
       THEN LoadForOpen(t, o, "open") /\ UNCHANGED <<lock, held, todo>>
       ELSE /\ lock' = NoThread
            /\ todo' = [todo EXCEPT ![t] = <<>>]
            /\ ThenClose(t, held[t])
            /\ UNCHANGED seen
    /\ UNCHANGED <<table, refs, free, reserved, fin, ghostVars>>

Opened(t) ==
    LET o == GetObjectImpl(table, Head(todo[t])) IN
    /\ pc[t] = "open"
    /\ OpenSwap(t, o)
    /\ held' = [held EXCEPT ![t] = Append(@, o)]
    /\ todo' = [todo EXCEPT ![t] = Tail(@)]
    /\ pc' = [pc EXCEPT ![t] = "lookup"]
    /\ seen' = [seen EXCEPT ![t] = 0]
    /\ UNCHANGED <<table, lock, free, reserved, fin, ghostVars>>

OpenRetry(t) ==
    /\ \/ pc[t] = "open" /\ Reload(t, GetObjectImpl(table, Head(todo[t])))
       \/ pc[t] = "openForTable" /\ Reload(t, held[t][1])
    /\ UNCHANGED <<table, lock, refs, free, pc, held, todo, reserved, fin, ghostVars>>

\* Every handle was found: the caller uses the objects, and closes them.
Found(t) ==
    /\ pc[t] = "lookup" /\ todo[t] = <<>>
    /\ lock' = NoThread
    /\ pc' = [pc EXCEPT ![t] = "using"]
    /\ UNCHANGED <<table, refs, free, held, todo, reserved, seen, fin, ghostVars>>

Used(t) ==
    /\ pc[t] = "using"
    /\ ThenClose(t, held[t])
    /\ UNCHANGED <<table, lock, refs, free, todo, reserved, seen, fin, ghostVars>>

Remove(t, h) ==
    /\ pc[t] = "idle" /\ lock = NoThread /\ IsValidHandle(table, h)
    /\ table' = FreeEntry(table, h.index)
    /\ granted' = [granted EXCEPT ![h] = Null]
    /\ ThenClose(t, <<table.objects[h.index]>>)
    /\ UNCHANGED <<lock, refs, free, todo, reserved, seen, fin, issued>>

\* Finalize: the table is empty from here on; then every entry is closed, unlocked.
Finalize(t) ==
    /\ pc[t] = "idle" /\ lock = NoThread /\ table.table_size # 0
    /\ table' = [table EXCEPT !.table_size = 0]
    /\ granted' = [h \in Handles |-> Null]
    /\ fin' = [fin EXCEPT ![t] = 0]
    /\ pc' = [pc EXCEPT ![t] = "closing"]
    /\ UNCHANGED <<lock, refs, free, held, todo, reserved, seen, issued>>

FinalizeNext(t) ==
    /\ pc[t] = "closing" /\ held[t] = <<>>
    /\ LET o == table.objects[fin[t]] IN
       /\ held' = [held EXCEPT ![t] = IF o = Null THEN <<>> ELSE <<o>>]
       /\ fin' = [fin EXCEPT ![t] = @ + 1]
       /\ pc' = [pc EXCEPT ![t] = IF o = Null /\ fin'[t] = TableSize THEN "idle" ELSE @]
    /\ UNCHANGED <<table, lock, refs, free, todo, reserved, seen, ghostVars>>

Next ==
    \E t \in Threads :
        \/ Create(t) \/ Add(t) \/ Reserve(t) \/ Unreserve(t) \/ Register(t) \/ OpenedForTable(t)
        \/ \E n \in 1..MaxHandles : \E handles \in [1..n -> Handles] : GetObjects(t, handles)
        \/ Lookup(t) \/ Opened(t) \/ OpenRetry(t) \/ Found(t) \/ Used(t)
        \/ \E h \in Handles : Remove(t, h)
        \/ Finalize(t) \/ FinalizeNext(t)
        \/ CloseLoad(t) \/ CloseSwap(t) \/ CloseRetry(t) \/ Destroy(t)

Spec == Init /\ [][Next]_vars

-----------------------------------------------------------------------------

\* The entries from i on in the free list; m is how many may follow.
FreeFrom[m \in 0..TableSize, i \in -1..TableSize - 1] ==
    IF i = -1 \/ m = 0 THEN <<>> ELSE <<i>> \o FreeFrom[m - 1, table.info[i]]

\* The free list that AllocateEntry and FreeEntry keep in the entries holds every
\* entry that has no object and is not reserved, once, and m_count counts the others:
\* also while a reservation leaves an entry in neither state.
FreeListIsWhole ==
    LET list  == FreeFrom[TableSize, table.free_head_index]
        taken == {i \in Indices : \/ table.objects[i] # Null
                                 \/ \E t \in Threads : reserved[t] # NoHandle /\ reserved[t].index = i}
    IN  table.table_size # 0 =>
            /\ Range(list) = Indices \ taken
            /\ Len(list) = Cardinality(Range(list))
            /\ table.count = Cardinality(taken)
WellFormed == TypeOK /\ FreeListIsWhole

\* The count of an object is the number of references to it, those of the entries of
\* the table (until Finalize has closed them) and of the threads: so Open, which runs
\* beside the Close of other threads, always finds an object that is alive, an object
\* is destroyed by exactly one Close, and none outlives the last reference.
ReferencesBalance ==
    \A o \in Objects :
        LET entries == {i \in Indices : /\ table.objects[i] = o
                                        /\ \A t \in Threads : fin[t] = TableSize \/ i >= fin[t]
                                        /\ table.table_size # 0 \/ \E t \in Threads : fin[t] <= i}
            opening == {t \in Threads : pc[t] = "openForTable" /\ held[t][1] = o}
            mine(t) == {n \in DOMAIN held[t] : held[t][n] = o /\ ~(pc[t] = "destroy" /\ n = 1)}
        IN  /\ refs[o] = Cardinality(entries) - Cardinality(opening)
                          + MapThenSumSet(LAMBDA t : Cardinality(mine(t)), Threads)
            /\ o \in free => refs[o] = 0
            /\ refs[o] = 0 /\ o \notin free => \E t \in Threads : pc[t] = "destroy" /\ Head(held[t]) = o

\* A handle finds the object it was given out for as long as it is not closed, and
\* then nothing: a reused entry is told apart by its linear identifier, and the same
\* handle is given out again only MaxLinearId handles later.
HandleNamesItsObject ==
    /\ \A h \in Handles : GetObjectImpl(table, h) = granted[h]
    /\ \A m, n \in DOMAIN issued : m # n => issued[m].id # issued[n].id
=============================================================================
