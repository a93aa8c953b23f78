--------------------------- MODULE SharedDatabase ---------------------------
(***************************************************************************)
(* SharedDatabase: one LayeredGraphDatabase behind Arc<Mutex<..>>, and the *)
(* threads that hold a handle to it.                                       *)
(*                                                                         *)
(* Of what a query does to the database the model keeps one counter,       *)
(* metrics.queries_executed, which is read when the query starts and       *)
(* written when it ends: what two queries at once would lose.  A thread    *)
(* that panics with the guard in hand poisons the mutex, and lock() turns  *)
(* that into a panic of every thread that calls it from then on.           *)
(***************************************************************************)
EXTENDS Naturals

CONSTANTS Threads, NoThread

ASSUME NoThreadAssumption == NoThread \notin Threads

VARIABLES
    holder,     \* the thread that has the MutexGuard
    poisoned,
    executed,   \* metrics.queries_executed
    seen,       \* its value when the thread's query started
    completed   \* the queries that ended with their guard dropped in order

shared == <<holder, poisoned, executed, seen, completed>>

SharedInit ==
    /\ holder = NoThread
    /\ poisoned = FALSE
    /\ executed = 0
    /\ seen = [t \in Threads |-> 0]
    /\ completed = 0

\* lock(), and the query starts.
Lock(t) ==
    /\ holder = NoThread /\ ~poisoned
    /\ holder' = t
    /\ seen' = [seen EXCEPT ![t] = executed]
    /\ UNCHANGED <<poisoned, executed, completed>>

\* expect("database mutex poisoned")
LockPanics(t) ==
    /\ holder = NoThread /\ poisoned
    /\ UNCHANGED shared

\* The query has returned, Ok or Err; the guard is dropped with the statement.
Unlock(t) ==
    /\ holder = t
    /\ holder' = NoThread
    /\ executed' = seen[t] + 1
    /\ completed' = completed + 1
    /\ UNCHANGED <<poisoned, seen>>

\* The query panics: the guard is dropped while unwinding.
PanicHolding(t) ==
    /\ holder = t
    /\ holder' = NoThread
    /\ poisoned' = TRUE
    /\ UNCHANGED <<executed, seen, completed>>
=============================================================================
