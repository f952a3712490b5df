------------------------------ MODULE RowLocks ------------------------------
(***************************************************************************)
(* PostgreSQL's row locks as the transactions of this library use them: a  *)
(* lock is taken by SELECT ... FOR UPDATE, UPDATE, DELETE or an INSERT on  *)
(* a unique key, belongs to one transaction, and is given up when that     *)
(* transaction ends.  An advisory lock (pg_advisory_xact_lock) is one more *)
(* lock.  A module that models transactions INSTANCEs this one with its    *)
(* rows as Lock; a transaction applies its writes when it commits, which   *)
(* nobody can tell from applying them earlier because it holds the lock of *)
(* every row it writes.                                                    *)
(***************************************************************************)
CONSTANTS
    Process,    \* the concurrent requests, one transaction each at a time
    NoProcess,
    Lock        \* what can be locked

VARIABLE
    holder      \* the transaction that holds each lock

LocksTypeOK == holder \in [Lock -> Process \cup {NoProcess}]

NoLocks == holder = [l \in Lock |-> NoProcess]

Free(p, l) == holder[l] \in {NoProcess, p}

Take(p, l) ==
    /\ Free(p, l)
    /\ holder' = [holder EXCEPT ![l] = p]

ReleaseAll(p) ==
    holder' = [l \in Lock |-> IF holder[l] = p THEN NoProcess ELSE holder[l]]

(* wants[p] holds the locks p's next statement could take.  A set of         *)
(* transactions that only wait for each other is a deadlock.                 *)
Deadlocked(p, wants) ==
    \E group \in SUBSET Process :
        /\ p \in group
        /\ \A q \in group :
              /\ wants[q] # {}
              /\ \A l \in wants[q] : holder[l] \in group \ {q}

=============================================================================
