----------------------------- MODULE NamedLock -----------------------------
(***************************************************************************)
(* What packages/saltcorn-data/models/multi_node_mutex.ts promises to a    *)
(* workflow step or to run_js_code's withLock(): a set of exclusive locks  *)
(* addressed by name.  One owner at a time holds a name ("shared names are *)
(* mutually exclusive across nodes", multi_node_mutex.ts:167), and it      *)
(* keeps it until it gives it back itself.  LocalMutex (SQLite) and        *)
(* AdvisoryMutex (PostgreSQL) are shown to implement this specification.   *)
(***************************************************************************)

CONSTANTS
  Owners,     \* the executions that ask for locks
  Names,      \* the lock names
  NoOwner     \* a value that is not an owner

VARIABLE owner    \* owner[n]: who holds the lock named n

TypeOK == owner \in [Names -> Owners \union {NoOwner}]

Init == owner = [n \in Names |-> NoOwner]

Acquire(o, n) ==
  /\ owner[n] = NoOwner
  /\ owner' = [owner EXCEPT ![n] = o]

Release(o, n) ==
  /\ owner[n] = o
  /\ owner' = [owner EXCEPT ![n] = NoOwner]

Next == \E o \in Owners, n \in Names : Acquire(o, n) \/ Release(o, n)

Spec == Init /\ [][Next]_owner
=============================================================================
