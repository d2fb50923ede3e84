------------------------------ MODULE DatabasePool ------------------------------
(***************************************************************************)
(* PostgresMemoryDatabase and PostgresRuntimeConnection: objects that own  *)
(* a psycopg pool each, and migrate their schema before the first          *)
(* connection is lent.  An object's lock orders its own migrations and its *)
(* close; nothing orders the migrations of two objects.                    *)
(***************************************************************************)
CONSTANTS
  Users,    \* tasks that borrow connections
  Pools,    \* database objects
  SchemaOf, \* SchemaOf[p]: the schema that p migrates
  None      \* no object

VARIABLES
  open,      \* the objects whose pool is open
  migrated,  \* the objects whose _migrations_applied is set
  complete,  \* the schemas that have all versions
  at,        \* at[u]: where user u is in connection()
  on,        \* on[u]: the object whose connection() u is in, or None
  saw        \* saw[u]: did u's migration transaction find all versions applied?

poolVars == <<open, migrated, complete, at, on, saw>>

Places == {"idle", "waiting", "migrating", "borrowing", "using"}

Goto(u, place) ==
  /\ at' = [at EXCEPT ![u] = place]
  /\ on' = IF place = "idle" THEN [on EXCEPT ![u] = None] ELSE on

\* _migration_lock is held across an await by a migration only.
Locked(p) == \E u \in Users : at[u] = "migrating" /\ on[u] = p

Open(p) ==
  /\ open' = open \cup {p}
  /\ UNCHANGED <<migrated, complete, at, on, saw>>

\* An object that is not open is left as it is, flag included.
Close(p) ==
  /\ ~Locked(p)
  /\ open' = open \ {p}
  /\ migrated' = IF p \in open THEN migrated \ {p} ELSE migrated
  /\ UNCHANGED <<complete, at, on, saw>>

-----------------------------------------------------------------------------
(* connection(), step by step.                                             *)

Connect(u, p) ==
  /\ at[u] = "idle"
  /\ at' = [at EXCEPT ![u] = "waiting"]
  /\ on' = [on EXCEPT ![u] = p]
  /\ UNCHANGED <<open, migrated, complete, saw>>

SkipMigrations(u) ==
  /\ at[u] = "waiting"
  /\ ~Locked(on[u])
  /\ on[u] \in migrated
  /\ Goto(u, "borrowing")
  /\ UNCHANGED <<open, migrated, complete, saw>>

\* Takes the lock and reads the applied versions in a transaction.
BeginMigrations(u) ==
  /\ at[u] = "waiting"
  /\ ~Locked(on[u])
  /\ on[u] \notin migrated
  /\ Goto(u, "migrating")
  /\ saw' = [saw EXCEPT ![u] = SchemaOf[on[u]] \in complete]
  /\ UNCHANGED <<open, migrated, complete>>

\* Another transaction has applied the versions that this one saw missing:
\* creating a relation or inserting a version fails, and nothing is applied.
LosesRace(u) == SchemaOf[on[u]] \in complete /\ ~saw[u]

CommitMigrations(u) ==
  /\ at[u] = "migrating"
  /\ ~LosesRace(u)
  /\ complete' = complete \cup {SchemaOf[on[u]]}
  /\ migrated' = migrated \cup {on[u]}
  /\ Goto(u, "borrowing")
  /\ saw' = [saw EXCEPT ![u] = FALSE]
  /\ UNCHANGED open

\* Mutant: the flag is set whether or not the migrations went through.
FailAndForget(u) ==
  /\ at[u] = "migrating"
  /\ migrated' = migrated \cup {on[u]}
  /\ Goto(u, "idle")
  /\ saw' = [saw EXCEPT ![u] = FALSE]
  /\ UNCHANGED <<open, complete>>

\* The transaction is rolled back; the next use tries again.
FailMigrations(u) ==
  /\ at[u] = "migrating"
  /\ Goto(u, "idle")
  /\ saw' = [saw EXCEPT ![u] = FALSE]
  /\ UNCHANGED <<open, migrated, complete>>

Borrow(u) ==
  /\ at[u] = "borrowing"
  /\ ~Locked(on[u])
  /\ on[u] \in open
  /\ Goto(u, "using")
  /\ UNCHANGED <<open, migrated, complete, saw>>

\* Mutant: the caller is left waiting for a pool that may never open.
AwaitOpen(u) ==
  /\ at[u] = "borrowing"
  /\ on[u] \notin open
  /\ UNCHANGED poolVars

\* "postgres database is not open", or PoolClosed a moment later.
FindClosed(u) ==
  /\ at[u] = "borrowing"
  /\ ~Locked(on[u])
  /\ on[u] \notin open
  /\ Goto(u, "idle")
  /\ UNCHANGED <<open, migrated, complete, saw>>

Return(u) ==
  /\ at[u] = "using"
  /\ Goto(u, "idle")
  /\ UNCHANGED <<open, migrated, complete, saw>>

\* Whoever has a connection finds the whole schema, although migrations fail,
\* race with those of other objects, and are forgotten by a close.
MigratedBeforeUse ==
  \A u \in Users : at[u] = "using" => SchemaOf[on[u]] \in complete

=============================================================================
