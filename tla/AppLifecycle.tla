------------------------------ MODULE AppLifecycle ------------------------------
(***************************************************************************)
(* AppRuntime: startup() opens database objects one after the other and    *)
(* remembers them in its fields, the accessors build handlers from them    *)
(* and cache those, shutdown() clears the fields and then closes what they *)
(* referred to.  Any await of startup and shutdown may raise, and requests *)
(* run in between.                                                         *)
(***************************************************************************)
EXTENDS Naturals

CONSTANTS
  Users,      \* requests and relay loops
  None,       \* no object
  Scenarios,  \* the settings and the faults to combine: "open", "close" and
              \* "migration" raise, and "retry" is a caller that calls
              \* startup() again after it has raised
  MaxStarts   \* bound: calls of startup()

Kinds == {"memory", "runtime", "writer"}
Handlers == {"memory", "execution", "listing"}

ASSUME ScenariosAssumption ==
  Scenarios \subseteq
    [settings : [memory : BOOLEAN, runtime : BOOLEAN, temporal : BOOLEAN],
     faulty : SUBSET {"open", "close", "retry", "migration"}]
ASSUME MaxStartsAssumption == MaxStarts \in Nat \ {0}

\* A database object is named by its class and the startup() that built it.
Pools == [kind : Kinds, made : 1..MaxStarts]
SchemaOf == [p \in Pools |-> IF p.kind = "memory" THEN "memory" ELSE "runtime"]

VARIABLES
  settings,      \* which of memory, runtime and temporal are enabled
  faulty,        \* what goes wrong in this behaviour, at any time
  phase,         \* the await that startup() or shutdown() is in, or the outcome
  starts,        \* calls of startup() so far
  held,          \* the objects that _database, _runtime_database and
                 \* _runtime_snapshot_writer refer to
  orchestrator,  \* the objects that _orchestrator uses, {} when it is None
  handlers,      \* the objects a cached handler uses, {} when it is None
  closing,       \* what shutdown() still has to close
  open, migrated, complete, at, on, saw

fieldVars == <<held, orchestrator, handlers>>
poolVars == <<open, migrated, complete, at, on, saw>>
vars == <<settings, faulty, phase, starts, fieldVars, closing, poolVars>>

Pool == INSTANCE DatabasePool

Opening == {"memory", "runtime", "writer", "temporal"}
Phases == Opening \cup {"down", "up", "failed", "closing"}

TypeOK ==
  /\ [settings |-> settings, faulty |-> faulty] \in Scenarios
  /\ phase \in Phases
  /\ starts \in 0..MaxStarts
  /\ held \subseteq Pools /\ closing \subseteq Pools /\ orchestrator \subseteq Pools
  /\ \A p, q \in held : p.kind = q.kind => p = q
  /\ phase = "closing" <=> closing # {}
  /\ handlers \in [Handlers -> SUBSET Pools]
  /\ open \subseteq Pools /\ migrated \subseteq Pools
  /\ complete \subseteq {"memory", "runtime"}
  /\ at \in [Users -> Pool!Places]
  /\ on \in [Users -> Pools \cup {None}]
  /\ saw \in [Users -> BOOLEAN]

NoHandlers == [h \in Handlers |-> {}]

Init ==
  /\ \E s \in Scenarios : settings = s.settings /\ faulty = s.faulty
  /\ phase = "down" /\ starts = 0
  /\ held = {} /\ orchestrator = {} /\ handlers = NoHandlers /\ closing = {}
  /\ open = {} /\ migrated = {} /\ complete = {}
  /\ at = [u \in Users |-> "idle"]
  /\ on = [u \in Users |-> None]
  /\ saw = [u \in Users |-> FALSE]

OfKind(kind, pools) == {p \in pools : p.kind = kind}
Without(kind, pools) == {p \in pools : p.kind # kind}
Built(kind) == [kind |-> kind, made |-> starts']

-----------------------------------------------------------------------------
(* startup().  _database is set, with _started, once its pool is open; the *)
(* other two fields are set before their pools are.                        *)

\* The second half of startup(), up to its first await.
BuildRuntime(pools) ==
  \/ /\ ~settings.runtime \/ orchestrator # {}
     /\ phase' = "up"
     /\ held' = pools
  \/ /\ settings.runtime /\ orchestrator = {} /\ OfKind("memory", pools) # {}
     /\ phase' = "runtime"
     /\ held' = Without("runtime", pools) \cup {Built("runtime")}
  \/ /\ settings.runtime /\ orchestrator = {} /\ OfKind("memory", pools) = {}
     /\ phase' = "failed"  \* runtime_storage_unconfigured
     /\ held' = pools

Startup ==
  /\ phase = "down" \/ (phase = "failed" /\ "retry" \in faulty)
  /\ starts < MaxStarts
  /\ starts' = starts + 1
  /\ IF settings.memory /\ OfKind("memory", held) = {}
     THEN phase' = "memory" /\ UNCHANGED held
     ELSE BuildRuntime(held)
  /\ UNCHANGED <<settings, faulty, orchestrator, handlers, closing, poolVars>>

\* With the inbox enabled its handler is cached at once.
MemoryOpened ==
  /\ phase = "memory"
  /\ UNCHANGED <<settings, faulty, starts, orchestrator, closing>>
  /\ Pool!Open(Built("memory"))
  /\ BuildRuntime(held \cup {Built("memory")})
  /\ \E inbox \in {{}, {Built("memory")}} :
       handlers' = [handlers EXCEPT !["memory"] = inbox]

RuntimeOpened ==
  /\ phase = "runtime"
  /\ UNCHANGED <<settings, faulty, starts, handlers, closing>>
  /\ Pool!Open(Built("runtime"))
  /\ IF settings.temporal
     THEN /\ phase' = "writer"
          /\ held' = Without("writer", held) \cup {Built("writer")}
          /\ UNCHANGED orchestrator
     ELSE /\ phase' = "up"
          /\ held' = Without("writer", held)
          /\ orchestrator' = OfKind("runtime", held)

WriterOpened ==
  /\ phase = "writer"
  /\ phase' = "temporal"
  /\ UNCHANGED <<settings, faulty, starts, fieldVars, closing>>
  /\ Pool!Open(Built("writer"))

TemporalConnected ==
  /\ phase = "temporal"
  /\ phase' = "up"
  /\ orchestrator' = Without("memory", held)
  /\ UNCHANGED <<settings, faulty, starts, held, handlers, closing, poolVars>>

\* The exception leaves startup() with the fields as they are.
StartupFails ==
  /\ phase \in Opening
  /\ "open" \in faulty
  /\ phase' = "failed"
  /\ UNCHANGED <<settings, faulty, starts, fieldVars, closing, poolVars>>

-----------------------------------------------------------------------------
(* shutdown(): all fields first, then the writer, the runtime database and *)
(* the memory database.                                                    *)

\* Mutant: only a runtime that has an orchestrator has anything to close.
ShutdownIfComplete ==
  /\ phase \in {"up", "failed"}
  /\ closing' = IF orchestrator = {} THEN {} ELSE held
  /\ phase' = IF closing' = {} THEN "down" ELSE "closing"
  /\ held' = {} /\ orchestrator' = {} /\ handlers' = NoHandlers
  /\ UNCHANGED <<settings, faulty, starts, poolVars>>

\* Mutant: the field of one handler is missing from the list that is cleared.
ShutdownButListing ==
  /\ phase \in {"up", "failed"}
  /\ closing' = held
  /\ phase' = IF held = {} THEN "down" ELSE "closing"
  /\ held' = {} /\ orchestrator' = {}
  /\ handlers' = [NoHandlers EXCEPT !["listing"] = handlers["listing"]]
  /\ UNCHANGED <<settings, faulty, starts, poolVars>>

Shutdown ==
  /\ phase \in {"up", "failed"}
  /\ closing' = held
  /\ phase' = IF held = {} THEN "down" ELSE "closing"
  /\ held' = {} /\ orchestrator' = {} /\ handlers' = NoHandlers
  /\ UNCHANGED <<settings, faulty, starts, poolVars>>

First(pools) ==
  IF OfKind("writer", pools) # {} THEN OfKind("writer", pools)
  ELSE IF OfKind("runtime", pools) # {} THEN OfKind("runtime", pools) ELSE pools

\* Mutant: shutdown() returns after its first close().
CloseFirst ==
  /\ phase = "closing"
  /\ phase' = "down"
  /\ \E p \in First(closing) : Pool!Close(p) /\ closing' = closing \ {p}
  /\ UNCHANGED <<settings, faulty, starts, fieldVars>>

\* A close() that raises has detached its pool; the closes after it are skipped.
ClosePool ==
  /\ phase = "closing"
  /\ \E p \in First(closing) :
       /\ Pool!Close(p)
       /\ \/ closing' = closing \ {p}
          \/ ("close" \in faulty /\ closing' = {})
  /\ phase' = IF closing' = {} THEN "down" ELSE "closing"
  /\ UNCHANGED <<settings, faulty, starts, fieldVars>>

-----------------------------------------------------------------------------
(* Requests: an accessor, then connection() of an object its handler uses. *)

\* What an accessor builds its handler from, {} when it raises.
Uses(h) ==
  CASE h = "memory" -> OfKind("memory", held)
    [] h = "execution" -> orchestrator
    [] h = "listing" -> IF orchestrator = {} THEN {} ELSE OfKind("runtime", held)

Request(u, h) ==
  /\ Uses(h) # {}
  /\ handlers' = IF handlers[h] = {} THEN [handlers EXCEPT ![h] = Uses(h)] ELSE handlers
  /\ \E p \in handlers'[h] : Pool!Connect(u, p)
  /\ UNCHANGED <<settings, faulty, phase, starts, held, orchestrator, closing>>

Quiet == UNCHANGED <<settings, faulty, phase, starts, fieldVars, closing>>

Migrate(u) == Quiet /\ (Pool!SkipMigrations(u) \/ Pool!BeginMigrations(u))

EndMigrations(u) ==
  /\ Quiet
  /\ \/ Pool!CommitMigrations(u)
     \/ ("migration" \in faulty /\ Pool!FailMigrations(u))
     \/ (at[u] = "migrating" /\ Pool!LosesRace(u) /\ Pool!FailMigrations(u))

Borrow(u) == Quiet /\ (Pool!Borrow(u) \/ Pool!FindClosed(u))
Return(u) == Quiet /\ Pool!Return(u)

Proceed(u) == Migrate(u) \/ EndMigrations(u) \/ Borrow(u) \/ Return(u)

OwnerStep ==
  \/ Startup \/ MemoryOpened \/ RuntimeOpened \/ WriterOpened \/ TemporalConnected
  \/ StartupFails \/ Shutdown \/ ClosePool

Next ==
  \/ OwnerStep
  \/ \E u \in Users : Proceed(u) \/ \E h \in Handlers : Request(u, h)

Spec == Init /\ [][Next]_vars

\* asyncio.Lock serves its waiters in order, so who asks for it again and
\* again gets it.  Startup, shutdown and requests need not happen.
Fairness == SF_vars(ClosePool) /\ \A u \in Users : SF_vars(Proceed(u))

FairSpec == Spec /\ Fairness

-----------------------------------------------------------------------------
(* Properties.                                                             *)

\* Nobody works on a schema that lacks a table, although the first uses of
\* several objects migrate it concurrently, fail, and are retried.
MigratedBeforeUse == Pool!MigratedBeforeUse

\* Every open pool is still known to someone who will close it.  The two ways
\* to lose one are a close() that raises before it, and a second startup()
\* after one that raised, which replaces the runtime's two objects.
NothingForgotten ==
  \A p \in open \ (held \cup closing) :
    "close" \in faulty \/ ("retry" \in faulty /\ p.kind # "memory")

\* Whatever startup() got to and whatever shutdown() is in the middle of, a
\* handler that a request can obtain refers to open objects of this runtime.
HandlersWork ==
  /\ orchestrator \subseteq held \cap open
  /\ \A h \in Handlers : handlers[h] \subseteq held \cap open

\* No request and no shutdown() waits for ever, whoever closes what meanwhile.
EveryWaitEnds ==
  /\ \A u \in Users : []<>(at[u] = "idle")
  /\ []<>(phase # "closing")

-----------------------------------------------------------------------------
(* The inductive invariant.                                                *)

\* The object that the latest startup() builds.
Latest(kind) == [kind |-> kind, made |-> starts]

\* What the fields refer to at each await of startup(), and what is open then.
FieldsFollow ==
  /\ phase \in {"down", "closing"} => held = {}
  /\ phase \in Opening => starts # 0
  /\ phase = "memory" => OfKind("memory", held) = {}
  /\ OfKind("memory", held) \subseteq open
  /\ phase = "runtime" => OfKind("runtime", held) = {Latest("runtime")}
  /\ phase = "writer" =>
       OfKind("runtime", held) \subseteq open /\ OfKind("writer", held) = {Latest("writer")}
  /\ phase = "temporal" => Without("memory", held) \subseteq open

\* A startup() that is the first since shutdown() has nothing to replace.
NothingReplaced ==
  "retry" \notin faulty =>
    /\ phase = "memory" => held = {}
    /\ phase = "runtime" => OfKind("writer", held) = {}

\* There is an orchestrator only after all of startup(), and what was cached
\* came from it.
CacheFollows ==
  /\ phase # "up" => orchestrator = {}
  /\ IF orchestrator = {} THEN handlers["execution"] = {} /\ handlers["listing"] = {}
     ELSE OfKind("runtime", held) \subseteq orchestrator
  /\ handlers["memory"] \subseteq OfKind("memory", held)

\* A flag and a passed migration both mean that the schema is complete.
FlagsTrue ==
  /\ \A p \in migrated : SchemaOf[p] \in complete
  /\ \A u \in Users :
       /\ at[u] # "idle" => on[u] \in Pools
       /\ at[u] \in {"borrowing", "using"} => SchemaOf[on[u]] \in complete

RuntimeInv ==
  /\ TypeOK /\ NothingForgotten /\ HandlersWork
  /\ FieldsFollow /\ NothingReplaced /\ CacheFollows /\ FlagsTrue

=============================================================================
