-------------------------- MODULE AppLifecycleProofs --------------------------
(***************************************************************************)
(* Theorems about AppLifecycle and DatabasePool and their proofs:          *)
(* RuntimeInv is inductive for any number of users and of starts, and for  *)
(* any combination of settings and faults.                                 *)
(***************************************************************************)
EXTENDS AppLifecycle, TLAPS

-----------------------------------------------------------------------------
(* The two halves of the invariant: what the users of the pools change, and *)
(* what startup(), shutdown() and the accessors change.                     *)

PoolsOK ==
  /\ migrated \subseteq Pools
  /\ complete \subseteq {"memory", "runtime"}
  /\ at \in [Users -> Pool!Places]
  /\ on \in [Users -> Pools \cup {None}]
  /\ saw \in [Users -> BOOLEAN]
  /\ FlagsTrue

FieldsOK ==
  /\ [settings |-> settings, faulty |-> faulty] \in Scenarios
  /\ phase \in Phases
  /\ starts \in 0..MaxStarts
  /\ held \subseteq Pools /\ closing \subseteq Pools /\ orchestrator \subseteq Pools
  /\ \A p, q \in held : p.kind = q.kind => p = q
  /\ phase = "closing" <=> closing # {}
  /\ handlers \in [Handlers -> SUBSET Pools]
  /\ open \subseteq Pools
  /\ NothingForgotten /\ HandlersWork
  /\ FieldsFollow /\ NothingReplaced /\ CacheFollows

LEMMA Halves == RuntimeInv <=> PoolsOK /\ FieldsOK
  BY DEF RuntimeInv, TypeOK, PoolsOK, FieldsOK

LEMMA SchemaOfPool ==
  ASSUME NEW p \in Pools
  PROVE  SchemaOf[p] \in {"memory", "runtime"}
  BY DEF SchemaOf

-----------------------------------------------------------------------------
(* The users of the pools.                                                 *)

LEMMA GotoFacts ==
  ASSUME PoolsOK, NEW u \in Users, NEW place \in Pool!Places, Pool!Goto(u, place)
  PROVE  /\ at' \in [Users -> Pool!Places] /\ at'[u] = place
         /\ on' \in [Users -> Pools \cup {None}]
         /\ place # "idle" => on'[u] = on[u]
         /\ \A v \in Users \ {u} : at'[v] = at[v] /\ on'[v] = on[v]
  BY DEF PoolsOK, Pool!Goto

\* A step of a user who goes to another place.
LEMMA UserMoves ==
  ASSUME PoolsOK, NEW u \in Users, NEW place \in Pool!Places, Pool!Goto(u, place),
         at[u] # "idle",
         saw' \in [Users -> BOOLEAN],
         complete \subseteq complete', complete' \subseteq {"memory", "runtime"},
         migrated' \subseteq Pools, \A p \in migrated' : SchemaOf[p] \in complete',
         place \in {"borrowing", "using"} => SchemaOf[on[u]] \in complete'
  PROVE  PoolsOK'
<1>1. /\ at' \in [Users -> Pool!Places] /\ at'[u] = place
      /\ on' \in [Users -> Pools \cup {None}]
      /\ place # "idle" => on'[u] = on[u]
      /\ \A v \in Users \ {u} : at'[v] = at[v] /\ on'[v] = on[v]
  BY GotoFacts
<1>2. ASSUME NEW v \in Users
      PROVE  /\ at'[v] # "idle" => on'[v] \in Pools
             /\ at'[v] \in {"borrowing", "using"} => SchemaOf[on'[v]] \in complete'
  BY <1>1 DEF PoolsOK, FlagsTrue
<1> QED  BY <1>1, <1>2 DEF PoolsOK, FlagsTrue

LEMMA SameFlags == PoolsOK => \A p \in migrated : SchemaOf[p] \in complete
  BY DEF PoolsOK, FlagsTrue

LEMMA ProceedPools ==
  ASSUME PoolsOK, NEW u \in Users, Proceed(u)
  PROVE  PoolsOK'
<1>1. /\ "idle" \in Pool!Places /\ "borrowing" \in Pool!Places
      /\ "migrating" \in Pool!Places /\ "using" \in Pool!Places
  BY DEF Pool!Places
<1>2. /\ migrated \subseteq Pools /\ complete \subseteq {"memory", "runtime"}
      /\ saw \in [Users -> BOOLEAN]
      /\ at[u] # "idle" => on[u] \in Pools
      /\ at[u] = "borrowing" => SchemaOf[on[u]] \in complete
      /\ \A p \in migrated : SchemaOf[p] \in complete
  BY DEF PoolsOK, FlagsTrue
<1>3. CASE Pool!SkipMigrations(u)
  <2>1. /\ at[u] # "idle" /\ Pool!Goto(u, "borrowing") /\ on[u] \in migrated
        /\ UNCHANGED <<migrated, complete, saw>>
    BY <1>3 DEF Pool!SkipMigrations
  <2> QED  BY <1>1, <1>2, <2>1, UserMoves
<1>4. CASE Pool!BeginMigrations(u)
  <2>1. /\ at[u] # "idle" /\ Pool!Goto(u, "migrating")
        /\ saw' = [saw EXCEPT ![u] = SchemaOf[on[u]] \in complete]
        /\ UNCHANGED <<migrated, complete>>
    BY <1>4 DEF Pool!BeginMigrations
  <2>2. saw' \in [Users -> BOOLEAN]  BY <1>2, <2>1
  <2> QED  BY <1>1, <1>2, <2>1, <2>2, UserMoves
<1>5. CASE Pool!CommitMigrations(u)
  <2>1. /\ at[u] # "idle" /\ Pool!Goto(u, "borrowing")
        /\ complete' = complete \cup {SchemaOf[on[u]]}
        /\ migrated' = migrated \cup {on[u]}
        /\ saw' = [saw EXCEPT ![u] = FALSE]
    BY <1>5 DEF Pool!CommitMigrations
  <2>2. saw' \in [Users -> BOOLEAN]  BY <1>2, <2>1
  <2>3. complete' \subseteq {"memory", "runtime"}  BY <1>2, <2>1, SchemaOfPool
  <2> QED  BY <1>1, <1>2, <2>1, <2>2, <2>3, UserMoves
<1>6. CASE Pool!FailMigrations(u)
  <2>1. /\ at[u] # "idle" /\ Pool!Goto(u, "idle")
        /\ saw' = [saw EXCEPT ![u] = FALSE]
        /\ UNCHANGED <<migrated, complete>>
    BY <1>6 DEF Pool!FailMigrations
  <2>2. saw' \in [Users -> BOOLEAN]  BY <1>2, <2>1
  <2> QED  BY <1>1, <1>2, <2>1, <2>2, UserMoves
<1>7. CASE Pool!Borrow(u)
  <2>1. /\ at[u] = "borrowing" /\ Pool!Goto(u, "using")
        /\ UNCHANGED <<migrated, complete, saw>>
    BY <1>7 DEF Pool!Borrow
  <2> QED  BY <1>1, <1>2, <2>1, UserMoves
<1>8. CASE Pool!FindClosed(u) \/ Pool!Return(u)
  <2>1. /\ at[u] # "idle" /\ Pool!Goto(u, "idle")
        /\ UNCHANGED <<migrated, complete, saw>>
    BY <1>8 DEF Pool!FindClosed, Pool!Return
  <2> QED  BY <1>1, <1>2, <2>1, UserMoves
<1> QED
  BY <1>3, <1>4, <1>5, <1>6, <1>7, <1>8
  DEF Proceed, Migrate, EndMigrations, Borrow, Return

LEMMA ConnectPools ==
  ASSUME PoolsOK, NEW u \in Users, NEW p \in Pools, Pool!Connect(u, p)
  PROVE  PoolsOK'
  BY DEF PoolsOK, FlagsTrue, Pool!Connect, Pool!Places

LEMMA OpenPools ==
  ASSUME PoolsOK, NEW p, Pool!Open(p)
  PROVE  PoolsOK'
  BY DEF PoolsOK, FlagsTrue, Pool!Open

LEMMA ClosePools ==
  ASSUME PoolsOK, NEW p, Pool!Close(p)
  PROVE  PoolsOK'
  BY DEF PoolsOK, FlagsTrue, Pool!Close

LEMMA QuietPools ==
  ASSUME PoolsOK, UNCHANGED poolVars
  PROVE  PoolsOK'
  BY DEF PoolsOK, FlagsTrue, poolVars

-----------------------------------------------------------------------------
(* startup(), shutdown() and the accessors.                                *)

LEMMA FieldsStay ==
  ASSUME FieldsOK,
         UNCHANGED <<settings, faulty, phase, starts, held, orchestrator, handlers,
                     closing, open>>
  PROVE  FieldsOK'
  BY DEF FieldsOK, NothingForgotten, HandlersWork, FieldsFollow, NothingReplaced,
         CacheFollows, Latest

LEMMA BuiltFacts ==
  ASSUME NEW kind \in Kinds, starts' \in 1..MaxStarts
  PROVE  /\ Built(kind) \in Pools /\ Built(kind) = Latest(kind)'
         /\ Built(kind).kind = kind
  BY DEF Built, Latest, Pools

\* While there is no orchestrator nothing is cached but the memory handler.
LEMMA NoOrchestrator ==
  ASSUME FieldsOK, phase # "up"
  PROVE  /\ orchestrator = {} /\ handlers["execution"] = {} /\ handlers["listing"] = {}
         /\ handlers["memory"] \subseteq OfKind("memory", held)
  BY DEF FieldsOK, CacheFollows

\* What every step of startup() keeps: of the fields only pools are set, the
\* memory object and its handler last, and no orchestrator is made.
LEMMA StartupFields ==
  ASSUME FieldsOK, phase \notin {"up", "closing"}, phase' \in Phases \ {"closing"},
         UNCHANGED <<settings, faulty, closing, orchestrator>>,
         starts' \in 0..MaxStarts,
         held' \subseteq Pools, \A p, q \in held' : p.kind = q.kind => p = q,
         open' \subseteq Pools,
         handlers' \in [Handlers -> SUBSET Pools],
         handlers'["execution"] = {}, handlers'["listing"] = {},
         handlers'["memory"] \subseteq OfKind("memory", held'),
         OfKind("memory", held') \subseteq open',
         NothingForgotten', FieldsFollow', NothingReplaced'
  PROVE  FieldsOK'
<1>1. orchestrator = {}  BY NoOrchestrator
<1>2. phase # "closing" /\ closing = {}  BY DEF FieldsOK
<1>3. \A h \in Handlers : handlers'[h] \subseteq held' \cap open'
  <2>1. handlers'["memory"] \subseteq held' \cap open'  BY DEF OfKind
  <2> QED  BY <2>1 DEF Handlers
<1>4. HandlersWork' /\ CacheFollows'
  BY <1>1, <1>3 DEF HandlersWork, CacheFollows
<1> QED  BY <1>1, <1>2, <1>4 DEF FieldsOK

LEMMA BuildRuntimeFields ==
  ASSUME FieldsOK, phase \in {"down", "failed", "memory"},
         UNCHANGED <<settings, faulty, closing, orchestrator>>,
         starts' \in 1..MaxStarts,
         NEW pools \in SUBSET Pools, \A p, q \in pools : p.kind = q.kind => p = q,
         Without("memory", pools) = Without("memory", held),
         open' \subseteq Pools, OfKind("memory", pools) \subseteq open',
         handlers' \in [Handlers -> SUBSET Pools],
         handlers'["execution"] = {}, handlers'["listing"] = {},
         handlers'["memory"] \subseteq OfKind("memory", pools),
         \A p \in open' \ pools :
           "close" \in faulty \/ ("retry" \in faulty /\ p.kind # "memory"),
         "retry" \notin faulty => Without("memory", held) = {},
         BuildRuntime(pools)
  PROVE  FieldsOK'
<1>1. orchestrator = {} /\ closing = {}
  BY NoOrchestrator DEF FieldsOK
<1>2. phase \notin {"up", "closing"}  OBVIOUS
<1>3. CASE phase' \in {"up", "failed"} /\ held' = pools
  <2>1. NothingForgotten'  BY <1>1, <1>3 DEF NothingForgotten
  <2>2. FieldsFollow' /\ NothingReplaced'
    BY <1>3 DEF FieldsFollow, NothingReplaced, Opening
  <2>3. phase' \in Phases \ {"closing"}  BY <1>3 DEF Phases, Opening
  <2> QED  BY <1>2, <1>3, <2>1, <2>2, <2>3, StartupFields
<1>4. CASE phase' = "runtime" /\ held' = Without("runtime", pools) \cup {Built("runtime")}
  <2>1. Built("runtime") \in Pools /\ Built("runtime").kind = "runtime"
        /\ Built("runtime") = Latest("runtime")'
    BY BuiltFacts DEF Kinds
  <2> DEFINE new == Built("runtime")
  <2> HIDE DEF new
  <2>2. held' = Without("runtime", pools) \cup {new} /\ new \in Pools /\ new.kind = "runtime"
        /\ new = Latest("runtime")'
    BY <1>4, <2>1 DEF new
  <2>3. /\ held' \subseteq Pools /\ \A p, q \in held' : p.kind = q.kind => p = q
        /\ OfKind("memory", held') = OfKind("memory", pools)
        /\ OfKind("runtime", held') = {new}
        /\ OfKind("writer", held') \subseteq Without("memory", pools)
    BY <2>2 DEF Without, OfKind
  <2>4. NothingForgotten'
    <3> SUFFICES ASSUME NEW p \in open' \ (held' \cup closing')
                 PROVE  "close" \in faulty \/ ("retry" \in faulty /\ p.kind # "memory")
      BY DEF NothingForgotten
    <3>1. CASE p \notin pools  BY <3>1
    <3>2. CASE p \in pools
      <4>1. p.kind = "runtime" /\ p \in Without("memory", pools)
        BY <2>2, <3>2 DEF Without
      <4> QED  BY <4>1
    <3> QED  BY <3>1, <3>2
  <2>5. FieldsFollow'
    BY <1>4, <2>2, <2>3 DEF FieldsFollow, Opening
  <2>6. NothingReplaced'  BY <1>4, <2>3 DEF NothingReplaced
  <2>7. phase' \in Phases \ {"closing"}  BY <1>4 DEF Phases, Opening
  <2>8. /\ starts' \in 0..MaxStarts /\ OfKind("memory", held') \subseteq open'
        /\ handlers'["memory"] \subseteq OfKind("memory", held')
    BY <2>3, MaxStartsAssumption
  <2> QED  BY <1>2, <2>3, <2>4, <2>5, <2>6, <2>7, <2>8, StartupFields
<1> QED  BY <1>1, <1>3, <1>4 DEF BuildRuntime

LEMMA StartupStep ==
  ASSUME FieldsOK, Startup
  PROVE  FieldsOK'
<1>1. /\ phase \in {"down", "failed"} /\ starts' \in 1..MaxStarts
      /\ UNCHANGED <<settings, faulty, orchestrator, handlers, closing, open>>
      /\ phase = "down" => held = {}
      /\ "retry" \notin faulty => held = {}
  BY MaxStartsAssumption DEF Startup, FieldsOK, FieldsFollow, fieldVars, poolVars
<1>2. /\ orchestrator = {} /\ handlers["execution"] = {} /\ handlers["listing"] = {}
      /\ handlers["memory"] \subseteq OfKind("memory", held) /\ closing = {}
  BY <1>1, NoOrchestrator DEF FieldsOK
<1>3. /\ held \subseteq Pools /\ \A p, q \in held : p.kind = q.kind => p = q
      /\ open \subseteq Pools /\ handlers \in [Handlers -> SUBSET Pools]
      /\ OfKind("memory", held) \subseteq open
      /\ NothingForgotten
  BY DEF FieldsOK, FieldsFollow
<1>4. CASE settings.memory /\ OfKind("memory", held) = {}
  <2>1. phase' = "memory" /\ UNCHANGED held  BY <1>4 DEF Startup
  <2>2. FieldsFollow' /\ NothingReplaced' /\ NothingForgotten'
    BY <1>1, <1>3, <1>4, <2>1
    DEF FieldsFollow, NothingReplaced, NothingForgotten, Opening
  <2>3. phase' \in Phases \ {"closing"}  BY <2>1 DEF Phases, Opening
  <2> QED  BY <1>1, <1>2, <1>3, <2>1, <2>2, <2>3, StartupFields
<1>5. CASE ~(settings.memory /\ OfKind("memory", held) = {})
  <2>1. BuildRuntime(held)  BY <1>5 DEF Startup
  <2>2. \A p \in open' \ held :
          "close" \in faulty \/ ("retry" \in faulty /\ p.kind # "memory")
    BY <1>1, <1>2, <1>3 DEF NothingForgotten
  <2>3. "retry" \notin faulty => Without("memory", held) = {}
    BY <1>1 DEF Without
  <2> QED  BY <1>1, <1>2, <1>3, <2>1, <2>2, <2>3, BuildRuntimeFields
<1> QED  BY <1>4, <1>5

\* While startup() runs nothing is cached but the memory handler.
LEMMA WhileOpening ==
  ASSUME FieldsOK, phase \in Opening
  PROVE  /\ orchestrator = {} /\ handlers["execution"] = {} /\ handlers["listing"] = {}
         /\ handlers["memory"] \subseteq OfKind("memory", held)
         /\ closing = {} /\ starts \in 1..MaxStarts
         /\ held \subseteq Pools /\ \A p, q \in held : p.kind = q.kind => p = q
         /\ open \subseteq Pools /\ handlers \in [Handlers -> SUBSET Pools]
         /\ OfKind("memory", held) \subseteq open
         /\ \A p \in open \ held :
              "close" \in faulty \/ ("retry" \in faulty /\ p.kind # "memory")
<1>1. phase # "up" /\ phase # "closing"  BY DEF Opening
<1>2. closing = {} /\ starts \in 1..MaxStarts
  BY <1>1, MaxStartsAssumption DEF FieldsOK, FieldsFollow
<1> QED  BY <1>1, <1>2, NoOrchestrator DEF FieldsOK, FieldsFollow, NothingForgotten

LEMMA MemoryOpenedStep ==
  ASSUME FieldsOK, MemoryOpened
  PROVE  FieldsOK'
<1>1. phase = "memory" /\ phase \in Opening /\ UNCHANGED <<settings, faulty, starts, orchestrator, closing>>
  BY DEF MemoryOpened, Opening
<1> DEFINE new == Built("memory")
<1>2. starts' \in 1..MaxStarts  BY <1>1, WhileOpening
<1>3. new \in Pools /\ new.kind = "memory"
  BY <1>2, BuiltFacts DEF Kinds
<1>4. /\ open' = open \cup {new} /\ BuildRuntime(held \cup {new})
      /\ \E inbox \in {{}, {new}} : handlers' = [handlers EXCEPT !["memory"] = inbox]
  BY DEF MemoryOpened, Pool!Open
<1> HIDE DEF new
<1>5. OfKind("memory", held) = {}
  BY <1>1 DEF FieldsOK, FieldsFollow
<1> DEFINE pools == held \cup {new}
<1>6. /\ pools \in SUBSET Pools /\ \A p, q \in pools : p.kind = q.kind => p = q
      /\ Without("memory", pools) = Without("memory", held)
      /\ OfKind("memory", pools) = {new}
  BY <1>1, <1>3, <1>5, WhileOpening DEF OfKind, Without
<1>7. /\ open' \subseteq Pools /\ OfKind("memory", pools) \subseteq open'
      /\ \A p \in open' \ pools :
           "close" \in faulty \/ ("retry" \in faulty /\ p.kind # "memory")
  BY <1>1, <1>3, <1>4, <1>6, WhileOpening
<1>8. /\ handlers' \in [Handlers -> SUBSET Pools]
      /\ handlers'["execution"] = {} /\ handlers'["listing"] = {}
      /\ handlers'["memory"] \subseteq OfKind("memory", pools)
  BY <1>1, <1>3, <1>4, <1>6, WhileOpening DEF Handlers
<1>9. "retry" \notin faulty => Without("memory", held) = {}
  BY <1>1 DEF FieldsOK, NothingReplaced, Without
<1>10. BuildRuntime(pools)  BY <1>4
<1> HIDE DEF pools
<1> QED  BY <1>1, <1>2, <1>6, <1>7, <1>8, <1>9, <1>10, BuildRuntimeFields

LEMMA RuntimeOpenedStep ==
  ASSUME FieldsOK, RuntimeOpened
  PROVE  FieldsOK'
<1>1. /\ phase = "runtime" /\ phase \in Opening
      /\ UNCHANGED <<settings, faulty, starts, handlers, closing>>
  BY DEF RuntimeOpened, Opening
<1> DEFINE new == Built("runtime")
<1>2. starts' \in 1..MaxStarts  BY <1>1, WhileOpening
<1>3. new \in Pools /\ new.kind = "runtime" /\ open' = open \cup {new}
  BY <1>2, BuiltFacts DEF Kinds, RuntimeOpened, Pool!Open
<1>4. OfKind("runtime", held) = {new}
  BY <1>1 DEF FieldsOK, FieldsFollow, Latest, Built
<1> HIDE DEF new
<1>5. "retry" \notin faulty => OfKind("writer", held) = {}
  BY <1>1 DEF FieldsOK, NothingReplaced
<1>6. /\ Without("writer", held) \subseteq held
      /\ OfKind("memory", Without("writer", held)) = OfKind("memory", held)
      /\ OfKind("runtime", Without("writer", held)) = {new}
      /\ new \in held
      /\ \A p \in held : p \in Without("writer", held) \/ p \in OfKind("writer", held)
      /\ \A p \in OfKind("writer", held) : p.kind = "writer"
  BY <1>4 DEF OfKind, Without
<1>7. \A p \in open' \ Without("writer", held) :
        "close" \in faulty \/ ("retry" \in faulty /\ p.kind # "memory")
  BY <1>1, <1>3, <1>5, <1>6, WhileOpening
<1>8. CASE settings.temporal
  <2> DEFINE writer == Built("writer")
  <2>1. /\ phase' = "writer" /\ held' = Without("writer", held) \cup {writer}
        /\ UNCHANGED orchestrator
    BY <1>8 DEF RuntimeOpened
  <2>2. writer \in Pools /\ writer.kind = "writer" /\ writer = Latest("writer")'
    BY <1>2, BuiltFacts DEF Kinds
  <2> HIDE DEF writer
  <2>3. /\ held' \subseteq Pools /\ \A p, q \in held' : p.kind = q.kind => p = q
        /\ OfKind("memory", held') = OfKind("memory", held)
        /\ OfKind("runtime", held') = {new}
        /\ OfKind("writer", held') = {writer}
    BY <1>1, <1>4, <2>1, <2>2, WhileOpening DEF OfKind, Without
  <2>4. /\ open' \subseteq Pools /\ OfKind("memory", held') \subseteq open'
        /\ handlers'["memory"] \subseteq OfKind("memory", held')
        /\ starts' \in 0..MaxStarts
    BY <1>1, <1>2, <1>3, <2>3, WhileOpening, MaxStartsAssumption
  <2>5. NothingForgotten' /\ NothingReplaced'
    BY <1>1, <1>7, <2>1 DEF NothingForgotten, NothingReplaced
  <2>6. FieldsFollow'
    BY <1>2, <1>3, <2>1, <2>2, <2>3, <2>4 DEF FieldsFollow
  <2>7. phase \notin {"up", "closing"} /\ phase' \in Phases \ {"closing"}
    BY <1>1, <2>1 DEF Phases, Opening
  <2> QED
    BY <1>1, <2>1, <2>3, <2>4, <2>5, <2>6, <2>7, WhileOpening, StartupFields
<1>9. CASE ~settings.temporal
  <2>1. /\ phase' = "up" /\ held' = Without("writer", held)
        /\ orchestrator' = {new}
    BY <1>4, <1>9 DEF RuntimeOpened
  <2>2. /\ held' \subseteq Pools /\ \A p, q \in held' : p.kind = q.kind => p = q
        /\ open' \subseteq Pools /\ orchestrator' \subseteq Pools
        /\ new \in held' \cap open'
    BY <1>1, <1>3, <1>6, <2>1, WhileOpening DEF OfKind
  <2>3. /\ handlers'["execution"] = {} /\ handlers'["listing"] = {}
        /\ handlers'["memory"] \subseteq OfKind("memory", held')
        /\ OfKind("memory", held') \subseteq open'
    BY <1>1, <1>3, <1>6, <2>1, WhileOpening
  <2>4. HandlersWork'
    <3>1. handlers'["memory"] \subseteq held' \cap open'  BY <2>3 DEF OfKind
    <3> QED  BY <2>1, <2>2, <2>3, <3>1 DEF HandlersWork, Handlers
  <2>5. CacheFollows'  BY <1>6, <2>1, <2>3 DEF CacheFollows
  <2>6. NothingForgotten' /\ NothingReplaced'
    BY <1>1, <1>7, <2>1 DEF NothingForgotten, NothingReplaced
  <2>7. FieldsFollow'
    BY <2>1, <2>3 DEF FieldsFollow, Opening
  <2>8. phase' \in Phases /\ phase' # "closing" /\ closing' = {}
    BY <1>1, <2>1, WhileOpening DEF Phases
  <2> QED
    BY <1>1, <1>2, <2>2, <2>4, <2>5, <2>6, <2>7, <2>8, MaxStartsAssumption DEF FieldsOK
<1> QED  BY <1>8, <1>9

LEMMA WriterOpenedStep ==
  ASSUME FieldsOK, WriterOpened
  PROVE  FieldsOK'
<1>1. /\ phase = "writer" /\ phase \in Opening /\ phase' = "temporal"
      /\ UNCHANGED <<settings, faulty, starts, held, orchestrator, handlers, closing>>
  BY DEF WriterOpened, Opening, fieldVars
<1> DEFINE new == Built("writer")
<1>2. starts' \in 1..MaxStarts  BY <1>1, WhileOpening
<1>3. new \in Pools /\ open' = open \cup {new}
  BY <1>2, BuiltFacts DEF Kinds, WriterOpened, Pool!Open
<1>4. OfKind("writer", held) = {new} /\ OfKind("runtime", held) \subseteq open
  BY <1>1 DEF FieldsOK, FieldsFollow, Latest, Built
<1> HIDE DEF new
<1>5. /\ OfKind("memory", held') \subseteq open' /\ open' \subseteq Pools
      /\ \A p \in open' \ held' :
           "close" \in faulty \/ ("retry" \in faulty /\ p.kind # "memory")
  BY <1>1, <1>3, <1>4, WhileOpening DEF OfKind
<1>6. Without("memory", held') \subseteq open'
  <2>1. \A p \in held : p.kind \in {"memory", "runtime", "writer"}
    BY <1>1, WhileOpening DEF Pools, Kinds
  <2> QED  BY <1>1, <1>3, <1>4, <2>1 DEF OfKind, Without
<1>7. FieldsFollow' /\ NothingReplaced' /\ NothingForgotten'
  BY <1>1, <1>2, <1>5, <1>6 DEF FieldsFollow, NothingReplaced, NothingForgotten
<1>8. phase \notin {"up", "closing"} /\ phase' \in Phases \ {"closing"}
  BY <1>1 DEF Phases, Opening
<1> QED
  BY <1>1, <1>2, <1>5, <1>7, <1>8, WhileOpening, StartupFields, MaxStartsAssumption

LEMMA StartupFailsStep ==
  ASSUME FieldsOK, StartupFails
  PROVE  FieldsOK'
<1>1. /\ phase \in Opening /\ phase' = "failed"
      /\ UNCHANGED <<settings, faulty, starts, held, orchestrator, handlers, closing, open>>
  BY DEF StartupFails, fieldVars, poolVars
<1>2. FieldsFollow' /\ NothingReplaced' /\ NothingForgotten'
  BY <1>1, WhileOpening
  DEF FieldsFollow, NothingReplaced, NothingForgotten, Opening
<1>3. phase \notin {"up", "closing"} /\ phase' \in Phases \ {"closing"}
  BY <1>1 DEF Phases, Opening
<1> QED
  BY <1>1, <1>2, <1>3, WhileOpening, StartupFields, MaxStartsAssumption

LEMMA TemporalConnectedStep ==
  ASSUME FieldsOK, TemporalConnected
  PROVE  FieldsOK'
<1>1. /\ phase = "temporal" /\ phase \in Opening /\ phase' = "up"
      /\ orchestrator' = Without("memory", held)
      /\ UNCHANGED <<settings, faulty, starts, held, handlers, closing, open>>
  BY DEF TemporalConnected, Opening, poolVars
<1>2. Without("memory", held) \subseteq held \cap open /\ OfKind("memory", held) \subseteq held
  BY <1>1 DEF FieldsOK, FieldsFollow, Without, OfKind
<1>3. HandlersWork'
  <2>1. \A h \in Handlers : handlers[h] \subseteq held \cap open
    BY DEF FieldsOK, HandlersWork
  <2> QED  BY <1>1, <1>2, <2>1 DEF HandlersWork
<1>4. OfKind("runtime", held) \subseteq Without("memory", held)
  BY DEF OfKind, Without
<1>5. CacheFollows'
  BY <1>1, <1>4, WhileOpening DEF CacheFollows
<1>6. FieldsFollow' /\ NothingReplaced' /\ NothingForgotten'
  BY <1>1, WhileOpening
  DEF FieldsFollow, NothingReplaced, NothingForgotten, Opening
<1>7. phase' \in Phases /\ phase' # "closing" /\ closing' = {}
      /\ orchestrator' \subseteq Pools
  BY <1>1, <1>2, WhileOpening DEF Phases
<1> QED  BY <1>1, <1>3, <1>5, <1>6, <1>7 DEF FieldsOK

LEMMA ShutdownStep ==
  ASSUME FieldsOK, Shutdown
  PROVE  FieldsOK'
<1>1. /\ closing' = held /\ held' = {} /\ orchestrator' = {} /\ handlers' = NoHandlers
      /\ phase' = IF held = {} THEN "down" ELSE "closing"
      /\ UNCHANGED <<settings, faulty, starts, open>> /\ phase # "closing"
  BY DEF Shutdown, poolVars
<1>2. /\ \A h \in Handlers : handlers'[h] = {}
      /\ handlers' \in [Handlers -> SUBSET Pools]
      /\ \A h \in {"memory", "execution", "listing"} : handlers'[h] = {}
  BY <1>1 DEF NoHandlers, Handlers
<1>3. closing = {}  BY <1>1 DEF FieldsOK
<1>4. HandlersWork' /\ CacheFollows'
  BY <1>1, <1>2 DEF HandlersWork, CacheFollows
<1>5. FieldsFollow' /\ NothingReplaced'
  BY <1>1 DEF FieldsFollow, NothingReplaced, OfKind, Without, Opening
<1>6. NothingForgotten'
  BY <1>1, <1>3 DEF FieldsOK, NothingForgotten
<1>7. phase' \in Phases /\ (phase' = "closing" <=> closing' # {})
  BY <1>1 DEF Phases
<1> QED  BY <1>1, <1>2, <1>4, <1>5, <1>6, <1>7 DEF FieldsOK

LEMMA ClosePoolStep ==
  ASSUME FieldsOK, ClosePool
  PROVE  FieldsOK' /\ \E p \in Pools : Pool!Close(p)
<1>1. /\ phase = "closing" /\ phase' = IF closing' = {} THEN "down" ELSE "closing"
      /\ UNCHANGED <<settings, faulty, starts, held, orchestrator, handlers>>
  BY DEF ClosePool, fieldVars
<1>2. PICK p \in First(closing) :
        /\ Pool!Close(p)
        /\ closing' = closing \ {p} \/ ("close" \in faulty /\ closing' = {})
  BY DEF ClosePool
<1>3. First(closing) \subseteq closing /\ closing \subseteq Pools
  BY DEF First, OfKind, FieldsOK
<1>4. open' = open \ {p} /\ open' \subseteq Pools /\ closing' \subseteq Pools
  BY <1>2, <1>3 DEF Pool!Close, FieldsOK
<1>5. held = {} /\ orchestrator = {} /\ \A h \in Handlers : handlers[h] = {}
  BY <1>1 DEF FieldsOK, FieldsFollow, HandlersWork
<1>6. HandlersWork' /\ CacheFollows'
  BY <1>1, <1>5 DEF FieldsOK, HandlersWork, CacheFollows, Handlers
<1>7. FieldsFollow' /\ NothingReplaced'
  BY <1>1, <1>5 DEF FieldsFollow, NothingReplaced, OfKind, Opening
<1>8. NothingForgotten'
  BY <1>1, <1>2, <1>4, <1>5 DEF FieldsOK, NothingForgotten
<1>9. phase' \in Phases /\ (phase' = "closing" <=> closing' # {})
  BY <1>1 DEF Phases
<1> QED
  BY <1>1, <1>2, <1>3, <1>4, <1>6, <1>7, <1>8, <1>9 DEF FieldsOK

\* What an accessor uses is open, and belongs to this runtime.
LEMMA UsesWork ==
  ASSUME FieldsOK, NEW h \in Handlers
  PROVE  /\ Uses(h) \subseteq held \cap open /\ Uses(h) \subseteq Pools
         /\ h = "memory" => Uses(h) \subseteq OfKind("memory", held)
         /\ h # "memory" /\ orchestrator = {} => Uses(h) = {}
<1>1. /\ OfKind("memory", held) \subseteq open /\ orchestrator \subseteq held \cap open
      /\ orchestrator # {} => OfKind("runtime", held) \subseteq orchestrator
      /\ held \subseteq Pools /\ OfKind("memory", held) \subseteq held
  BY DEF FieldsOK, FieldsFollow, HandlersWork, CacheFollows, OfKind
<1>2. CASE h = "memory"  BY <1>1, <1>2 DEF Uses
<1>3. CASE h = "execution"  BY <1>1, <1>3 DEF Uses
<1>4. CASE h = "listing"  BY <1>1, <1>4 DEF Uses
<1> QED  BY <1>2, <1>3, <1>4 DEF Handlers

LEMMA RequestStep ==
  ASSUME FieldsOK, NEW u \in Users, NEW h \in Handlers, Request(u, h)
  PROVE  FieldsOK' /\ \E p \in Pools : Pool!Connect(u, p)
<1>1. /\ handlers' = IF handlers[h] = {} THEN [handlers EXCEPT ![h] = Uses(h)] ELSE handlers
      /\ UNCHANGED <<settings, faulty, phase, starts, held, orchestrator, closing>>
  BY DEF Request
<1>2. PICK p \in handlers'[h] : Pool!Connect(u, p)  BY DEF Request
<1>3. open' = open  BY <1>2 DEF Pool!Connect
<1>4. /\ Uses(h) \subseteq held \cap open /\ Uses(h) \subseteq Pools
      /\ h = "memory" => Uses(h) \subseteq OfKind("memory", held)
      /\ h # "memory" /\ orchestrator = {} => Uses(h) = {}
  BY UsesWork
<1>5. /\ handlers \in [Handlers -> SUBSET Pools]
      /\ \A g \in Handlers : handlers[g] \subseteq held \cap open
  BY DEF FieldsOK, HandlersWork
<1>6. /\ handlers' \in [Handlers -> SUBSET Pools]
      /\ \A g \in Handlers : handlers'[g] = handlers[g] \/ (g = h /\ handlers'[g] = Uses(h))
  BY <1>1, <1>4, <1>5
<1>7. HandlersWork'
  BY <1>1, <1>3, <1>4, <1>5, <1>6 DEF FieldsOK, HandlersWork
<1>8. CacheFollows'
  BY <1>1, <1>4, <1>6 DEF FieldsOK, CacheFollows, Handlers
<1>9. FieldsFollow' /\ NothingReplaced' /\ NothingForgotten'
  BY <1>1, <1>3 DEF FieldsOK, FieldsFollow, NothingReplaced, NothingForgotten, Latest
<1>10. p \in Pools  BY <1>2, <1>6
<1> QED  BY <1>1, <1>2, <1>3, <1>6, <1>7, <1>8, <1>9, <1>10 DEF FieldsOK

-----------------------------------------------------------------------------
(* The invariant and what it says.                                         *)

LEMMA RuntimeInit == Init => RuntimeInv
<1> SUFFICES ASSUME Init  PROVE PoolsOK /\ FieldsOK  BY Halves
<1>1. PoolsOK  BY DEF Init, PoolsOK, FlagsTrue, Pool!Places
<1>2. [settings |-> settings, faulty |-> faulty] \in Scenarios
  <2>1. PICK s \in Scenarios : settings = s.settings /\ faulty = s.faulty
    BY DEF Init
  <2>2. s = [settings |-> s.settings, faulty |-> s.faulty]
    BY ScenariosAssumption
  <2> QED  BY <2>1, <2>2
<1>3. HandlersWork /\ CacheFollows /\ handlers \in [Handlers -> SUBSET Pools]
  BY DEF Init, NoHandlers, Handlers, HandlersWork, CacheFollows
<1>4. FieldsFollow /\ NothingReplaced /\ NothingForgotten
  BY DEF Init, FieldsFollow, NothingReplaced, NothingForgotten, OfKind, Opening
<1>5. phase \in Phases /\ starts \in 0..MaxStarts
  BY MaxStartsAssumption DEF Init, Phases
<1> QED  BY <1>1, <1>2, <1>3, <1>4, <1>5 DEF Init, FieldsOK

LEMMA OwnerPools ==
  ASSUME PoolsOK, FieldsOK, OwnerStep
  PROVE  PoolsOK'
<1>1. CASE ClosePool  BY <1>1, ClosePoolStep, ClosePools
<1>2. CASE MemoryOpened \/ RuntimeOpened \/ WriterOpened
  BY <1>2, OpenPools DEF MemoryOpened, RuntimeOpened, WriterOpened
<1>3. CASE Startup \/ TemporalConnected \/ StartupFails \/ Shutdown
  BY <1>3, QuietPools DEF Startup, TemporalConnected, StartupFails, Shutdown
<1> QED  BY <1>1, <1>2, <1>3 DEF OwnerStep

LEMMA OwnerFields ==
  ASSUME FieldsOK, OwnerStep
  PROVE  FieldsOK'
  BY StartupStep, MemoryOpenedStep, RuntimeOpenedStep, WriterOpenedStep,
     TemporalConnectedStep, StartupFailsStep, ShutdownStep, ClosePoolStep DEF OwnerStep

LEMMA ProceedFields ==
  ASSUME FieldsOK, NEW u \in Users, Proceed(u)
  PROVE  FieldsOK'
<1>1. Quiet /\ open' = open
  BY DEF Proceed, Migrate, EndMigrations, Borrow, Return, Pool!SkipMigrations,
         Pool!BeginMigrations, Pool!CommitMigrations, Pool!FailMigrations, Pool!Borrow,
         Pool!FindClosed, Pool!Return
<1> QED  BY <1>1, FieldsStay DEF Quiet, fieldVars

LEMMA RuntimeNext == RuntimeInv /\ [Next]_vars => RuntimeInv'
<1> SUFFICES ASSUME PoolsOK, FieldsOK, [Next]_vars  PROVE PoolsOK' /\ FieldsOK'
  <2>1. RuntimeInv' <=> PoolsOK' /\ FieldsOK'  BY Halves, PTL
  <2> QED  BY <2>1, Halves
<1>1. CASE OwnerStep  BY <1>1, OwnerPools, OwnerFields
<1>2. ASSUME NEW u \in Users, Proceed(u)  PROVE PoolsOK' /\ FieldsOK'
  BY <1>2, ProceedPools, ProceedFields
<1>3. ASSUME NEW u \in Users, NEW h \in Handlers, Request(u, h)
      PROVE  PoolsOK' /\ FieldsOK'
  BY <1>3, RequestStep, ConnectPools
<1>4. CASE UNCHANGED vars
  BY <1>4, QuietPools, FieldsStay DEF vars, fieldVars, poolVars
<1> QED  BY <1>1, <1>2, <1>3, <1>4 DEF Next

\* Whatever await of startup() or shutdown() raises, and whatever requests do in
\* between, fields, caches and pools of AppRuntime agree.
THEOREM RuntimeInvariant == Spec => []RuntimeInv
  BY RuntimeInit, RuntimeNext, PTL DEF Spec

\* The fields, the pools and their users are of their types; in particular
\* AppRuntime never refers to two objects of one class.
THEOREM TypeCorrect == Spec => []TypeOK
<1>1. RuntimeInv => TypeOK  BY DEF RuntimeInv
<1> QED  BY <1>1, RuntimeInvariant, PTL

\* No connection is lent on a schema that lacks a table, however many objects
\* migrate it at once and however often that fails.
THEOREM Migrated == Spec => []MigratedBeforeUse
<1>1. RuntimeInv => MigratedBeforeUse
  BY DEF RuntimeInv, FlagsTrue, MigratedBeforeUse, Pool!MigratedBeforeUse
<1> QED  BY <1>1, RuntimeInvariant, PTL

\* An open pool is known to who will close it, but for the two ways to lose one
\* (a close() that raises, a startup() that is tried again).
THEOREM Closed == Spec => []NothingForgotten
<1>1. RuntimeInv => NothingForgotten  BY DEF RuntimeInv
<1> QED  BY <1>1, RuntimeInvariant, PTL

\* A handler that the accessors give out uses open objects of this runtime.
THEOREM Usable == Spec => []HandlersWork
<1>1. RuntimeInv => HandlersWork  BY DEF RuntimeInv
<1> QED  BY <1>1, RuntimeInvariant, PTL

=============================================================================
