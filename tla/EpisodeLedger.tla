---------------------------- MODULE EpisodeLedger ----------------------------
(***************************************************************************)
(* What recording an episode promises its callers, without transactions,   *)
(* locks or tables.  A ledger holds at most one entry for a tenant's       *)
(* idempotency key.  The first request for a key is accepted and announced *)
(* in the same instant; every later request for that key is answered from  *)
(* the entry: a replay that names the accepted episode when the requests   *)
(* agree, a conflict when they differ.  A call may also fail, before or    *)
(* after its entry was accepted.                                           *)
(*                                                                         *)
(* A call is one RecordEpisodeHandler.handle().  It draws one fresh        *)
(* episode id and, when it publishes, one fresh event id: the call itself  *)
(* stands for both.                                                        *)
(***************************************************************************)

CONSTANTS
  Calls,         \* record_episode invocations, and the ids they generate
  Tenants,
  Keys,          \* idempotency keys
  Fingerprints   \* the episode-defining fields that a replay must repeat

VARIABLES
  asked,      \* asked[c]: the request of call c
  entries,    \* accepted episodes
  announced,  \* ids whose memory.episode-recorded event is in the outbox
  answer      \* answer[c]: what the caller was told

ledgerVars == <<asked, entries, announced, answer>>

Requests == [tenant: Tenants, key: Keys, fingerprint: Fingerprints]

Kinds == {"pending", "created", "replayed", "conflict", "failed"}

\* An answer that names no stored episode carries the caller's own id.
Reply(kind, id) == [kind |-> kind, id |-> id]

Entry(c, r) == [id |-> c, request |-> r]

\* Two requests compete for one entry when tenant and key agree.
SameKey(r, s) == r.tenant = s.tenant /\ r.key = s.key

Init ==
  /\ asked \in [Calls -> Requests]
  /\ entries = {}
  /\ announced = {}
  /\ answer = [c \in Calls |-> Reply("pending", c)]

\* The entry and its announcement appear together or not at all.
Accept(c) ==
  /\ answer[c].kind = "pending"
  /\ \A e \in entries : ~SameKey(e.request, asked[c])
  /\ entries' = entries \cup {Entry(c, asked[c])}
  /\ announced' = announced \cup {c}
  /\ UNCHANGED <<asked, answer>>

AnswerCreated(c) ==
  /\ Entry(c, asked[c]) \in entries
  /\ answer' = [answer EXCEPT ![c] = Reply("created", c)]

AnswerReplayed(c) ==
  \E e \in entries :
    /\ e.id # c
    /\ e.request = asked[c]
    /\ answer' = [answer EXCEPT ![c] = Reply("replayed", e.id)]

AnswerConflict(c) ==
  /\ \E e \in entries :
       /\ SameKey(e.request, asked[c])
       /\ e.request # asked[c]
  /\ answer' = [answer EXCEPT ![c] = Reply("conflict", c)]

AnswerFailed(c) == answer' = [answer EXCEPT ![c] = Reply("failed", c)]

Answer(c) ==
  /\ answer[c].kind = "pending"
  /\ \/ AnswerCreated(c)
     \/ AnswerReplayed(c)
     \/ AnswerConflict(c)
     \/ AnswerFailed(c)
  /\ UNCHANGED <<asked, entries, announced>>

Next == \E c \in Calls : Accept(c) \/ Answer(c)

Spec == Init /\ [][Next]_ledgerVars

=============================================================================
