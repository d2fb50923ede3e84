------------------------------ MODULE KeysetPaging ------------------------------
(***************************************************************************)
(* One client that lists a scope page by page, following next_cursor, while *)
(* rows are inserted and, for executions, updated.  A cursor is the sort   *)
(* key of the last row of a page.  Episodes are listed by ingested_at,     *)
(* upwards; claims by recorded_from and executions by updated_at,          *)
(* downwards.                                                              *)
(***************************************************************************)
EXTENDS Naturals, FiniteSets

CONSTANTS
  Ids,     \* identities of rows, in the order the id breaks ties in
  Stamps,  \* instants
  Scopes,  \* scopes of rows
  Asked,   \* the scope that is listed
  Limits,  \* the limits a client may give with a request
  None     \* no row, no cursor

ASSUME OrderAssumption == Ids \subseteq Nat /\ Stamps \subseteq Nat
ASSUME AskedAssumption == Asked \in Scopes
ASSUME LimitsAssumption == Limits \subseteq Nat \ {0}

Keys == [at : Stamps, id : Ids]

ASSUME NoneAssumption == None \notin Keys /\ None \notin [scope : Scopes, at : Stamps]

VARIABLES
  kind,       \* what is listed
  rows,       \* rows[i]: the visible row with id i
  phase,      \* how far the client is
  cursor,     \* the next_cursor it was given
  seen,       \* ids of the items it was given
  twice,      \* ids it was given in two pages
  stable,     \* rows that were there at the first page and were not moved since
  regressed   \* rows whose stamp was set back

vars == <<kind, rows, phase, cursor, seen, twice, stable, regressed>>

TypeOK ==
  /\ kind \in {"episodes", "claims", "executions"}
  /\ rows \in [Ids -> [scope : Scopes, at : Stamps] \cup {None}]
  /\ phase \in {"start", "paging", "done"}
  /\ cursor \in Keys \cup {None}
  /\ phase = "paging" <=> cursor # None
  /\ seen \subseteq Ids /\ twice \subseteq seen
  /\ stable \subseteq Ids /\ regressed \subseteq Ids

Init ==
  /\ kind \in {"episodes", "claims", "executions"}
  /\ rows = [i \in Ids |-> None]
  /\ phase = "start" /\ cursor = None
  /\ seen = {} /\ twice = {} /\ stable = {} /\ regressed = {}

-----------------------------------------------------------------------------
(* The rows.                                                               *)

\* A stamp is taken before the transaction that inserts, by a clock of any
\* process, so a row may become visible with any of them.
Insert(i) ==
  /\ rows[i] = None
  /\ \E s \in Scopes, t \in Stamps : rows' = [rows EXCEPT ![i] = [scope |-> s, at |-> t]]
  /\ UNCHANGED <<kind, phase, cursor, seen, twice, stable, regressed>>

\* A transition of an execution; clocks of two processes may disagree.
Move(i) ==
  /\ kind = "executions"
  /\ rows[i] # None
  /\ \E t \in Stamps :
       /\ rows' = [rows EXCEPT ![i] = [scope |-> rows[i].scope, at |-> t]]
       /\ regressed' = IF t < rows[i].at THEN regressed \cup {i} ELSE regressed
  /\ stable' = stable \ {i}
  /\ UNCHANGED <<kind, phase, cursor, seen, twice>>

-----------------------------------------------------------------------------
(* A page.                                                                 *)

Key(i) == [at |-> rows[i].at, id |-> i]

\* Mutant: the cursor's own row is fetched again.
NotAbove(k, l) == k.at < l.at \/ (k.at = l.at /\ k.id <= l.id)

Below(k, l) == k.at < l.at \/ (k.at = l.at /\ k.id < l.id)

\* ORDER BY, and the comparison with the cursor.
Precedes(k, l) == IF kind = "episodes" THEN Below(k, l) ELSE Below(l, k)

InScope == {i \in Ids : rows[i] # None /\ rows[i].scope = Asked}

Remaining == {i \in InScope : cursor = None \/ Precedes(cursor, Key(i))}

\* LIMIT.
IsPage(page, limit) ==
  /\ page \subseteq Remaining
  /\ Cardinality(page) = limit
  /\ \A i \in page, j \in Remaining \ page : Precedes(Key(i), Key(j))

\* Mutant: the cursor is made of the row fetched beyond the limit.
CursorOfExtraRow(page, i) ==
  i \in Remaining \ page /\ \A j \in Remaining \ page : j = i \/ Precedes(Key(i), Key(j))

IsLast(page, i) == i \in page /\ \A j \in page \ {i} : Precedes(Key(j), Key(i))

Receive(page) ==
  /\ seen' = seen \cup page
  /\ twice' = twice \cup (seen \cap page)
  /\ stable' = IF phase = "start" THEN InScope ELSE stable
  /\ UNCHANGED <<kind, rows, regressed>>

FetchPage(limit) ==
  /\ phase # "done"
  /\ Cardinality(Remaining) > limit
  /\ \E page \in SUBSET Remaining :
       /\ IsPage(page, limit)
       /\ \E i \in Remaining : IsLast(page, i) /\ cursor' = Key(i)
       /\ Receive(page)
  /\ phase' = "paging"

\* Mutant: the last page has a cursor as well.
FetchLastWithCursor(limit) ==
  /\ phase # "done"
  /\ Cardinality(Remaining) <= limit
  /\ Receive(Remaining)
  /\ IF Remaining = {} THEN cursor' = None
                       ELSE \E i \in Remaining : IsLast(Remaining, i) /\ cursor' = Key(i)
  /\ phase' = "done"

FetchLastPage(limit) ==
  /\ phase # "done"
  /\ Cardinality(Remaining) <= limit
  /\ Receive(Remaining)
  /\ cursor' = None
  /\ phase' = "done"

Next ==
  \/ \E i \in Ids : Insert(i) \/ Move(i)
  \/ \E limit \in Limits : FetchPage(limit) \/ FetchLastPage(limit)

Spec == Init /\ [][Next]_vars

-----------------------------------------------------------------------------
(* Properties.                                                             *)

\* Whatever is inserted and updated between the pages, a client that has come
\* to the end was given every row that was there when it began and stayed put.
NothingMissed == phase = "done" => stable \subseteq seen

\* A row is listed twice only if it was updated with an earlier stamp: never an
\* episode or a claim.
NeverTwice == twice \subseteq regressed

=============================================================================
