--------------------------- MODULE KeysetPagingProofs ---------------------------
(* What a listing returns, for any rows, stamps, limits and updates.       *)
EXTENDS KeysetPaging, TLAPS

\* What the client has not been given is behind its cursor, and what it has
\* been given is not, unless it was set back.
Passed(i) == ~Precedes(cursor, Key(i))

PagingInv ==
  /\ TypeOK
  /\ phase = "start" => seen = {} /\ stable = {}
  /\ stable \subseteq InScope
  /\ phase = "paging" => /\ \A i \in stable \ seen : Precedes(cursor, Key(i))
                         /\ \A i \in seen \ regressed : rows[i] # None /\ Passed(i)
  /\ regressed # {} => kind = "executions"
  /\ NothingMissed
  /\ NeverTwice

\* The order of the list is total.
LEMMA Total ==
  ASSUME NEW k \in Keys, NEW l \in Keys, k # l
  PROVE  Precedes(k, l) <=> ~Precedes(l, k)
<1>1. k = [at |-> k.at, id |-> k.id] /\ l = [at |-> l.at, id |-> l.id]
  BY DEF Keys
<1>2. k.at \in Nat /\ l.at \in Nat /\ k.id \in Nat /\ l.id \in Nat
  BY OrderAssumption DEF Keys
<1>3. k.at # l.at \/ k.id # l.id
  BY <1>1
<1> QED BY <1>2, <1>3 DEF Precedes, Below

LEMMA Transitive ==
  ASSUME NEW k \in Keys, NEW l \in Keys, NEW m \in Keys, Precedes(k, l), Precedes(l, m)
  PROVE  Precedes(k, m)
<1>1. k.at \in Nat /\ l.at \in Nat /\ m.at \in Nat /\ k.id \in Nat /\ l.id \in Nat /\ m.id \in Nat
  BY OrderAssumption DEF Keys
<1> QED BY <1>1 DEF Precedes, Below

LEMMA Irreflexive ==
  ASSUME NEW k \in Keys
  PROVE  ~Precedes(k, k)
<1>1. k.at \in Nat /\ k.id \in Nat
  BY OrderAssumption DEF Keys
<1> QED BY <1>1 DEF Precedes, Below

\* The key of a visible row.
LEMMA KeyOfRow ==
  ASSUME TypeOK, NEW i \in Ids, rows[i] # None
  PROVE  Key(i) \in Keys /\ Key(i).id = i /\ Key(i).at = rows[i].at
<1>1. rows[i] \in [scope : Scopes, at : Stamps]
  BY DEF TypeOK
<1> QED BY <1>1 DEF Key, Keys

LEMMA InitSatisfies == Init => PagingInv
BY NoneAssumption DEF Init, PagingInv, TypeOK, NothingMissed, NeverTwice, InScope

LEMMA InsertPreserves ==
  ASSUME PagingInv, NEW i \in Ids, Insert(i)
  PROVE  PagingInv'
<1>1. PICK s \in Scopes, t \in Stamps : rows' = [rows EXCEPT ![i] = [scope |-> s, at |-> t]]
  BY DEF Insert
<1>2. [scope |-> s, at |-> t] \in [scope : Scopes, at : Stamps]
  OBVIOUS
<1>3. TypeOK'
  BY <1>1, <1>2 DEF PagingInv, TypeOK, Insert
<1>4. \A j \in Ids : rows[j] # None => rows'[j] = rows[j]
  BY <1>1 DEF Insert, PagingInv, TypeOK
<1>5. \A j \in Ids : rows[j] # None => Key(j)' = Key(j)
  BY <1>4 DEF Key
<1>6. InScope \subseteq InScope'
  BY <1>4 DEF InScope
<1>7. \A k, l : Precedes(k, l)' <=> Precedes(k, l)
  BY DEF Insert, Precedes, Below
<1>8. \A j \in stable : j \in Ids /\ rows[j] # None
  BY DEF PagingInv, InScope
<1>9. (phase = "paging" =>
         /\ \A j \in stable \ seen : Precedes(cursor, Key(j))
         /\ \A j \in seen \ regressed : rows[j] # None /\ Passed(j))'
  BY <1>4, <1>5, <1>8 DEF Insert, PagingInv, TypeOK, Passed, Precedes, Below
<1> QED BY <1>3, <1>6, <1>9 DEF Insert, PagingInv, NothingMissed, NeverTwice

LEMMA MovePreserves ==
  ASSUME PagingInv, NEW i \in Ids, Move(i)
  PROVE  PagingInv'
<1>1. PICK t \in Stamps :
        /\ rows' = [rows EXCEPT ![i] = [scope |-> rows[i].scope, at |-> t]]
        /\ regressed' = IF t < rows[i].at THEN regressed \cup {i} ELSE regressed
  BY DEF Move
<1>2. rows[i] \in [scope : Scopes, at : Stamps] /\ rows[i].scope \in Scopes
  BY DEF Move, PagingInv, TypeOK
<1> DEFINE new == [scope |-> rows[i].scope, at |-> t]
<1>3. new \in [scope : Scopes, at : Stamps] /\ new # None
  BY <1>2, NoneAssumption
<1>4. rows'[i] = new /\ \A j \in Ids : j # i => rows'[j] = rows[j]
  BY <1>1 DEF PagingInv, TypeOK
<1>5. TypeOK'
  BY <1>1, <1>3 DEF PagingInv, TypeOK, Move
<1>6. stable' \subseteq InScope'
  BY <1>4 DEF Move, PagingInv, InScope
<1>7. ASSUME phase = "paging"
      PROVE  /\ \A j \in stable' \ seen : Precedes(cursor, Key(j)')
             /\ \A j \in seen \ regressed' : rows'[j] # None /\ ~Precedes(cursor, Key(j)')
  <2>1. \A j \in stable' \ seen : Precedes(cursor, Key(j)')
    BY <1>4, <1>7 DEF Move, PagingInv, TypeOK, Key
  <2>2. ASSUME NEW j \in seen \ regressed', j # i
        PROVE  rows'[j] # None /\ ~Precedes(cursor, Key(j)')
    BY <1>1, <1>4, <1>7, <2>2 DEF PagingInv, TypeOK, Key, Passed
  <2>3. ASSUME i \in seen \ regressed'
        PROVE  rows'[i] # None /\ ~Precedes(cursor, Key(i)')
    <3>1. i \notin regressed /\ ~(t < rows[i].at)
      BY <1>1, <2>3
    <3>2. cursor \in Keys /\ ~Precedes(cursor, Key(i))
      BY <1>7, <2>3, <3>1 DEF PagingInv, TypeOK, Passed
    <3>3. /\ Key(i).at = rows[i].at /\ Key(i).id = i
          /\ Key(i)'.at = t /\ Key(i)'.id = i
      BY <1>3, <1>4 DEF Key
    <3>4. /\ t \in Nat /\ rows[i].at \in Nat /\ i \in Nat
          /\ cursor.at \in Nat /\ cursor.id \in Nat
      BY <1>2, <3>2, OrderAssumption DEF Keys
    <3>5. kind = "executions"
      BY DEF Move
    <3> QED BY <1>3, <1>4, <3>1, <3>2, <3>3, <3>4, <3>5 DEF Precedes, Below
  <2> QED BY <2>1, <2>2, <2>3
<1>8. (phase = "paging" =>
         /\ \A j \in stable \ seen : Precedes(cursor, Key(j))
         /\ \A j \in seen \ regressed : rows[j] # None /\ Passed(j))'
  BY <1>7 DEF Move, Passed, Precedes, Below
<1> QED BY <1>1, <1>5, <1>6, <1>8 DEF Move, PagingInv, NothingMissed, NeverTwice

\* A row of the next page was given before only if it was set back since.
LEMMA RepeatsRegressed ==
  ASSUME PagingInv, phase # "done"
  PROVE  seen \cap Remaining \subseteq regressed
<1>1. CASE phase = "start"
  BY <1>1 DEF PagingInv
<1>2. CASE phase = "paging"
  BY <1>2 DEF PagingInv, TypeOK, Remaining, Passed
<1> QED BY <1>1, <1>2 DEF PagingInv, TypeOK

\* Rows that were not given yet and stayed put are still to come.
LEMMA StableRemain ==
  ASSUME PagingInv, phase # "done"
  PROVE  (IF phase = "start" THEN InScope ELSE stable) \subseteq seen \cup Remaining
<1>1. CASE phase = "start"
  BY <1>1 DEF PagingInv, TypeOK, Remaining
<1>2. CASE phase = "paging"
  BY <1>2 DEF PagingInv, TypeOK, Remaining
<1> QED BY <1>1, <1>2 DEF PagingInv, TypeOK

LEMMA FetchLastPagePreserves ==
  ASSUME PagingInv, NEW limit \in Limits, FetchLastPage(limit)
  PROVE  PagingInv'
<1>1. Remaining \subseteq InScope /\ InScope \subseteq Ids
  BY DEF Remaining, InScope
<1>2. seen \cap Remaining \subseteq regressed
  BY RepeatsRegressed DEF FetchLastPage
<1>3. stable' \subseteq seen'
  BY StableRemain DEF FetchLastPage, Receive
<1>4. TypeOK'
  BY <1>1 DEF FetchLastPage, Receive, PagingInv, TypeOK
<1>5. InScope' = InScope
  BY DEF FetchLastPage, Receive, InScope
<1> QED BY <1>1, <1>2, <1>3, <1>4, <1>5
        DEF FetchLastPage, Receive, PagingInv, NothingMissed, NeverTwice

LEMMA FetchPagePreserves ==
  ASSUME PagingInv, NEW limit \in Limits, FetchPage(limit)
  PROVE  PagingInv'
<1>1. PICK page \in SUBSET Remaining, last \in Remaining :
        IsPage(page, limit) /\ IsLast(page, last) /\ cursor' = Key(last) /\ Receive(page)
  BY DEF FetchPage
<1>2. Remaining \subseteq InScope /\ InScope \subseteq Ids
  BY DEF Remaining, InScope
<1>3. \A i \in Remaining : Key(i) \in Keys /\ Key(i).id = i
  BY <1>2, KeyOfRow DEF PagingInv, InScope
<1>4. seen \cap Remaining \subseteq regressed
  BY RepeatsRegressed DEF FetchPage
<1>5. stable' \subseteq seen \cup Remaining
  <2>1. phase # "done"
    BY DEF FetchPage
  <2> QED BY <1>1, <2>1, StableRemain DEF Receive
<1>6. last \in page
  BY <1>1 DEF IsLast
<1>7. TypeOK'
  BY <1>1, <1>2, <1>3, NoneAssumption DEF FetchPage, Receive, PagingInv, TypeOK
<1>8. InScope' = InScope /\ rows' = rows /\ kind' = kind /\ regressed' = regressed
  BY <1>1 DEF Receive, InScope
<1>9. \A i \in stable' \ seen' : Precedes(Key(last), Key(i))
  BY <1>1, <1>5, <1>6 DEF Receive, IsPage
<1>10. ASSUME NEW i \in page
       PROVE  ~Precedes(Key(last), Key(i))
  <2>1. CASE i = last
    BY <2>1, <1>3, Irreflexive
  <2>2. CASE i # last
    <3>1. Precedes(Key(i), Key(last)) /\ Key(i) # Key(last)
      BY <1>1, <1>3, <2>2 DEF IsLast
    <3> QED BY <1>1, <1>3, <3>1, Total
  <2> QED BY <2>1, <2>2
<1>11. ASSUME NEW i \in seen \ regressed
       PROVE  rows[i] # None /\ ~Precedes(Key(last), Key(i))
  <2>1. phase = "paging"
    BY <1>11 DEF FetchPage, PagingInv, TypeOK
  <2>2. rows[i] # None /\ ~Precedes(cursor, Key(i)) /\ i \in Ids
    BY <1>11, <2>1 DEF PagingInv, TypeOK, Passed
  <2>3. cursor \in Keys /\ Precedes(cursor, Key(last))
    BY <1>1, <2>1 DEF PagingInv, TypeOK, Remaining
  <2>4. Key(i) \in Keys
    BY <2>2, KeyOfRow DEF PagingInv
  <2> QED BY <1>3, <2>2, <2>3, <2>4, Transitive
<1>12. (phase = "paging" =>
          /\ \A i \in stable \ seen : Precedes(cursor, Key(i))
          /\ \A i \in seen \ regressed : rows[i] # None /\ Passed(i))'
  <2>1. \A i : Key(i)' = Key(i)
    BY <1>8 DEF Key
  <2>2. \A i \in seen' \ regressed' : rows[i] # None /\ ~Precedes(Key(last), Key(i))
    BY <1>1, <1>2, <1>8, <1>10, <1>11 DEF Receive, InScope
  <2> QED BY <1>1, <1>8, <1>9, <2>1, <2>2 DEF Passed, Precedes, Below
<1>13. stable' \subseteq InScope'
  BY <1>1, <1>8 DEF Receive, PagingInv
<1> QED BY <1>1, <1>4, <1>7, <1>8, <1>12, <1>13
        DEF FetchPage, Receive, PagingInv, NothingMissed, NeverTwice

\* The strengthened invariant holds, whatever is listed, inserted and updated.
THEOREM PagingInvariance == Spec => []PagingInv
<1>1. Init => PagingInv
  BY InitSatisfies
<1>2. PagingInv /\ [Next]_vars => PagingInv'
  <2> SUFFICES ASSUME PagingInv, [Next]_vars
               PROVE  PagingInv'
    OBVIOUS
  <2>1. CASE \E i \in Ids : Insert(i)
    BY <2>1, InsertPreserves
  <2>2. CASE \E i \in Ids : Move(i)
    BY <2>2, MovePreserves
  <2>3. CASE \E limit \in Limits : FetchPage(limit)
    BY <2>3, FetchPagePreserves
  <2>4. CASE \E limit \in Limits : FetchLastPage(limit)
    BY <2>4, FetchLastPagePreserves
  <2>5. CASE UNCHANGED vars
    BY <2>5 DEF vars, PagingInv, TypeOK, NothingMissed, NeverTwice, InScope, Passed,
                Precedes, Below, Key
  <2> QED BY <2>1, <2>2, <2>3, <2>4, <2>5 DEF Next
<1> QED BY <1>1, <1>2, PTL DEF Spec

\* The state of a listing is typed; only a client between two pages has a cursor.
THEOREM TypeCorrect == Spec => []TypeOK
<1>1. PagingInv => TypeOK
  BY DEF PagingInv
<1> QED BY <1>1, PagingInvariance, PTL

\* A listing of any scope, with any limits and any number of rows inserted and
\* updated meanwhile, misses no row that was there and stayed put.
THEOREM CompleteListing == Spec => []NothingMissed
<1>1. PagingInv => NothingMissed
  BY DEF PagingInv
<1> QED BY <1>1, PagingInvariance, PTL

\* A row is listed twice only if it was updated with an earlier stamp.
THEOREM NoRepetition == Spec => []NeverTwice
<1>1. PagingInv => NeverTwice
  BY DEF PagingInv
<1> QED BY <1>1, PagingInvariance, PTL

\* An immutable row, an episode or a claim, is never listed twice.
THEOREM ImmutableRowsOnce == Spec => [](kind # "executions" => twice = {})
<1>1. PagingInv => (kind # "executions" => twice = {})
  BY DEF PagingInv, NeverTwice
<1> QED BY <1>1, PagingInvariance, PTL

-----------------------------------------------------------------------------
(* The order of a listing.                                                 *)

\* What a page adds comes after what earlier pages gave, as the rows are now,
\* but for rows that were set back.
PagesFollow ==
  \A i \in seen' \ seen, j \in seen \ regressed : Precedes(Key(j), Key(i))

LEMMA PageFollows ==
  ASSUME PagingInv, phase # "done", NEW page \in SUBSET Remaining, Receive(page)
  PROVE  PagesFollow
<1> SUFFICES ASSUME NEW i \in seen' \ seen, NEW j \in seen \ regressed
             PROVE  Precedes(Key(j), Key(i))
  BY DEF PagesFollow
<1>1. i \in page /\ i # j  BY DEF Receive
<1>2. phase = "paging"  BY DEF PagingInv, TypeOK
<1>3. cursor \in Keys /\ cursor # None  BY <1>2 DEF PagingInv, TypeOK
<1>4. Key(i) \in Keys /\ Key(i).id = i /\ Precedes(cursor, Key(i))
  <2>1. i \in Ids /\ rows[i] # None  BY <1>1 DEF Remaining, InScope
  <2> QED  BY <1>1, <1>3, <2>1, KeyOfRow DEF PagingInv, Remaining
<1>5. Key(j) \in Keys /\ Key(j).id = j /\ ~Precedes(cursor, Key(j))
  <2>1. j \in Ids /\ rows[j] # None /\ Passed(j)  BY <1>2 DEF PagingInv, TypeOK
  <2> QED  BY <2>1, KeyOfRow DEF PagingInv, Passed
<1>6. CASE Key(j) = cursor  BY <1>4, <1>6
<1>7. CASE Key(j) # cursor
  <2>1. Precedes(Key(j), cursor)  BY <1>3, <1>5, <1>7, Total
  <2> QED  BY <1>3, <1>4, <1>5, <2>1, Transitive
<1> QED  BY <1>6, <1>7

\* The pages of a listing, put together, are in the order of ORDER BY, although
\* each is a query of its own over whatever is there by then: a row that becomes
\* visible late, with a key before the cursor, is left out and not put out of
\* its place.
THEOREM OrderedListing == Spec => [][PagesFollow]_vars
<1>1. PagingInv /\ [Next]_vars => [PagesFollow]_vars
  <2> SUFFICES ASSUME PagingInv, Next  PROVE PagesFollow  OBVIOUS
  <2>1. ASSUME NEW i \in Ids, Insert(i) \/ Move(i)  PROVE PagesFollow
    BY <2>1 DEF Insert, Move, PagesFollow
  <2>2. ASSUME NEW limit \in Limits, FetchPage(limit)  PROVE PagesFollow
    BY <2>2, PageFollows DEF FetchPage
  <2>3. ASSUME NEW limit \in Limits, FetchLastPage(limit)  PROVE PagesFollow
    BY <2>3, PageFollows DEF FetchLastPage
  <2> QED  BY <2>1, <2>2, <2>3 DEF Next
<1> QED  BY <1>1, PagingInvariance, PTL DEF Spec

=============================================================================
