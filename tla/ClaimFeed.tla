------------------------------- MODULE ClaimFeed -------------------------------
(***************************************************************************)
(* What the memory outbox and its consumers promise, whatever relays run   *)
(* and whatever fails: an episode yields at most one claim, which appears  *)
(* together with its announcement; an event is given to the delegate, any  *)
(* number of times, before it counts as published; and nothing is ever     *)
(* taken back.                                                             *)
(***************************************************************************)
CONSTANTS Episodes, Ids, Times

VARIABLES outbox, published, claims, delivered

vars == <<outbox, published, claims, delivered>>

Fresh(i) == i \in Ids /\ \A row \in outbox : row.id # i

Init == outbox = {} /\ published = {} /\ claims = {} /\ delivered = {}

Record(e) ==
  /\ \A row \in outbox : row.episode # e
  /\ \E i \in Ids, t \in Times :
       /\ Fresh(i)
       /\ outbox' = outbox \cup {[id |-> i, kind |-> "recorded", episode |-> e, at |-> t]}
  /\ UNCHANGED <<published, claims, delivered>>

\* The claim of a recorded episode, and the event that announces it.
Claim(row) ==
  /\ row.kind = "recorded"
  /\ \A claim \in claims : claim.episode # row.episode
  /\ \E i \in Ids :
       /\ Fresh(i)
       /\ claims' = claims \cup {[id |-> i, episode |-> row.episode]}
       /\ outbox' = outbox \cup
            {[id |-> i, kind |-> "proposed", episode |-> row.episode, at |-> row.at]}
  /\ UNCHANGED <<published, delivered>>

Deliver(row) ==
  /\ delivered' = delivered \cup {row.id}
  /\ UNCHANGED <<outbox, published, claims>>

Publish(rows) ==
  /\ \A row \in rows : row.id \in delivered
  /\ published' = published \cup {row.id : row \in rows}
  /\ UNCHANGED <<outbox, claims, delivered>>

Next ==
  \/ \E e \in Episodes : Record(e)
  \/ \E row \in outbox : Claim(row) \/ Deliver(row)
  \/ \E rows \in SUBSET outbox : Publish(rows)

Spec == Init /\ [][Next]_vars

=============================================================================
