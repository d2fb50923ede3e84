--------------------------- MODULE MCRequestAccess ---------------------------
(***************************************************************************)
(* A small instance of RequestAccess: one task may be asked almost         *)
(* anything, the other is asked to create something.                       *)
(***************************************************************************)
EXTENDS RequestAccess, TLC

CONSTANTS any

Config(environment, modules, oidc) ==
  [environment |-> environment, hardened |-> Hardening, http |-> TRUE,
   modules |-> modules, oidc |-> oidc]

Both == {"memory", "runtime"}

\* The last three do not start.
SomeConfigs ==
  {Config("development", Both, {}),
   Config("test", Both, {"enabled", "dev_signing_key"}),
   Config("staging", Both, {}),
   Config("staging", Both, {"enabled", "jwks_uri", "dev_signing_key"}),
   Config("production", {}, {"enabled", "issuer", "jwks_uri"}),
   Config("production", Both, {"enabled", "issuer", "jwks_uri", "dev_signing_key"}),
   Config("staging", Both, {"enabled", "dev_signing_key"}),
   Config("development", {"runtime"}, {})}

\* Where a request has a flaw, its identities agree.
FewerFlaws ==
  {r \in Requests :
     r.flaw # "none" =>
       /\ r.body = r.tenant /\ r.owner = r.tenant
       /\ r.header.who = Nobody \/ r.header.who.tenant = r.tenant}

GoodCreates ==
  {r \in Requests :
     /\ r.op \in Creates
     /\ r.flaw = "none"
     /\ r.body = r.tenant
     /\ IF r.header.who = Nobody
        THEN r.header.signed = "absent" /\ r.actor # Nobody
        ELSE r.header.who.tenant = r.tenant /\ r.actor = Nobody}

AnyAmongCreates == [t \in Tasks |-> IF t = any THEN FewerFlaws ELSE GoodCreates]

Symmetry == Permutations(Tenants) \cup Permutations(Subjects) \cup Permutations(Actors)

=============================================================================
