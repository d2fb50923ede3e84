SPECIFICATION Spec
CONSTANTS
  any = any
  Configs <- SomeConfigs
  Tenants = {t1, t2}
  Subjects = {s1, s2}
  Actors = {a1, a2}
  Keys = {k1}
  Nobody = Nobody
  Tasks = {any, other}
  Clients <- AnyAmongCreates
SYMMETRY Symmetry
INVARIANTS
  TypeOK
  NothingWithoutEntitlement
  
  
CHECK_DEADLOCK FALSE
