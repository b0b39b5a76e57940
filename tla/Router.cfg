\* The router with two requests in flight: every kind of request, key source
\* failures, rotations and dropped futures.
CONSTANTS
  ann = ann
  bob = bob
  app = app
  k1 = k1
  k2 = k2
  r1 = r1
  r2 = r2
  Absent = Absent
  NotString = NotString
  NoToken = NoToken
  NoKey = NoKey
  NoRequest = NoRequest
  Forged = Forged
  Ids = {ann, bob}
  Apps = {app}
  Roles = {"admin", "user"}
  Keys = {k1, k2}
  Routes = {"GET/open", "GET/own", "GET/admin", "GET/faulty"}
  RouteMap <- MCRouteMap
  Requests = {r1, r2}
  Inputs <- MCInputs
SPECIFICATION Spec
INVARIANTS
  TypeOK
  GuardsHold
  TokenCounts
  PermitHeld
PROPERTIES
  KeepsPromise
  EveryRequestAnswered
  AnonymousAnswered
  NotPoisoned
