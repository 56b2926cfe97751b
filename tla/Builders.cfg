SPECIFICATION Spec
CONSTANTS
  None = None
  Bad = Bad
  Clients = {c1, c2}
  Proxies = {p1}
  Requests = {r1, r2}
  Blocking = {r2}
  Forms = {f1, f2}
  Parts = {a1, a2}
  AsyncParts = {a1}
  Responses = {s1, s2}
  Keys = {"type", "other"}
  Type = "type"
  Middlewares = {m1}
  Values = {v1}
  Fields <- AllFields
  Sites <- AllSites
INVARIANTS   ResponseAsAsked SwallowedOnce
CHECK_DEADLOCK FALSE
