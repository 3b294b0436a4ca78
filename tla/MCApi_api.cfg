\* Two requests at a time; two failures allowed; a third client while the first
\* two are in use.
CONSTANTS
  Request = {r1, r2}
  MaxFailures = 2
  MaxPasswords = 2
  MaxCounted = 3
  LoginFaults = {"redis"}
  Client = {c1, c2, c3}
  NoClient = none
  ClientFaults = {"clickhouse"}
SPECIFICATION Spec
INVARIANT TypeOK
INVARIANT FewFailures
INVARIANT LastPasswordStays
INVARIANT FailureContained
PROPERTY LockoutEnds
