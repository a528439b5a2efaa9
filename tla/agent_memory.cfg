SPECIFICATION LiveSpec
CONSTANTS
  alice = alice
  bob = bob
  first = first
  second = second
  third = third
  one = one
  two = two
  NoId = NoId
  NoRow = NoRow
  Ids = {first, second, third}
  Users = {alice, bob}
  Texts = {one, two}
  Requests = {r1, r2, r3}
  Runs = 2
  UserOf <- MCUserOf
  Menu <- MCMenu
  MaxFaults = 1
INVARIANTS
  AnswersAreOwn
PROPERTIES
  NamespacesAreSeparate
  ServiceIsAtomic
  RequestsAreAnswered
