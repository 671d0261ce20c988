SPECIFICATION Spec
CONSTANTS
  s1 = s1
  s2 = s2
  Slots <- TwoSlots
  Workers = {1}
  WorkerOf <- InOneWorker
  Names <- MCNames
  Reserved = {"admin", "ops"}
  Emails <- MCEmails
  Passwords = {"p1", "p2"}
  InitialUsers <- AdminAndAnn
  Requests <- AllRequests
  MaxUserId = 4
  MaxCode = 3
  MaxEpoch = 2
SYMMETRY Symmetry
INVARIANTS
  TypeOK
  SessionsFresh
PROPERTIES
  EmailProven
  StaysVerified
