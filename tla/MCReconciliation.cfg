SPECIFICATION Spec
CONSTANTS
  a = a
  b = b
  c = c
  i1 = i1
  Users = {a, b, c}
  Members = {a, b}
  Invitations = {i1}
  Invitee <- MCInvitee
  Messages = {1, 2}
  Author <- MCAuthor
  Mentions <- MCMentions
  Drift <- MCDrift
  BatchSize = 1
  MaxVersion = 2
  MaxWrites = 3
  MaxRuns = 2
INVARIANTS
  TypeOK
  RunRepairs
PROPERTIES
  ExpectedRowsKept
  ReadStateKept
  ChangesAnnounced
  DryRunWritesNothing
CHECK_DEADLOCK FALSE
