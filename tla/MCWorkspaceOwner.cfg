SPECIFICATION Spec
CONSTANTS
  ann = ann
  bob = bob
  ws1 = ws1
  inv1 = inv1
  inv2 = inv2
  call1 = call1
  call2 = call2
  Users <- MCUsers
  Workspaces = {ws1}
  Invitations <- MCInvitations
  Names = {"notes"}
  Roles = {"owner", "viewer"}
  Calls <- MCCalls
  MaxVersion = 2
SYMMETRY MCSymmetry
INVARIANTS OwnerRemains
