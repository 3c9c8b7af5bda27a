SPECIFICATION Spec
CONSTANTS
  ann = ann
  bob = bob
  Emails = {ann, bob}
  Founder = ann
  Invitations = {i1, i2}
  Setup = Setup
  Requests = {r1, r2}
  Nobody = Nobody
  Calls <- AllCalls
INVARIANTS
  OpenInvitationsAreForStrangers
