SPECIFICATION UsersSpec
CONSTANTS
  ann = ann
  bob = bob
  cat = cat
  n1 = n1
  Root = Root
  None = None
  System = System
  MailUser = {ann, bob}
  Leaving = {bob}
  Admin = ann
  Purging = {1}
  Joined <- MCJoined
  MaxMessage = 1
  MailWindow = {1, 2}
  Owners <- MCOwners
  Uses <- MCUses
  Badged = {}
  NoMessage = NoMessage
  User = {ann, bob, cat}
  InitialAccount <- MCAccount
  Node = {n1}
  InitialOwner <- MCOwner
  Window = {1, 2}
  Users <- MCUsers
  MaxChange = 2
CHECK_DEADLOCK FALSE
INVARIANTS SessionsOfActive ClosedOwnNothing ActedOnWasShown
PROPERTIES EnabledIsAccepted
