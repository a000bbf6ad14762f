SPECIFICATION UsersSpec
CONSTANTS
  ann = ann
  bob = bob
  cat = cat
  n1 = n1
  Root = Root
  None = None
  System = System
  MailUser = {ann, bob}
  Leaving = {bob}
  Admin = ann
  Purging = {1}
  Joined <- MCJoined
  MaxMessage = 1
  MailWindow = {1, 2}
  Owners <- MCOwners
  Uses <- MCUses
  Badged = {}
  NoMessage = NoMessage
  User = {ann, bob, cat}
  InitialAccount <- MCAll
  Node = {n1}
  InitialOwner <- MCCatOwns
  Window = {1, 2}
  Users <- MCWriters
  MaxChange = 0
PROPERTIES OwnerIsTold
