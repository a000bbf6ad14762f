SPECIFICATION MailboxSpec
CONSTANTS
  ann = ann
  bob = bob
  MailUser = {ann, bob}
  Leaving = {ann}
  Admin = ann
  Purging = {1}
  System = System
  MaxMessage = 2
  Uses <- MCUses
  MailWindow = {1}
  Owners <- MCOwner
  Joined <- MCJoined
  Badged = {1}
  NoMessage = NoMessage
CHECK_DEADLOCK FALSE
PROPERTIES BadgeCatchesUp OpenedIsRead
