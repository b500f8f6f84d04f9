SPECIFICATION MCSpec
CONSTANTS
  None = None
  k1 = k1
  k2 = k2
  BadKey = BadKey
  Keys = {k1, k2, BadKey}
  ann = ann
  bob = bob
  carol = carol
  file = file
  Addrs = {ann, bob, carol}
  Attachments = {file}
  Contacts <- ContactsOf
  Mails <- Letters
  Accounts <- AllAccounts
INVARIANTS
  EncryptedAsAsked
  BuiltFaithfully
  
PROPERTIES
  RecipientsServed
CHECK_DEADLOCK FALSE
