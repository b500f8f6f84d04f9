SPECIFICATION MCSpec
CONSTANTS
  s1 = s1
  s2 = s2
  a1 = a1
  h1 = h1
  x = x
  y = y
  NoSender = NoSender
  Senders = {s1, s2}
  Appenders = {a1}
  Hashes = {h1}
  ToLists <- RecipientLists
  Expiry = 1
  Patience = 1
  MaxTime = 3
INVARIANTS
  OneLiveEntryPerMessage
  NoDuplicateSend
  NotWokenEarly
PROPERTIES
  KeepsPromise
  CallersReturn
  LoopIsFreed
