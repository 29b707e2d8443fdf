SPECIFICATION Spec
CONSTANTS
  d1 = d1
  d2 = d2
  encoder = encoder
  sender = sender
  m1 = m1
  m2 = m2
  None = None
  DataNodes = {d1, d2}
  Users = {encoder, sender}
  Senders = {sender}
  Messages = {m1, m2}
  MessagesOf <- MCMessagesOf
  Files <- MCFiles
  Cycles = {"", "5"}
  Inits = {"", "v"}
INVARIANTS TypeOK InStep WorksWithOne ShownIsSent ShownIsRestored
