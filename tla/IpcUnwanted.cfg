\* c asks for a page in some of its calls and for none in others.
SPECIFICATION IpcSpec
CONSTANTS
  Env = {a, b, c}
  Senders = {a, b}
  PageReceivers = {c}
  PlainReceivers = {b, c}
  Perms = {"none", "W"}
  NoEnv = NoEnv
  NoPage = NoPage
  Nothing = Nothing
CHECK_DEADLOCK FALSE
PROPERTY ImplementsRendezvous
