SPECIFICATION FairSpec
CONSTANTS
  Dashboard = {d1}
  Agent = {a2}
  Nobody = nobody
  Primary = {}
  MaxMsg = 2
  MaxAttempts = 2
  MaxCrash = 1
INVARIANTS
  TypeOK
  NoReinjection
  NoForgottenMail
PROPERTIES
  WritesInOrder
  ImplementsQueue
  MailSettles
  FlightEnds
