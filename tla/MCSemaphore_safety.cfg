SPECIFICATION Spec
CONSTANTS
  t1 = t1
  t2 = t2
  t3 = t3
  sig = sig
  NoSig = NoSig
  Task <- TheTasks
  Sig <- TheSig
  Timed <- TheTasks
  Serving <- TheTasks
  Interruptible <- TheTasks
  Initial = 0
  MaxPost = 2
  MaxTickets = 2
INVARIANTS TicketsConserved EveryTicketAnnounced
