\* Three jobs, two processes, BullMQ's default of one stall.
CONSTANTS
  Jobs = {j1, j2, j3}
  Workers = {w1, w2}
  MaxStalls = 1
  None = None
CHECK_DEADLOCK FALSE
SPECIFICATION FairSpec
INVARIANTS MailsPerRun LossHasCause
PROPERTIES Settled ImplementsMail
