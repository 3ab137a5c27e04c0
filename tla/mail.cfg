SPECIFICATION FairMailSpec
CONSTANTS
  p1 = p1
  p2 = p2
  Slots <- Concurrent
  MAX_OTP_ATTEMPTS = 1
  MAX_RESET_ATTEMPTS = 1
  TTL <- Lifetimes
  MaxFaults = 1
  MaxMails = 2
  MAX_ATTEMPTS = 2
  RETRIES = 2
INVARIANTS
  MailTypeOK
  NoMailLost
  BoundedCopies
  MailedCodeWorks
PROPERTIES
  PromiseSpec
  MailsResolve
