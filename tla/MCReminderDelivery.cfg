\* Two reminders to one account, two workers that may crash, leases that outlast them.
CONSTANTS
  mail = mail
  whatsapp = whatsapp
  Jobs = {j1, j2}
  Keys = {mail, whatsapp}
  Registered = {mail, whatsapp}
  Reminders <- MailOnly
  Payloads = {e1, e2}
  Workers = {w1, w2}
  MaxAttempts = 2
  BatchSize = 2
  LeaseCovers = TRUE
SPECIFICATION ReminderSpec
INVARIANTS HeldRowIsOwn SpentJobIsFailed SuccessIsShown CopiesBounded
PROPERTIES ImplementsContract ReminderWithJobEnds
