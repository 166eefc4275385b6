\* The second reminder to an account while the first is still queued.
CONSTANTS
  mail = mail
  whatsapp = whatsapp
  Jobs = {j1, j2}
  Keys = {mail, whatsapp}
  Registered = {mail, whatsapp}
  Reminders <- MailOnly
  Payloads = {e1, e2}
  Workers = {w1, w2}
  MaxAttempts = 2
  BatchSize = 2
  LeaseCovers = TRUE
SPECIFICATION ReminderSpec
INVARIANTS QueuedHasJob
