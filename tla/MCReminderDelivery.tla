------------------------- MODULE MCReminderDelivery -------------------------
(* A small instance of ReminderDelivery for TLC: reminders to one account, by
   e-mail; its WhatsApp channel is not enabled.                                 *)
EXTENDS ReminderDelivery

CONSTANTS mail, whatsapp

MailOnly == {{mail}}
=============================================================================
