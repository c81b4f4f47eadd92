------------------------ MODULE MCNotificationSender ------------------------
\* One notice that may go by WhatsApp (1, with receipts) or SMS (2, without),
\* and two workers.
EXTENDS NotificationSender

CONSTANTS n1, s1, s2
=============================================================================
