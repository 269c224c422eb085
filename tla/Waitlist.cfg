SPECIFICATION LiveSpec
CONSTANTS
  Addresses = {a1}
  Slots = {s1, s2}
  MaxMails = 2
  Scenarios <- MCScenarios
CHECK_DEADLOCK FALSE
INVARIANTS
  MailedIfSent
  SentIfMailed
  OneReceipt
PROPERTIES
  ReceiptGoesOut
