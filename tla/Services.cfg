SPECIFICATION Spec
CONSTANTS
  MaxFaults <- FaultBudget
  BatchCap = 2
  Retries = 2
  MaxCaptured = 3
  Mappings = {m1, m2}
  Raw = raw
  Unset = unset
  JobTries = 2
  MaxMapped = 2
  Period = 2
  MaxSends = 2
  MaxMails = 2
  MaxDay = 4
  Alerts = {a1, a2, a3}
  Breaching = {a1}
  Faulty = {a2}
  AlertTasks = {t1, t2}
  MaxSockets = 2
  MaxEvents = 2
  MaxViewers = 3
  MaxSource = 4
  MaxRecords = 4
  PageSize = 2
  FetchRetries = 1
INVARIANTS TypeOK EventsKept RecordingFits StatsFit NoticesRecorded  PresenceFits FetchFits
PROPERTIES TasksEnd MailsSpaced 
CHECK_DEADLOCK FALSE
