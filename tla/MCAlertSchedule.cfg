SPECIFICATION Spec
CONSTANTS
  algo = algo
  text = text
  telegram = telegram
  mail = mail
  Nobody = Nobody
  Threads <- TheThreads
  TextThreads <- TheTexts
  Notifiers <- TheNotifiers
  Mails <- TheMails
  List <- TheList
  MinIntervalRepeatSend = 1
  ReplyDiffTime = 1
  ReplyCount = 1
  FirstTimeSkip = 2
  ForceSendInterval = 2
  MaxStall = 1
  MaxTime = 6
INVARIANTS
  RepliesBounded
PROPERTIES
  AlertsSpaced
  ForcedSpaced
