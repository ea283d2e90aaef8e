CONSTANTS
  MaxMessages = 2
  MaxFaults = 2
SPECIFICATION Spec
INVARIANTS NoNoticeLost NoticedAgainOnlyByReload
PROPERTIES NoticeIsSubmitted
