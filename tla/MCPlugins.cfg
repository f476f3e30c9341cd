SPECIFICATION FairSpec
CONSTANTS
  Calls <- MCCalls
  Lines <- MCLines
  MaxLines = 2
  Urls <- MCUrls
  Lookups <- MCLookups
  CertAnswers <- MCCertAnswers
  LiveAnswers <- MCLiveAnswers
  SameName <- MCSameName
  WhoisAnswers <- MCWhoisAnswers
INVARIANTS
  LinksMakeSense
  AnswersReported
  CertshSources
  WhoisFollowsReferrals
  FailuresAreKept
  DeclaredTypes
PROPERTY
  CallEnds
