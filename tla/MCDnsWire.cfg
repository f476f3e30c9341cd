SPECIFICATION Spec
CONSTANTS
  Datagrams <- MCDatagrams
  ExpectedId <- MCId
  Asked <- MCAsked
  Messages <- MCMessages
  Names <- MCNames
INVARIANTS
  WInv
  AnswersAsMeant
  QuestionReadsBack
PROPERTY
  Descends
