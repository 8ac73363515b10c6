SPECIFICATION Spec
INVARIANTS
  TypeOK
  WritesAuthenticated
  NothingEscapes
  LoggedOnce
  LoggedIsSent
  OneBody
  AnswersFitSchema
