SPECIFICATION Spec
CONSTANT MaxText = 3
INVARIANTS
  RequestReadsBack
  AnswerReadsBack
  CutRowRefused
