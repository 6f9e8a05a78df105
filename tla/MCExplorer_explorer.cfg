SPECIFICATION Spec
CONSTANTS
  Paths = {p1, p2}
  NoPath = NoPath
  Seed = "seed"
  OtherTexts = {"bin"}
  Binary = {"bin"}
  Typed = {"x"}
  OpKinds = {"save", "upload"}
  MaxVersion = 2
  MaxInFlight = 1
SYMMETRY AnyPath
INVARIANTS DirtyIsTruthful
PROPERTIES SaveReplacesBasis DraftIsKept LateAnswersAreDropped
CHECK_DEADLOCK FALSE
