CONSTANTS
  MemTop = 10
  StackBase = 11
  SigFrame = 2
  AltRegions <- MCAltRegions
  h1 = h1
  h2 = h2
  sigIgn = sigIgn
  sigDfl = sigDfl
  Handlers = {h1, h2}
  SIG_IGN <- sigIgn
  SIG_DFL <- sigDfl
  MaxNest = 2
  AltInHandler = FALSE
SPECIFICATION Spec
INVARIANT FramesReleased
