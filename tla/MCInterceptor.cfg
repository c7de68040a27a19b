\* Two controllers, one worker each, one request in one namespace.
CONSTANTS
  c1 = c1  c2 = c2  r1 = r1  r2 = r2  n1 = n1  w1 = w1  w2 = w2
  AnyController = AnyController
  Controller = {c1, c2}
  Request = {r1}
  Namespace = {n1}
  NamespaceOf <- OneNamespace
  Worker = {w1, w2}
  ControllerOf <- EachItsOwn
  Asked = {0}
  Clamp = 1
  PauseRetry = 2
  MaxEvents = 1
  MaxPauses = 2
  MaxOps = 1
  MaxPasses <- OneErrs
SPECIFICATION Spec
INVARIANTS NoAdmissionAfterPause GatedOncePerPause OpsAttributedExactly UnconvergedIsLastReturn
PROPERTIES WakeupKept
