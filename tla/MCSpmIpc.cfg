SPECIFICATION IpcSpec
CONSTANTS
  ns = ns
  p1 = p1
  p2 = p2
  p3 = p3
  s1 = s1
  s2 = s2
  i1 = i1
  h1 = h1
  h2 = h2
  ra = ra
  NULL = NULL
  DOORBELL = DOORBELL
  NS = ns
  Thread <- MixThread
  Prior <- MixPrior
  Service = {s1, s2}
  Owner <- MixOwner
  Irq = {i1}
  IrqOwner <- MixIrqOwner
  Handle = {h1, h2}
  PoolInit <- Pool2
  RHandle = {}
  Deps <- MixDeps
  NotifyTo <- MixNotify
  Masks <- MixMasks
  Pollers = {p3}
  ConnectReply = {"PSA_SUCCESS", "CONNECTION_REFUSED"}
  CallReply = {"PSA_SUCCESS", "PROGRAMMER_ERROR"}
  WaitWhileHolding = FALSE
INVARIANT IpcInv
INVARIANT SignalIffQueued
INVARIANT SeenAsserted
INVARIANT UrgentRuns
INVARIANT CallReturnsReply
INVARIANT PoolSound
INVARIANT HandlesNotLeaked
INVARIANT NoPanic
INVARIANT BlockedDoesNotRun
INVARIANT QueueIntegrity
INVARIANT CallerBlocked
PROPERTY SwitchesUpOrAway
