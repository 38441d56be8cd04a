SPECIFICATION IpcSpec
CONSTANTS
  ns = ns
  p1 = p1
  p2 = p2
  p3 = p3
  s1 = s1
  s2 = s2
  i1 = i1
  h1 = h1
  h2 = h2
  ra = ra
  NULL = NULL
  DOORBELL = DOORBELL
  NS = ns
  Thread <- ChainThread
  Prior <- ChainPrior
  Service = {s1, s2}
  Owner <- ChainOwner
  Irq = {i1}
  IrqOwner <- ChainIrqOwner
  Handle = {h1, h2}
  PoolInit <- Pool2
  RHandle = {}
  Deps <- ChainDeps
  NotifyTo <- NoNotify
  Masks <- ChainMasks
  Pollers = {}
  ConnectReply = {"PSA_SUCCESS"}
  CallReply = {"PSA_SUCCESS"}
  WaitWhileHolding = FALSE
INVARIANT WaitReturnsSignal
