\* Two slots for tasks, three stacks, an object of each kind.
CONSTANTS
  main = main  postproc = postproc  s1 = s1  s2 = s2  k1 = k1  k2 = k2  k3 = k3
  sema = sema  mutex = mutex  mesgq = mesgq
  b1 = b1  b2 = b2  b3 = b3  d1 = d1  d2 = d2  d3 = d3
  Main = main
  PostProc = postproc
  RK_gTcbs <- MCTcbs
  stacks <- MCStacks
  Attr <- MCAttr
  Handle = {h1}
  objects <- MCObjects
  MaxHeld = 1
  NULL = NULL
  Writer = {w1}
  Reader = {r1, r2}
  mrmPool <- MCMrmPool
  mesgPool <- MCMesgPool
  Message = {x, y}
  Zero = Zero
  None = NULL
SPECIFICATION MCSpec
INVARIANTS
  NoDangling
  SelfTerminationSafe
  MRMAccounted
PROPERTIES
  ReadersUndisturbed
