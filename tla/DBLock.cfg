SPECIFICATION FairSpec
CONSTANTS
  render = render
  main = main
  worker = worker
  NoThread = NoThread
  Threads <- MCThreads
  Readers = {render, main, worker}
  Writers = {main, worker}
  Nesters = {main, worker}
  Missers = {main}
  Finders = {main, worker}
INVARIANTS CountsExact WriterMutex PureReaderExclusion IInv
PROPERTIES ImplementsRWLock ReaderProgress
