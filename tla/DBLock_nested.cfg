SPECIFICATION FairSpec
CONSTANTS
  render = render
  main = main
  worker = worker
  NoThread = NoThread
  Threads <- MCThreads
  Readers = {}
  Writers = {main, worker}
  Nesters = {worker}
  Missers = {}
  Finders = {}
PROPERTY NestedReaderPasses
