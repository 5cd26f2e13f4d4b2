SPECIFICATION Spec
CONSTANTS
  render = render
  main = main
  worker = worker
  NoThread = NoThread
  Threads <- MCThreads
  Readers = {main}
  Writers = {main, worker}
  Nesters = {}
  Missers = {}
  Finders = {main}
INVARIANT Exclusive
