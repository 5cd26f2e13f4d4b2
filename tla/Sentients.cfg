SPECIFICATION Spec
CONSTANTS
  a1 = a1
  a2 = a2
  e1 = e1
  Actors = {a1, a2}
  Sentients = {a1, a2, e1}
  Enemies <- MCEnemies
  TalksTo <- MCTalksTo
  Thing = Thing
  NoTarget = NoTarget
  CareTime = 1
  ForgetTime = 2
  MaxTime = 3
  MaxLives <- MCLives
  ScriptTargets = {Thing, e1}
INVARIANTS KnowledgeWasTrue AttackersExact EnemyGoalHasEnemy
PROPERTY NeverOlder
