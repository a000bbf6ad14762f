SPECIFICATION TreeSpec
CONSTANTS
  Node <- MCNode
  Root = "L"
  TypeOf <- MCTypeOf
  Rank <- MCRank
  Limits <- MCLimits
  Unit = 8
  CoreTree <- MCCoreTree
  CoreNode <- MCCoreNode
  NewNode = {"new", "guard"}
  MaxMarks = 1
  Tasks <- MCTasks
INVARIANTS OfferedIsValid PruneKeepsShared CountsAgree ScenariosSucceed WorstPlanIsShown ProbabilityIsJoint BudgetIsExact
PROPERTIES RulesKeepValues
CHECK_DEADLOCK FALSE
