SPECIFICATION Spec
CONSTANTS
  Revision = {1, 2}
  TemplateOf <- MCTemplates
  Workloads <- MCWorkloads
  Replicas = {1, 2}
  Rules <- MCRules
  None = None
  MaxEdits = 2
INVARIANTS PodHasClaim IntermediateIsSeen
PROPERTIES RollKeepsAvailability NoLateReport Converges
