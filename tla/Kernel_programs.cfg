SPECIFICATION Spec
CONSTANTS
  Depth = 8
  Plans <- MCPlans
  Probes <- MCProbes
  Budgets = {16, 24, 40, 200}
PROPERTIES Consistent Canonical ErasedUnread Congruent NormalForms FuelMonotone RecursorComputes GroupClosed ErasedAgrees CodeWhole
CHECK_DEADLOCK FALSE
