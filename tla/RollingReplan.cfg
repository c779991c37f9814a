SPECIFICATION Spec
CONSTANTS
  Orders = {o1}
  Services = {s1}
  Vehicles = {v1}
  Implements = {i1, i2}
  Operators = {p1}
  NoOperator = NoOperator
  None = None
  Aerial = {o1, s1}
  Demanding = {s1}
  Durations = {2}
  Freeze = 0
  Inventory = 1
  MaxVehicleUses = 2
  MaxTime = 1
  MaxHold = 1
SYMMETRY EquipmentSymmetry
INVARIANT BookingsSound
INVARIANT TasksSettled
PROPERTY MovesExplained
PROPERTY StartedKept
