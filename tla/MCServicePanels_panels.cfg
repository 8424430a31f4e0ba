SPECIFICATION PanelsSpec
CONSTANTS
  kitchen = kitchen
  Services = {kitchen, stock}
  HealthPolls = {p1, p2}
  ChaosPolls = {q1}
INVARIANT PanelsTypeOK
PROPERTIES HealthConverges ModeConverges ButtonsComeFree
