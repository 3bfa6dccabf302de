SPECIFICATION Spec
CONSTANTS
  Yaml = Yaml
  Secrets = {s1, s2}
  MaxEdits = 6
SYMMETRY Symmetry
INVARIANT ConfigCurrent
PROPERTY KeepsItsOwn
