\* The first writer of a run and one status query.
CONSTANTS
  o1 = o1
  o2 = o2
  Opener = {o1, o2}
SPECIFICATION Spec
INVARIANT OneSchemaVersion
