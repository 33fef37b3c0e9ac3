CONSTANTS
  g1 = g1
  g2 = g2
  Procs = {g1, g2}
  Nobody = Nobody
  NoPath = NoPath
  Mimes <- MCMimes
  Transformers <- MCTransformers
  Initial <- MCInitial
  Resources <- MCResources
  TextMedia <- MCTextMedia
  Known <- MCKnown
  Added <- MCShortcuts
  Targets <- MCTargets
SPECIFICATION Spec
INVARIANTS OpenBalanced TransformersSeeUTF8
PROPERTIES PathShortest CallsReturn
