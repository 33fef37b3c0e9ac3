CONSTANTS
  g1 = g1
  g2 = g2
  Procs = {g1, g2}
  Nobody = Nobody
  NoPath = NoPath
  Mimes <- MCMimes
  Transformers <- MCTransformers
  Initial <- MCInitial
  Resources <- MCStale
  TextMedia <- MCTextMedia
  Known <- MCKnown
  Added <- MCShortcuts
  Targets <- MCTargets
SPECIFICATION Spec
INVARIANT DecodedFromCharset
