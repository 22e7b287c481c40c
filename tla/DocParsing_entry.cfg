\* Documents with up to one named category and one named tag, each with a
\* "w" array of up to two elements; weight objects as the schema gives them
\* and one with an extra field; ts below and above the int width (16 bits
\* here, standing for writer.Int's 32).
CONSTANTS
  Elements <- MCElements
  ObjFields <- MCObjFields
  MaxElems = 2
  Names = {"c1", "c2"}
  TsVals <- MCTsVals
  IntBits = 16
SPECIFICATION Spec
INVARIANT EntryAsSpecified
