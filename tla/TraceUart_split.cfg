CONSTANTS
  MaxSize = 8
  ByteSize = 256
  Sizes = {1, 2, 3}
  StreamMod = 7
SPECIFICATION Spec
INVARIANT SendsTheFirst
