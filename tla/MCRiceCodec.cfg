CONSTANT Tiles <- MCTiles
SPECIFICATION Spec
INVARIANTS Lossless
