SPECIFICATION Spec
CONSTANT MaxPages = 4
INVARIANT PagesExist
INVARIANT FirstPageStays
INVARIANT FreeListSound
PROPERTY PagesSpec
