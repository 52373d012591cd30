\* Three adds and two nexts of two threads over two keys: an insertion at the head,
\* in the middle (before an equal key and before a larger one) and at the tail,
\* each racing a removal.
SPECIFICATION Spec
CONSTANTS
    Threads = {unknown_links, attribution}
    Keys = {1, 2}
    None = None
    NULL = NULL
    Nodes = {n1, n2, n3}
    MaxAdds = 3
    MaxNexts = 2
INVARIANT CellsHaveOneOwner
PROPERTY ImplementsAtomicQueue
CHECK_DEADLOCK FALSE
