SPECIFICATION Spec
CONSTANTS
    Ports = {p1, p2, p3, p4, p5, p6, p7}
    Times = {0, 1}
    MinimumSize = 2
SYMMETRY Symmetry
INVARIANT CurrentIsMinimum
