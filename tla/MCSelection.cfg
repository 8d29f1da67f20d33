SPECIFICATION Spec
CONSTANTS
    Units <- MCUnits
    Owner <- MCOwner
    Me = 1
    Xs <- MCXs
    Zs <- MCZs
PROPERTY SelectsRectangle
