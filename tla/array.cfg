CONSTANTS
    oa = oa
    ob = ob
    oc = oc
    Object = {oa, ob, oc}
    Rank <- TwoEqual
    Func <- Rotate
    Nothing = Nothing
    MinCapacity = 2
    MaxCapacity = 4
SPECIFICATION Spec
INVARIANTS
    TypeOK
PROPERTIES
    ImplementsObjectList
    CallsHitTheirElement
