\* Every graph on four transactions, in every visiting order.
CONSTANT V = {v1, v2, v3, v4}
SYMMETRY Perms
SPECIFICATION Spec
INVARIANTS
    ReportsADeadlock
    ComponentsAreExact
