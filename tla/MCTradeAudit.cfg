SPECIFICATION Spec
CONSTANTS
    o1 = o1
    o2 = o2
    t1 = t1
    t2 = t2
    t3 = t3
    Orders = {o1, o2}
    Trades = {t1, t2, t3}
    OrderOf <- MCOrderOf
PROPERTY GapIsReal
CHECK_DEADLOCK FALSE
