------------------------------ MODULE MCUltraNode -----------------------------
EXTENDS UltraNode

Shape(sort, writes, verifyOnly, enforced) ==
    [sort |-> sort, writes |-> writes, verifyOnly |-> verifyOnly, enforced |-> enforced]

MCShapes ==
    {Shape("leaf", TRUE, FALSE, TRUE), Shape("leaf", FALSE, TRUE, FALSE),
     Shape("component", FALSE, FALSE, TRUE), Shape("parent", TRUE, FALSE, FALSE)}

===============================================================================
