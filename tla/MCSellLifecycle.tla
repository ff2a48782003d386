--------------------------- MODULE MCSellLifecycle ---------------------------
EXTENDS SellLifecycle

\* What the engine has to cope with, in the combinations its code foresees.
Scenarios == {{"userCancel", "modifyFails", "crash"},
              {"modifyFails"}, {"rsi", "modifyFails", "placeFails"},
              {"rsi", "userCancel", "crash"},
              {"circuit", "crash"},
              {"userSale", "buy"},
              {"outage"}}
=============================================================================
