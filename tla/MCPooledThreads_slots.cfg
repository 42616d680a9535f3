\* threaded_db_pool2.py on the release of slots.
CONSTANTS
  t1 = t1
  t2 = t2
  Threads = {t1, t2}
  MaxConn = 1
  MaxAttempts = 1
  Programs = {"plain"}
SPECIFICATION Spec
INVARIANTS
  SlotAlwaysReleased
