CONSTANTS
 Thread = {t1,t2,t3}
 None = None
SPECIFICATION Spec
INVARIANTS FreeForWriters
