SPECIFICATION Spec
CONSTANTS c1 = c1
          Call = {c1}
          Node = {n1, n2}
          Allowed <- MCAllowed
          Interval = 2
          TaskTimeout = 3
          MinDelay = 1
          MaxDelay = 2
          ExecTimeout = 3
          WaitTimeout = 3
INVARIANTS TypeOK OkIsDone OnceInOrder GivesUpLate
PROPERTIES CallsSettle
CHECK_DEADLOCK FALSE
