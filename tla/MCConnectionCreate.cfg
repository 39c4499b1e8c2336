CONSTANTS FailCalls <- MCFailCalls
          MemNum <- MCMemNum
          Dirs <- MCDirs
SPECIFICATION Spec
\* create is a function that returns: a failed create, a destroyed
\* connection and a crash are final states.
CHECK_DEADLOCK FALSE
INVARIANT TypeOK
INVARIANT NoLeak
PROPERTY DependencyOrder
INVARIANT EstablishedWithFullRq
INVARIANT GidListSorted
