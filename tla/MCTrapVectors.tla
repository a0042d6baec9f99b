---------------------------- MODULE MCTrapVectors ----------------------------
EXTENDS TrapVectors
T == INSTANCE TrapVectorTests
AllTests == T!Tests
==============================================================================
