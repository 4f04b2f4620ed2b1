SPECIFICATION DiligentSpec
CONSTANTS
    Deliveries = {1, 2}
    Workers = {w1, w2}
    Kinds = {"staff", "dialog"}
    MaxRetriedAttempts = 1
    MaxRetries = 0
PROPERTIES QueueMoves
