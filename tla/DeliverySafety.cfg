SPECIFICATION Spec
CONSTANTS
    Deliveries = {1, 2}
    Workers = {w1, w2}
    Kinds = {"staff", "incident", "cycle", "dialog", "answer"}
    MaxRetriedAttempts = 1
    MaxRetries = 1
SYMMETRY Symmetry
INVARIANTS TypeOK NoSilentDuplicate VerdictIsTrue HeadOfLine MessageMirrorsDelivery FencingInv
PROPERTIES NoOvertaking SettledForGood ImplementsChannel
