SPECIFICATION Spec
CONSTANTS
    Client = {"merchant", "other"}
    Payment = {"p1", "p2"}
    NoPayment = "none"
    Scope <- MCScope
    Attempts = 3
INVARIANT
    TerminalOutcomeFires
