SPECIFICATION Spec
CONSTANTS
    Uses <- LeaveWhileJoining
    Later = 2
    Parts = 2
PROPERTY LeaveCancels
