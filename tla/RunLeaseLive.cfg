SPECIFICATION LiveSpec
CONSTANTS
    e1 = e1
    q1 = q1
    q2 = q2
    NoEngine = NoEngine
    Engines = {e1}
    Requests = {q1}
    MaxAttempts = 2
PROPERTIES CancelSettles ZombieSettles
