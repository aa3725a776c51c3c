SPECIFICATION Spec
CONSTANT MaxConnects = 3
INVARIANTS DestroyedIsUnused ReturnedIsOver OwnAttempt
