\* A crash cuts a line of the event log, and another one interrupts the restart after it.
CONSTANTS
    Failers = {}
    MaxEvents = 2
    MaxStops = 2
    MaxKills = 2
    MaxLogFaults = 0
SPECIFICATION Spec
INVARIANT LogReadable
