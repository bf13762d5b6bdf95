CONSTANT Parts = {"lock", "fixed", "gpe"}
SPECIFICATION MCSpec
PROPERTIES WaitEnds ServedIsQuiet HandledEventReturns
