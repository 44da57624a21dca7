SPECIFICATION SettingsSpec
CONSTANTS
    Setters = {c1}
    DefaultMinutes = 1
    MaxEnds = 1
INVARIANTS ChosenMinutesStay
CHECK_DEADLOCK FALSE
