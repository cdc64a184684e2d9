SPECIFICATION FairSpec
CONSTANTS
    a = a
    b = b
    gone = gone
    MaxItems = 4
    Stored = 2
    VariableOf <- MCVariableOf
    Missing = {gone}
    Radixes = {2, 16}
    Styles = {"Python", "Verilog"}
    MaxClicks = 4
CHECK_DEADLOCK FALSE
INVARIANTS ListAsWanted OptionsAsChosen
PROPERTY TreeConverges
