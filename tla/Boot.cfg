\* The timer, the keyboard and one line of the slave; three nested handlers.
SPECIFICATION Spec
CONSTANTS
    Lines <- MCLines
    BiosMasks <- MCBiosMasks
    MaskLines <- ClockLine
    MaxDepth = 3
    MaxLost = 1
    MaxSpurious = 1
INVARIANTS
    TypeOK
    QuietBootIsSafe
    PicAsAsked
    EoisBalance
    SwitchNotReentered
PROPERTIES
    A20Outcome
    BootCompletes
    KeyServed
