CONSTANTS
    MaxErrors = 2
    DirectLimit = 2
SPECIFICATION Spec
INVARIANT EnabledOnlyByUser
