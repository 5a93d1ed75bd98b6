CONSTANTS
    MaxTip = 2
    MaxId = 4
    MaxEpoch = 2
    MaxInbox = 1
    MaxOut = 1
    Cap = 2
SPECIFICATION MCSpec
INVARIANTS Retention
PROPERTIES ImplementsTemplateSource CancelledReturns TipAnnounced
