SPECIFICATION FairSpec
CONSTANTS
    Kinds = {"ping", "start", "stop", "status", "bad"}
    MaxArrivals = 2
INVARIANTS
    TypeOK
    AnsweredInOrder
    TransitionalStateSettles
    RecordingIsActive
PROPERTIES
    ImplementsCommandService
    AckedStatusIsPublished
    EveryCommandAnswered
