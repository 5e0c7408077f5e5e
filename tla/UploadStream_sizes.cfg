SPECIFICATION Spec
CONSTANTS
    Maxima <- MCMaxima
    Slack = 2
    sniffSize = 3
    Signature = 2
    PartSize = 4
    Sizes <- MCSizes
    Forms <- MCForms
INVARIANTS
    TypeOK
    VerdictIsTrue
PROPERTIES
    ReadsStopAtMaximum
    EveryUploadIsAnswered
