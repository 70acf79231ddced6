SPECIFICATION Spec
CONSTANTS
    Things = {app, alb}
    AppServer = app
INVARIANTS
    TypeOK
    SecretMeansServer
    ArmedMeansDeployed
PROPERTY AnsweredVerdictIsRight
