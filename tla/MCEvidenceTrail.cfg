\* Two workflows or two snapshots of one, with every command.
SPECIFICATION Spec
CONSTANTS
  code = code
  product = product
  d1 = d1
  consent = consent
  Documents <- MCDocuments
  Targets = {product}
  Manifests <- MCManifests
  ConsentId = consent
  DecisionIds <- MCDecisionIds
  EvidenceIds <- MCEvidenceIds
  Answers <- MCAnswers
  SearchLimit = 1
  AnswerLimit = 8
  Commands = {"cancel", "continue", "reject"}
  MaxRound = 3
  MaxDeep = 3
  MaxContext = 1
  MaxAdr = 2
  MaxDiscoveries = 2
  MaxIssued = 8
CHECK_DEADLOCK FALSE
INVARIANTS
  TypeOK
  EverythingTracesBack
  
  NoDocumentNoClaim
