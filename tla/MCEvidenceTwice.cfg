\* A target (product) is found by a search and read in the Grill of the next snapshot.
SPECIFICATION Spec
CONSTANTS
  code = code
  product = product
  d1 = d1
  consent = consent
  Documents <- MCDocuments
  Targets = {product}
  Manifests <- MCManifests
  ConsentId = consent
  DecisionIds <- MCDecisionIds
  EvidenceIds <- MCEvidenceIds
  Answers <- MCAnswers
  SearchLimit = 1
  AnswerLimit = 8
  Commands = {}
  MaxRound = 2
  MaxDeep = 3
  MaxContext = 0
  MaxAdr = 0
  MaxDiscoveries = 2
  MaxIssued = 5
CHECK_DEADLOCK FALSE
INVARIANT EachEvidenceOnce
