\* Two processes and one fault; the durable consumer may outlive its client.
SPECIFICATION FairSpec
CONSTANTS
  Node = {n1, n2}
  Nobody = Nobody
  Ghost = Ghost
  MaxFaults = 1
  OddAnswers = FALSE
PROPERTIES ServicesSettle
