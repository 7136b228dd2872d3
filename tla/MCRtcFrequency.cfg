SPECIFICATION Spec
CONSTANTS
  Terms = {t1, t2}
  Rates <- MCRates
  StackBytes <- NoBytes
  Overlap = FALSE
PROPERTIES
  FrequencySet
