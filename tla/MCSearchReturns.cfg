\* Every search must return: refuted, with four servers, by the first answer
\* that arrives before the others.
SPECIFICATION FairSearchSpec
CONSTANTS
  Servers = {s1, s2, s3, s4}
  Slow = {}
  None = None
PROPERTIES SearchReturns
