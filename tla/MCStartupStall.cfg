\* The database stalls at any step of a start.
SPECIFICATION FairSpec
PROPERTY ValidConfigurationServes
