CONSTANT EventQueueLength = 4
SPECIFICATION FairSpec
PROPERTIES  EndsWithoutLink 
